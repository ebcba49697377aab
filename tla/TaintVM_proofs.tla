---------------------------- MODULE TaintVM_proofs ----------------------------
(***************************************************************************)
(* Theorems about TaintVM, for every set of threads, closures, taints and  *)
(* library functions.                                                      *)
(*                                                                         *)
(* Parts 1 to 9: types, the shape of the stacks (which frames and which    *)
(* activations can be on top of which), and the cached write taint.        *)
(*                                                                         *)
(* Parts 10 to 17: the machine implements TaintContext.  Whatever thread   *)
(* runs, there is one taint context, which picks up what is read and is    *)
(* given back what a barrier saved when that barrier is left.              *)
(*                                                                         *)
(* Parts 18 and 19: the pin, what L->fixedtaint is while Lua code runs,    *)
(* that nothing else keeps one, and what follows for closures and          *)
(* finalizers.  A hook holds the pin of the frame that it interrupts and   *)
(* gives it back, so that it matters in which mode it does: that is        *)
(* Part 17.                                                                *)
(*                                                                         *)
(* Parts 20 to 25: taint is not lost.  What a tainted Lua closure has      *)
(* computed stays tainted, whatever calls, returns, errors, barriers,      *)
(* finalizers, hooks and coroutine switches come between its entry and the *)
(* computation.                                                            *)
(***************************************************************************)
EXTENDS TaintVM, TLAPS

-----------------------------------------------------------------------------
(* Part 1: sequences.                                                      *)
LEMMA LastOf ==
  ASSUME NEW S, NEW s \in Seq(S), Len(s) >= 1
  PROVE  Last(s) = s[Len(s)] /\ Last(s) \in S
<1>1. Len(s) \in 1 .. Len(s)
  OBVIOUS
<1>2. s[Len(s)] \in S
  BY <1>1
<1> QED
  BY <1>2 DEF Last

LEMMA PrefixOf ==
  ASSUME NEW S, NEW s \in Seq(S), NEW k \in 0 .. Len(s)
  PROVE  /\ SubSeq(s, 1, k) \in Seq(S) /\ Len(SubSeq(s, 1, k)) = k
         /\ \A i \in 1 .. k : SubSeq(s, 1, k)[i] = s[i]
  OBVIOUS

LEMMA FrontOf ==
  ASSUME NEW S, NEW s \in Seq(S), Len(s) >= 1
  PROVE  /\ Front(s) \in Seq(S) /\ Len(Front(s)) = Len(s) - 1
         /\ \A i \in 1 .. Len(s) - 1 : Front(s)[i] = s[i]
<1>1. Len(s) - 1 \in 0 .. Len(s)
  OBVIOUS
<1> QED
  BY <1>1, PrefixOf DEF Front

LEMMA WithTopOf ==
  ASSUME NEW S, NEW s \in Seq(S), Len(s) >= 1, NEW e \in S
  PROVE  /\ WithTop(s, e) \in Seq(S) /\ Len(WithTop(s, e)) = Len(s)
         /\ WithTop(s, e)[Len(s)] = e
         /\ \A i \in 1 .. Len(s) - 1 : WithTop(s, e)[i] = s[i]
<1>1. /\ Front(s) \in Seq(S) /\ Len(Front(s)) = Len(s) - 1
      /\ \A i \in 1 .. Len(s) - 1 : Front(s)[i] = s[i]
  BY FrontOf
<1> DEFINE r == Front(s)
<1> HIDE DEF r
<1>2. /\ Append(r, e) \in Seq(S) /\ Len(Append(r, e)) = Len(r) + 1
      /\ Append(r, e)[Len(r) + 1] = e
      /\ \A i \in 1 .. Len(r) : Append(r, e)[i] = r[i]
  BY <1>1 DEF r
<1> QED
  BY <1>1, <1>2 DEF r, WithTop

-----------------------------------------------------------------------------
(* Part 2: the primitives keep the type of the taint fields.               *)
LEMMA SetTaintModeTyped ==
  ASSUME NEW x \in ThreadTaint, NEW rd \in BOOLEAN, NEW wr \in BOOLEAN
  PROVE  /\ SetTaintMode(x, rd, wr) \in ThreadTaint
         /\ SetTaintMode(x, rd, wr).rd = rd /\ SetTaintMode(x, rd, wr).wr = wr
         /\ \A f \in {"stack", "fixed", "newgc", "newcl"} : SetTaintMode(x, rd, wr)[f] = x[f]
  BY DEF SetTaintMode, ThreadTaint, TaintOrNull

LEMMA SetStackTaintTyped ==
  ASSUME NEW x \in ThreadTaint, NEW taint \in TaintOrNull
  PROVE  /\ SetStackTaint(x, taint) \in ThreadTaint
         /\ SetStackTaint(x, taint).stack = taint
         /\ \A f \in {"rd", "wr", "fixed", "newgc", "newcl"} : SetStackTaint(x, taint)[f] = x[f]
  BY DEF SetStackTaint, ThreadTaint, TaintOrNull
LEMMA TaintStackTyped ==
  ASSUME NEW x \in ThreadTaint, NEW taint \in TaintOrNull
  PROVE  /\ TaintStack(x, taint) \in ThreadTaint
         /\ \A f \in {"rd", "wr", "fixed", "newgc", "newcl"} : TaintStack(x, taint)[f] = x[f]
         /\ TaintStack(x, taint).stack \in {taint, x.stack}
         /\ x.stack # NULL => TaintStack(x, taint).stack # NULL
         /\ x.fixed # NULL => TaintStack(x, taint) = x
  BY SetStackTaintTyped DEF TaintStack

LEMMA FieldTyped ==
  ASSUME NEW x \in ThreadTaint, NEW v \in TaintOrNull
  PROVE  /\ [x EXCEPT !.fixed = v] \in ThreadTaint
         /\ [x EXCEPT !.newgc = v] \in ThreadTaint
         /\ [x EXCEPT !.newcl = v] \in ThreadTaint
  BY DEF ThreadTaint

LEMMA UnpinTyped ==
  ASSUME NEW x \in ThreadTaint
  PROVE  /\ Unpin(x) \in ThreadTaint /\ Unpin(x).fixed = NULL
         /\ \A f \in {"rd", "wr", "stack", "write", "newgc", "newcl"} : Unpin(x)[f] = x[f]
  BY DEF Unpin, ThreadTaint, TaintOrNull

(* luaV_execute pins the taint it has given to the stack.                  *)
LEMMA ReenterTyped ==
  ASSUME NEW x \in ThreadTaint, NEW taint \in TaintOrNull
  PROVE  /\ Reenter(x, taint) \in ThreadTaint /\ Reenter(x, taint).fixed = taint
         /\ \A f \in {"rd", "wr", "newgc", "newcl"} : Reenter(x, taint)[f] = x[f]
         /\ Reenter(x, taint).stack \in {taint, x.stack}
         /\ x.stack # NULL => Reenter(x, taint).stack # NULL
         /\ taint # NULL /\ x.rd => Reenter(x, taint).stack = taint
<1> DEFINE y == TaintStack(Unpin(x), taint)
<1>1. /\ y \in ThreadTaint
      /\ \A f \in {"rd", "wr", "newgc", "newcl"} : y[f] = x[f]
      /\ y.stack \in {taint, x.stack}
      /\ x.stack # NULL => y.stack # NULL
  BY UnpinTyped, TaintStackTyped
<1>2. taint # NULL /\ x.rd => y.stack = taint
  BY UnpinTyped, SetStackTaintTyped DEF TaintStack
<1>3. Reenter(x, taint) = [y EXCEPT !.fixed = taint]
  BY DEF Reenter
<1> HIDE DEF y
<1> QED
  BY <1>1, <1>2, <1>3 DEF ThreadTaint

LEMMA LoadTaintTyped ==
  ASSUME NEW x \in ThreadTaint, NEW saved \in Context
  PROVE  /\ LoadTaint(x, saved) \in ThreadTaint
         /\ LoadTaint(x, saved).fixed = x.fixed
         /\ \A f \in {"rd", "wr", "stack", "newgc", "newcl"} : LoadTaint(x, saved)[f] = saved[f]
<1> DEFINE y == SetStackTaint(SetTaintMode(x, saved.rd, saved.wr), saved.stack)
           z == SetTaintMode(x, saved.rd, saved.wr)
<1>0. saved.rd \in BOOLEAN /\ saved.wr \in BOOLEAN /\ saved.stack \in TaintOrNull
  BY DEF Context
<1>1. /\ y \in ThreadTaint /\ y.fixed = x.fixed
      /\ \A f \in {"rd", "wr", "stack"} : y[f] = saved[f]
  <2>1. z \in ThreadTaint /\ z.fixed = x.fixed /\ z.rd = saved.rd /\ z.wr = saved.wr
    BY <1>0, SetTaintModeTyped
  <2> HIDE DEF z
  <2> QED
    BY <1>0, <2>1, SetStackTaintTyped DEF z
<1>2. LoadTaint(x, saved) = [y EXCEPT !.newgc = saved.newgc, !.newcl = saved.newcl]
  BY DEF LoadTaint
<1> HIDE DEF y
<1> QED
  BY <1>1, <1>2 DEF ThreadTaint, Context

LEMMA SaveTaintTyped ==
  ASSUME NEW x \in ThreadTaint
  PROVE  /\ SaveTaint(x) \in Context
         /\ \A f \in {"rd", "wr", "stack", "newgc", "newcl"} : SaveTaint(x)[f] = x[f]
  BY DEF SaveTaint, ThreadTaint, Context

LEMMA TaintThreadTyped ==
  ASSUME NEW x \in ThreadTaint, NEW from \in ThreadTaint
  PROVE  /\ TaintThread(x, from) \in ThreadTaint
         /\ TaintThread(x, from).fixed = x.fixed
         /\ \A f \in {"rd", "wr", "stack", "newgc", "newcl"} : TaintThread(x, from)[f] = from[f]
  BY SaveTaintTyped, LoadTaintTyped DEF TaintThread

LEMMA PreinitTyped ==
  /\ PreinitTaint \in ThreadTaint /\ PreinitTaint.fixed = NULL
  /\ PreinitTaint.rd = FALSE /\ PreinitTaint.wr = FALSE /\ PreinitTaint.stack = NULL
  BY DEF PreinitTaint, ThreadTaint, TaintOrNull
LEMMA EnteredTyped ==
  ASSUME clo \in [Closure -> TaintOrNull],
         NEW x \in ThreadTaint, NEW f \in Callee, NEW v \in Value
  PROVE  /\ Entered(x, f, v) \in ThreadTaint
         /\ \A g \in {"rd", "wr", "newgc", "newcl"} : Entered(x, f, v)[g] = x[g]
         /\ Entered(x, f, v).fixed = IF f = NULL THEN NULL ELSE clo[f]
         /\ x.stack # NULL => Entered(x, f, v).stack # NULL
         /\ f # NULL /\ clo[f] # NULL /\ x.rd => Entered(x, f, v).stack = clo[f]
<1>1. CASE f = NULL
  BY <1>1, UnpinTyped DEF Entered
<1>2. CASE f # NULL
  <2> DEFINE y == IF f \in Vararg THEN TaintStack(Unpin(x), v.taint) ELSE x
  <2>1. v.taint \in TaintOrNull /\ clo[f] \in TaintOrNull
    BY <1>2 DEF Value, Callee
  <2>2. /\ y \in ThreadTaint
        /\ \A g \in {"rd", "wr", "newgc", "newcl"} : y[g] = x[g]
        /\ x.stack # NULL => y.stack # NULL
    BY <2>1, UnpinTyped, TaintStackTyped
  <2>3. Entered(x, f, v) = Reenter(y, clo[f])
    BY <1>2 DEF Entered
  <2> HIDE DEF y
  <2> QED
    BY <1>2, <2>1, <2>2, <2>3, ReenterTyped
<1> QED
  BY <1>1, <1>2

-----------------------------------------------------------------------------
(* Part 3: values.                                                         *)
LEMMA MovedTyped ==
  ASSUME NEW x \in ThreadTaint, NEW v \in Value
  PROVE  /\ Moved(x, v) \in Value /\ Moved(x, v).by = v.by
         /\ v.taint # NULL => Moved(x, v).taint # NULL
         /\ Moved(x, v).taint \in TaintOrNull /\ v.taint \in TaintOrNull
  BY DEF Moved, SlotTaint, Value, ThreadTaint

LEMMA LabelledTyped ==
  ASSUME NEW taint \in TaintOrNull
  PROVE  Labelled(taint) \in Value /\ Labelled(taint).by = NULL /\ Labelled(taint).taint = taint
  BY DEF Labelled, Value, TaintOrNull

LEMMA SecureTyped == Secure \in Value /\ Secure.by = NULL /\ Secure.taint = NULL /\ NULL \in TaintOrNull
  BY DEF Secure, Value, TaintOrNull

LEMMA ComputedTyped ==
  ASSUME now \in ThreadTaint, top \in Frame
  PROVE  Computed \in Value
  BY DEF Computed, Value, ThreadTaint, Frame, TaintOrNull

LEMMA AfterMoveTyped ==
  ASSUME now \in ThreadTaint, top \in Frame, NEW wanted \in BOOLEAN
  PROVE  /\ AfterMove(wanted) \in ThreadTaint /\ AfterMove(wanted).fixed = NULL
         /\ \A g \in {"rd", "wr", "newgc", "newcl"} : AfterMove(wanted)[g] = now[g]
         /\ AfterMove(wanted).stack \in {now.stack, Results(wanted, top.val).taint}
         /\ now.stack # NULL => AfterMove(wanted).stack # NULL
<1>1. Results(wanted, top.val).taint \in TaintOrNull
  BY SecureTyped DEF Results, Frame, Value
<1> QED
  BY <1>1, UnpinTyped, TaintStackTyped DEF AfterMove

-----------------------------------------------------------------------------
(* Part 4: the frames of a thread.  The host's, base_ci, is at the bottom; *)
(* a frame that has called another has saved its taint.                    *)
GoodFrame(s, i) ==
  /\ s[i].kind = "base" <=> i = 1
  /\ s[i].kind = "lua" => s[i].fn \in Closure
  /\ s[i].kind # "lua" => s[i].ent = NULL
  /\ i < Len(s) => s[i].sav # "uninit"

GoodFrames == {s \in Seq(Frame) : Len(s) >= 1 /\ \A i \in 1 .. Len(s) : GoodFrame(s, i)}

LEMMA TopOf ==
  ASSUME NEW s \in GoodFrames
  PROVE  /\ Last(s) = s[Len(s)] /\ Last(s) \in Frame /\ Len(s) \in Nat /\ Len(s) >= 1
         /\ Last(s).val \in Value
         /\ Last(s).kind = "base" <=> Len(s) = 1
         /\ Last(s).kind = "lua" => Last(s).fn \in Closure
         /\ Last(s).kind # "lua" => Last(s).ent = NULL
<1>1. s \in Seq(Frame) /\ Len(s) >= 1 /\ Len(s) \in 1 .. Len(s)
  BY DEF GoodFrames
<1>2. Last(s) = s[Len(s)] /\ Last(s) \in Frame
  BY <1>1, LastOf
<1>3. GoodFrame(s, Len(s))
  BY <1>1 DEF GoodFrames
<1> QED
  BY <1>1, <1>2, <1>3 DEF GoodFrame, Frame

LEMMA ReplacedTop ==
  ASSUME NEW s \in GoodFrames, NEW e \in Frame, e.kind = Last(s).kind,
         e.kind = "lua" => e.fn \in Closure, e.kind # "lua" => e.ent = NULL
  PROVE  /\ WithTop(s, e) \in GoodFrames /\ Len(WithTop(s, e)) = Len(s)
         /\ WithTop(s, e)[Len(s)] = e /\ Last(WithTop(s, e)) = e
         /\ \A i \in 1 .. Len(s) - 1 : WithTop(s, e)[i] = s[i]
<1> DEFINE r == WithTop(s, e)
<1>1. /\ r \in Seq(Frame) /\ Len(r) = Len(s) /\ r[Len(s)] = e
      /\ \A i \in 1 .. Len(s) - 1 : r[i] = s[i]
  BY WithTopOf DEF GoodFrames
<1> HIDE DEF r
<1>2. ASSUME NEW i \in 1 .. Len(s) PROVE GoodFrame(r, i)
  <2>1. GoodFrame(s, i) /\ Len(s) \in Nat
    BY DEF GoodFrames
  <2>2. CASE i = Len(s)
    BY <1>1, <2>1, <2>2, TopOf DEF GoodFrame
  <2>3. CASE i # Len(s)
    BY <1>1, <2>1, <2>3 DEF GoodFrame
  <2> QED
    BY <2>2, <2>3
<1>3. r \in GoodFrames
  BY <1>1, <1>2 DEF GoodFrames
<1> QED
  BY <1>1, <1>3, TopOf DEF r

LEMMA RevaluedTop ==
  ASSUME NEW s \in GoodFrames, NEW v \in Value
  PROVE  /\ WithVal(s, v) \in GoodFrames /\ Len(WithVal(s, v)) = Len(s)
         /\ WithVal(s, v)[Len(s)] = [Last(s) EXCEPT !.val = v]
         /\ \A i \in 1 .. Len(s) - 1 : WithVal(s, v)[i] = s[i]
<1> DEFINE e == [Last(s) EXCEPT !.val = v]
<1>1. /\ e \in Frame /\ e.kind = Last(s).kind /\ e.fn = Last(s).fn /\ e.ent = Last(s).ent
  BY TopOf DEF Frame
<1>2. WithVal(s, v) = WithTop(s, e)
  BY DEF WithVal
<1> HIDE DEF e
<1>3. /\ WithTop(s, e) \in GoodFrames /\ Len(WithTop(s, e)) = Len(s)
      /\ WithTop(s, e)[Len(s)] = e
      /\ \A i \in 1 .. Len(s) - 1 : WithTop(s, e)[i] = s[i]
  BY <1>1, TopOf, ReplacedTop
<1> QED
  BY <1>2, <1>3 DEF e

LEMMA PrefixFrames ==
  ASSUME NEW s \in GoodFrames, NEW k \in 1 .. Len(s)
  PROVE  /\ SubSeq(s, 1, k) \in GoodFrames /\ Len(SubSeq(s, 1, k)) = k
         /\ \A i \in 1 .. k : SubSeq(s, 1, k)[i] = s[i]
<1> DEFINE r == SubSeq(s, 1, k)
<1>1. r \in Seq(Frame) /\ Len(r) = k /\ \A i \in 1 .. k : r[i] = s[i]
  <2>1. s \in Seq(Frame) /\ k \in 0 .. Len(s)
    BY DEF GoodFrames
  <2> QED
    BY <2>1, PrefixOf
<1> HIDE DEF r
<1>2. ASSUME NEW i \in 1 .. k PROVE GoodFrame(r, i)
  <2>1. i \in 1 .. Len(s) /\ GoodFrame(s, i)
    BY DEF GoodFrames
  <2> QED
    BY <1>1, <2>1 DEF GoodFrame
<1>3. r \in GoodFrames
  BY <1>1, <1>2 DEF GoodFrames
<1> QED
  BY <1>1, <1>3 DEF r

LEMMA PoppedFrames ==
  ASSUME NEW s \in GoodFrames, Last(s).kind # "base"
  PROVE  /\ Front(s) \in GoodFrames /\ Len(Front(s)) = Len(s) - 1 /\ Len(s) >= 2
         /\ \A i \in 1 .. Len(s) - 1 : Front(s)[i] = s[i]
         /\ Last(Front(s)) = s[Len(s) - 1]
<1>0. Len(s) \in Nat /\ Len(s) >= 1 /\ Len(s) # 1
  BY TopOf
<1>1. Len(s) - 1 \in 1 .. Len(s) /\ Len(s) >= 2
  BY <1>0
<1>2. /\ Front(s) \in GoodFrames /\ Len(Front(s)) = Len(s) - 1
      /\ \A i \in 1 .. Len(s) - 1 : Front(s)[i] = s[i]
  BY <1>1, PrefixFrames DEF Front
<1> QED
  BY <1>1, <1>2, TopOf

(* luaD_precall: savedtaint of the caller is written, and the frame of the *)
(* callee is pushed.                                                       *)
LEMMA CallFrameTyped ==
  ASSUME clo \in [Closure -> TaintOrNull],
         NEW x \in ThreadTaint, NEW f \in Callee, NEW v \in Value
  PROVE  /\ CallFrame(x, f, v) \in Frame /\ CallFrame(x, f, v).val = v
         /\ CallFrame(x, f, v).kind = IF f = NULL THEN "c" ELSE "lua"
         /\ CallFrame(x, f, v).fn = f
         /\ CallFrame(x, f, v).ent = IF f # NULL /\ x.rd THEN clo[f] ELSE NULL
<1>1. Entry(x, f) \in TaintOrNull /\ Entry(x, f) = IF f # NULL /\ x.rd THEN clo[f] ELSE NULL
  BY SecureTyped DEF Entry, Callee
<1> QED
  BY <1>1 DEF CallFrame, Frame, Callee

(* A frame on top of those of thread t.                                    *)
OneMore(s, r) ==
  /\ Len(r) = Len(s) + 1
  /\ \A i \in 1 .. Len(s) : r[i].kind = s[i].kind
  /\ r[1].fn = s[1].fn
  /\ r[Len(s) + 1].kind \in {"lua", "c"}

LEMMA CalledFrames ==
  ASSUME clo \in [Closure -> TaintOrNull],
         NEW s \in GoodFrames, NEW x \in ThreadTaint, NEW f \in Callee, NEW v \in Value
  PROVE  /\ Called(s, x, f, v) \in GoodFrames /\ Len(Called(s, x, f, v)) = Len(s) + 1
         /\ Called(s, x, f, v)[Len(s) + 1] = CallFrame(x, f, v)
         /\ Last(Called(s, x, f, v)) = CallFrame(x, f, v)
         /\ \A g \in {"kind", "fn", "val", "ent"} : Called(s, x, f, v)[Len(s)][g] = Last(s)[g]
         /\ \A i \in 1 .. Len(s) - 1 : Called(s, x, f, v)[i] = s[i]
         /\ OneMore(s, Called(s, x, f, v))
         /\ Called(s, x, f, v)[Len(s) + 1].kind = IF f = NULL THEN "c" ELSE "lua"
<1> DEFINE caller == [Last(s) EXCEPT !.sav = x.stack]
           r == WithTop(s, caller)
           e == CallFrame(x, f, v)
           q == Append(r, e)
<1>1. /\ caller \in Frame /\ caller.kind = Last(s).kind /\ caller.fn = Last(s).fn
      /\ caller.val = Last(s).val /\ caller.ent = Last(s).ent /\ caller.sav # "uninit"
  BY TopOf, TaintAssumption DEF Frame, ThreadTaint
<1> HIDE DEF caller
<1>2. /\ r \in GoodFrames /\ Len(r) = Len(s) /\ r[Len(s)] = caller
      /\ \A i \in 1 .. Len(s) - 1 : r[i] = s[i]
  BY <1>1, TopOf, ReplacedTop
<1>3. e \in Frame /\ e.kind \in {"c", "lua"} /\ (e.kind = "lua" => e.fn \in Closure)
      /\ (e.kind # "lua" => e.ent = NULL)
  BY CallFrameTyped, ClosureAssumption DEF Callee
<1> HIDE DEF r, e
<1>4. /\ q \in Seq(Frame) /\ Len(q) = Len(s) + 1 /\ q[Len(s) + 1] = e
      /\ \A i \in 1 .. Len(s) : q[i] = r[i]
  BY <1>2, <1>3 DEF GoodFrames
<1> HIDE DEF q
<1>5. ASSUME NEW i \in 1 .. Len(s) + 1 PROVE GoodFrame(q, i)
  <2>1. Len(s) \in Nat /\ Len(s) >= 1 /\ \A j \in 1 .. Len(s) : GoodFrame(r, j)
    BY <1>2, TopOf DEF GoodFrames
  <2>2. CASE i = Len(s) + 1
    <3>1. q[i] = e /\ i # 1 /\ i = Len(q)
      BY <1>4, <2>1, <2>2
    <3> QED
      BY <1>3, <3>1 DEF GoodFrame
  <2>3. CASE i = Len(s)
    BY <1>1, <1>2, <1>4, <2>1, <2>3 DEF GoodFrame
  <2>4. CASE i < Len(s)
    BY <1>2, <1>4, <2>1, <2>4 DEF GoodFrame
  <2> QED
    BY <2>1, <2>2, <2>3, <2>4
<1>6. q \in GoodFrames
  BY <1>4, <1>5, TopOf DEF GoodFrames
<1>7. Called(s, x, f, v) = q
  BY DEF Called, q, r, e, caller
<1>8. 1 <= Len(s) /\ Len(s) \in Nat /\ Len(s) \in 1 .. Len(s)
  BY TopOf
<1>9. Last(q) = e
  BY <1>4, <1>6, TopOf
<1>10. caller.kind = s[Len(s)].kind /\ caller.fn = s[Len(s)].fn
  BY <1>1, TopOf
<1>11. \A i \in 1 .. Len(s) : q[i].kind = s[i].kind /\ q[i].fn = s[i].fn
  BY <1>2, <1>4, <1>8, <1>10
<1>12. 1 \in 1 .. Len(s)
  BY <1>8
<1>13. e.kind = IF f = NULL THEN "c" ELSE "lua"
  BY CallFrameTyped DEF e
<1>14. OneMore(s, q)
  BY <1>3, <1>4, <1>11, <1>12 DEF OneMore
<1> QED
  BY <1>1, <1>2, <1>4, <1>6, <1>7, <1>8, <1>9, <1>13, <1>14 DEF e
-----------------------------------------------------------------------------
(* Part 5: the C stack over the frames.                                    *)
Switch == {"resume", "cocall"}    \* activations on another thread
Depth == Len(cstack)
Below(k) == IF k = 1 THEN Main ELSE cstack[k - 1].t
Active(t, i) == \E k \in 1 .. Depth : cstack[k].t = t /\ cstack[k].at = i

Typed ==
  /\ ts \in [Thread -> ThreadTaint]
  /\ ci \in [Thread -> GoodFrames]
  /\ st \in [Thread -> Status]
  /\ cstack \in Seq(Activation)
  /\ clo \in [Closure -> TaintOrNull]
  /\ heap \in [Cell -> Value]
  /\ ctl \in Control

(* An activation runs on the thread of the one below it, but for resume    *)
(* and coroutine.call.                                                     *)
Linking ==
  \A k \in 1 .. Depth :
    /\ cstack[k].at >= 1
    /\ cstack[k].from = Below(k)
    /\ cstack[k].how \notin Switch => cstack[k].t = cstack[k].from
    /\ cstack[k].how = "resume" =>
         cstack[k].at = 1 /\ cstack[k].t \notin {cstack[k].from, Main}
    /\ cstack[k].how # "hook" => cstack[k].fix = NULL

Ordering ==
  \A j, k \in 1 .. Depth : j < k =>
    /\ (\A m \in j + 1 .. k : cstack[m].how \notin Switch) => cstack[j].t = cstack[k].t
    /\ cstack[j].t = cstack[k].t => cstack[j].at < cstack[k].at

(* Each has frames above it, until they have returned to lua_resume.       *)
Heights ==
  \A k \in 1 .. Depth :
    \/ /\ cstack[k].at < Len(ci[cstack[k].t])
       /\ cstack[k].how = "hook" => ci[cstack[k].t][cstack[k].at].kind = "lua"
       /\ cstack[k].how = "resume" => ci[cstack[k].t][2].kind = "lua"
    \/ k = Depth /\ ctl = "returned"

(* The threads on the C stack are those that are not suspended.            *)
Statuses ==
  /\ st[Main] = "live"
  /\ \A k \in 1 .. Depth :
       st[cstack[k].t] \in {"live", "fresh"} \/ (k = Depth /\ ctl \in {"returned", "yielded"})
  /\ \A t \in Thread : st[t] = "fresh" => ci[t][1].fn \in Closure
  /\ ctl \in {"returned", "yielded", "failed"} => Depth > 0 /\ cstack[Depth].how = "resume"
  /\ ctl = "returned" => st[cur] = "dead"
  /\ ctl = "yielded" => st[cur] = "yield"

(* A C function was called by Lua or through an activation; a coroutine    *)
(* has only Lua frames below the C function that yields.                   *)
Callers ==
  \A t \in Thread : \A i \in 2 .. Len(ci[t]) :
    ci[t][i].kind = "c" =>
      /\ st[t] \in {"live", "fresh"} =>
           \/ ci[t][i - 1].kind = "lua" \/ Active(t, i - 1)
           \/ t = cur /\ ctl = "failed"
      /\ st[t] = "yield" => ci[t][i - 1].kind = "lua"

Suspended == \A t \in Thread : st[t] = "yield" => ci[t][Len(ci[t])].kind = "c"

ControlInv == Linking /\ Ordering /\ Heights /\ Statuses /\ Callers /\ Suspended

LEMMA CurIs ==
  ASSUME cstack \in Seq(Activation)
  PROVE  /\ cur = IF Depth = 0 THEN Main ELSE cstack[Depth].t
         /\ cur \in Thread /\ Depth \in Nat /\ DOMAIN cstack = 1 .. Depth
         /\ \A k \in 1 .. Depth : cstack[k] \in Activation
         /\ Depth > 0 => Last(cstack) = cstack[Depth] /\ Depth \in 1 .. Depth
<1>1. Depth \in Nat /\ (cstack = <<>> <=> Depth = 0) /\ DOMAIN cstack = 1 .. Depth
      /\ \A k \in 1 .. Depth : cstack[k] \in Activation
  BY DEF Depth
<1>2. Depth > 0 => Last(cstack) = cstack[Depth] /\ Depth \in 1 .. Depth
  BY <1>1, LastOf DEF Depth
<1>3. cur = IF Depth = 0 THEN Main ELSE cstack[Depth].t
  BY <1>1, <1>2 DEF cur
<1> QED
  BY <1>1, <1>2, <1>3, ThreadAssumption DEF Activation

LEMMA NowTyped ==
  ASSUME Typed
  PROVE  /\ cur \in Thread /\ now \in ThreadTaint /\ now = ts[cur]
         /\ ci[cur] \in GoodFrames
         /\ top = ci[cur][Len(ci[cur])] /\ top \in Frame /\ top.val \in Value
         /\ Len(ci[cur]) \in Nat /\ Len(ci[cur]) >= 1
         /\ top.kind = "base" <=> Len(ci[cur]) = 1
         /\ top.kind = "lua" => top.fn \in Closure
         /\ top.kind # "lua" => top.ent = NULL
<1>1. cur \in Thread
  BY CurIs DEF Typed
<1>2. ci[cur] \in GoodFrames /\ ts[cur] \in ThreadTaint
  BY <1>1 DEF Typed
<1> QED
  BY <1>1, <1>2, TopOf DEF now, top

(* The thread that runs is on the C stack, and awake.                      *)
LEMMA CurAwake ==
  ASSUME Typed, ControlInv, ctl \in {"run", "rethrow"}
  PROVE  /\ st[cur] \in {"live", "fresh"}
         /\ \A k \in 1 .. Depth : st[cstack[k].t] \in {"live", "fresh"}
         /\ \A k \in 1 .. Depth : cstack[k].at < Len(ci[cstack[k].t])
         /\ \A k \in 1 .. Depth : cstack[k].t = cur => cstack[k].at <= cstack[Depth].at
<1>1. cstack \in Seq(Activation)
  BY DEF Typed
<1>2. /\ \A k \in 1 .. Depth : st[cstack[k].t] \in {"live", "fresh"}
      /\ \A k \in 1 .. Depth : cstack[k].at < Len(ci[cstack[k].t])
  BY DEF ControlInv, Statuses, Heights
<1>3. st[cur] \in {"live", "fresh"}
  BY <1>1, <1>2, CurIs DEF ControlInv, Statuses
<1>4. ASSUME NEW k \in 1 .. Depth, cstack[k].t = cur
      PROVE  cstack[k].at <= cstack[Depth].at
  <2>1. /\ Depth \in Nat /\ Depth \in 1 .. Depth /\ cstack[Depth].t = cur
        /\ cstack[Depth].at \in Nat /\ cstack[k].at \in Nat
    BY <1>1, CurIs DEF Activation
  <2>2. CASE k = Depth
    BY <2>1, <2>2
  <2>3. CASE k < Depth
    BY <1>4, <2>1, <2>3 DEF ControlInv, Ordering
  <2> QED
    BY <2>1, <2>2, <2>3
<1> QED
  BY <1>2, <1>3, <1>4
-----------------------------------------------------------------------------
(* Part 6: what steps do to the two stacks.                                *)
SameShape(s, r) ==
  /\ Len(r) = Len(s)
  /\ \A i \in 1 .. Len(s) : r[i].kind = s[i].kind
  /\ r[1].fn = s[1].fn

(* Nothing is called and nothing returns.                                  *)
LEMMA QuietControl ==
  ASSUME Typed, ControlInv, UNCHANGED <<st, cstack, ctl>>,
         \A t \in Thread : SameShape(ci[t], ci'[t])
  PROVE  ControlInv'
<1>1. /\ \A t \in Thread : /\ Len(ci'[t]) = Len(ci[t]) /\ Len(ci[t]) \in Nat /\ Len(ci[t]) >= 1
                           /\ \A i \in 1 .. Len(ci[t]) : ci'[t][i].kind = ci[t][i].kind
                           /\ ci'[t][1].fn = ci[t][1].fn
      /\ \A k \in 1 .. Depth : cstack[k].t \in Thread /\ cstack[k].at \in Nat
      /\ Depth' = Depth /\ cur' = cur
  <2>1. \A k \in 1 .. Depth : cstack[k].t \in Thread /\ cstack[k].at \in Nat
    BY CurIs DEF Typed, Activation
  <2>2. \A t \in Thread : Len(ci[t]) \in Nat /\ Len(ci[t]) >= 1
    BY TopOf DEF Typed
  <2> QED
    BY <2>1, <2>2 DEF SameShape, Depth, cur
<1>2. Linking' /\ Ordering'
  BY <1>1 DEF ControlInv, Linking, Ordering, Below
<1>3. Heights'
  <2> SUFFICES ASSUME NEW k \in 1 .. Depth, ~(k = Depth /\ ctl = "returned")
               PROVE  /\ cstack[k].at < Len(ci'[cstack[k].t])
                      /\ cstack[k].how = "hook" => ci'[cstack[k].t][cstack[k].at].kind = "lua"
                      /\ cstack[k].how = "resume" => ci'[cstack[k].t][2].kind = "lua"
    BY <1>1 DEF Heights
  <2>1. /\ cstack[k].at < Len(ci[cstack[k].t]) /\ cstack[k].at >= 1
        /\ cstack[k].how = "hook" => ci[cstack[k].t][cstack[k].at].kind = "lua"
        /\ cstack[k].how = "resume" => ci[cstack[k].t][2].kind = "lua"
    BY DEF ControlInv, Heights, Linking
  <2>2. cstack[k].at \in 1 .. Len(ci[cstack[k].t]) /\ 2 \in 1 .. Len(ci[cstack[k].t])
    BY <1>1, <2>1
  <2> QED
    BY <1>1, <2>1, <2>2
<1>4. Statuses' /\ Suspended'
  BY <1>1 DEF ControlInv, Statuses, Suspended
<1>5. Callers'
  <2>1. \A t, i : Active(t, i)' <=> Active(t, i)
    BY <1>1 DEF Active
  <2>2. \A t \in Thread : \A i \in 2 .. Len(ci[t]) : i \in 1 .. Len(ci[t]) /\ i - 1 \in 1 .. Len(ci[t])
    BY <1>1
  <2> QED
    BY <1>1, <2>1, <2>2 DEF ControlInv, Callers
<1> QED
  BY <1>2, <1>3, <1>4, <1>5 DEF ControlInv
LEMMA ControlTyped ==
  ASSUME Typed
  PROVE  /\ \A k \in 1 .. Depth : cstack[k].t \in Thread /\ cstack[k].at \in Nat
         /\ \A t \in Thread : Len(ci[t]) \in Nat /\ Len(ci[t]) >= 1
         /\ Depth \in Nat
  BY CurIs, TopOf DEF Typed, Activation

LEMMA PushFrame ==
  ASSUME Typed, ControlInv, ctl = "run", UNCHANGED <<st, cstack, ctl>>,
         top.kind = "lua",
         \A t \in Thread : t # cur => ci'[t] = ci[t],
         OneMore(ci[cur], ci'[cur])
  PROVE  ControlInv'
<1>1. /\ \A k \in 1 .. Depth : cstack[k].t \in Thread /\ cstack[k].at \in Nat
      /\ \A t \in Thread : Len(ci[t]) \in Nat /\ Len(ci[t]) >= 1
      /\ cur \in Thread /\ Depth' = Depth /\ cur' = cur
      /\ top = ci[cur][Len(ci[cur])]
  BY ControlTyped, NowTyped DEF Depth, cur
<1>2. \A t \in Thread : /\ \A i \in 1 .. Len(ci[t]) : ci'[t][i].kind = ci[t][i].kind
                        /\ ci'[t][1].fn = ci[t][1].fn
                        /\ Len(ci'[t]) = IF t = cur THEN Len(ci[t]) + 1 ELSE Len(ci[t])
  BY <1>1 DEF OneMore
<1>3. /\ st[cur] \in {"live", "fresh"}
      /\ \A k \in 1 .. Depth : cstack[k].at < Len(ci[cstack[k].t])
  BY CurAwake
<1>4. Linking' /\ Ordering'
  <2>1. cstack' = cstack /\ Depth' = Depth
    BY <1>1
  <2>2. Linking'
    BY <2>1 DEF ControlInv, Linking, Below
  <2>3. Ordering'
    BY <2>1 DEF ControlInv, Ordering
  <2> QED
    BY <2>2, <2>3
<1>5. Heights'
  <2> SUFFICES ASSUME NEW k \in 1 .. Depth
               PROVE  /\ cstack[k].at < Len(ci'[cstack[k].t])
                      /\ cstack[k].how = "hook" => ci'[cstack[k].t][cstack[k].at].kind = "lua"
                      /\ cstack[k].how = "resume" => ci'[cstack[k].t][2].kind = "lua"
    BY <1>1 DEF Heights
  <2>1. /\ cstack[k].at < Len(ci[cstack[k].t]) /\ cstack[k].at >= 1
        /\ cstack[k].how = "hook" => ci[cstack[k].t][cstack[k].at].kind = "lua"
        /\ cstack[k].how = "resume" => ci[cstack[k].t][2].kind = "lua"
    BY <1>3 DEF ControlInv, Heights, Linking
  <2>2. /\ cstack[k].at \in 1 .. Len(ci[cstack[k].t]) /\ 2 \in 1 .. Len(ci[cstack[k].t])
        /\ cstack[k].t \in Thread /\ Len(ci[cstack[k].t]) \in Nat
    BY <1>1, <2>1
  <2>3. Len(ci'[cstack[k].t]) \in {Len(ci[cstack[k].t]), Len(ci[cstack[k].t]) + 1}
    BY <1>2, <2>2
  <2>4. cstack[k].at < Len(ci'[cstack[k].t])
    BY <1>1, <2>1, <2>2, <2>3
  <2>5. /\ ci'[cstack[k].t][cstack[k].at].kind = ci[cstack[k].t][cstack[k].at].kind
        /\ ci'[cstack[k].t][2].kind = ci[cstack[k].t][2].kind
    BY <1>2, <2>2
  <2> QED
    BY <2>1, <2>4, <2>5
<1>6. Statuses'
  BY <1>1, <1>2 DEF ControlInv, Statuses
<1>7. Suspended'
  BY <1>1, <1>2, <1>3 DEF ControlInv, Suspended
<1>8. Callers'
  <2>1. \A t, i : Active(t, i)' <=> Active(t, i)
    BY <1>1 DEF Active
  <2>2. ASSUME NEW t \in Thread, NEW i \in 2 .. Len(ci'[t]), ci'[t][i].kind = "c"
        PROVE  /\ st[t] \in {"live", "fresh"} => ci'[t][i - 1].kind = "lua" \/ Active(t, i - 1)
               /\ st[t] = "yield" => ci'[t][i - 1].kind = "lua"
    <3>1. i \in Nat /\ i - 1 \in 1 .. Len(ci[t])
      BY <1>1, <1>2
    <3>2. CASE i <= Len(ci[t])
      <4>1. i \in 1 .. Len(ci[t]) /\ i \in 2 .. Len(ci[t])
        BY <1>1, <3>1, <3>2
      <4>2. ci[t][i].kind = "c" /\ ci'[t][i - 1].kind = ci[t][i - 1].kind
        BY <1>2, <2>2, <3>1, <4>1
      <4> QED
        BY <4>1, <4>2 DEF ControlInv, Callers
    <3>3. CASE i > Len(ci[t])
      <4>1. t = cur /\ i - 1 = Len(ci[cur])
        BY <1>1, <1>2, <3>1, <3>3
      <4> QED
        BY <1>1, <1>2, <3>1, <4>1
    <3> QED
      BY <1>1, <3>1, <3>2, <3>3
  <2> QED
    BY <1>1, <2>1, <2>2 DEF Callers
<1> QED
  BY <1>4, <1>5, <1>6, <1>7, <1>8 DEF ControlInv

Enters(a) == cstack' = Append(cstack, a)

LEMMA Appended ==
  ASSUME cstack \in Seq(Activation), NEW a \in Activation, Enters(a)
  PROVE  /\ cstack' \in Seq(Activation) /\ Depth' = Depth + 1 /\ cur' = a.t
         /\ \A k \in 1 .. Depth : cstack'[k] = cstack[k]
         /\ cstack'[Depth + 1] = a
<1>1. /\ cstack' \in Seq(Activation) /\ Depth' = Depth + 1 /\ Depth \in Nat
      /\ \A k \in 1 .. Depth : cstack'[k] = cstack[k]
      /\ cstack'[Depth + 1] = a /\ cstack' # <<>>
  BY DEF Depth, Enters
<1>2. Last(cstack') = a
  BY <1>1 DEF Last, Depth
<1> QED
  BY <1>1, <1>2 DEF cur

(* C code on the running thread enters the interpreter, on thread a.t.     *)
LEMMA EnteredLinks ==
  ASSUME Typed, Linking, Ordering,
         NEW a \in Activation, Enters(a), a.at >= 1, a.from = cur,
         a.how \notin Switch => a.t = cur,
         a.how # "hook" => a.fix = NULL,
         a.how = "resume" => a.at = 1 /\ a.t \notin {cur, Main},
         \A k \in 1 .. Depth : cstack[k].t = a.t => cstack[k].at < a.at
  PROVE  Linking' /\ Ordering'
<1>1. /\ \A k \in 1 .. Depth : cstack[k].t \in Thread /\ cstack[k].at \in Nat
      /\ Depth \in Nat
  BY ControlTyped
<1>2. /\ Depth' = Depth + 1 /\ cur' = a.t
      /\ \A k \in 1 .. Depth : cstack'[k] = cstack[k]
      /\ cstack'[Depth + 1] = a
  BY Appended DEF Typed
<1>3. \A k \in 1 .. Depth' : k \in 1 .. Depth \/ k = Depth + 1
  BY <1>1, <1>2
<1>4. Linking'
  <2>1. \A k \in 1 .. Depth : Below(k)' = Below(k)
    BY <1>1, <1>2 DEF Below
  <2>2. \A n : n = Depth + 1 => Below(n)' = cur
    <3>0. cstack \in Seq(Activation)
      BY DEF Typed
    <3>1. CASE Depth = 0
      <4>1. cur = Main /\ Depth + 1 = 1
        BY <3>0, <3>1, CurIs
      <4> QED
        BY <4>1 DEF Below
    <3>2. CASE Depth > 0
      <4>1. Depth + 1 # 1 /\ (Depth + 1) - 1 = Depth /\ Depth \in 1 .. Depth
        BY <1>1, <3>2
      <4> QED
        BY <1>2, <3>0, <3>2, <4>1, CurIs DEF Below
    <3> QED
      BY <1>1, <3>1, <3>2
  <2>3. ASSUME NEW k \in 1 .. Depth'
        PROVE  /\ cstack'[k].at >= 1
               /\ cstack'[k].from = Below(k)'
               /\ cstack'[k].how \notin Switch => cstack'[k].t = cstack'[k].from
               /\ cstack'[k].how = "resume" =>
                    cstack'[k].at = 1 /\ cstack'[k].t \notin {cstack'[k].from, Main}
               /\ cstack'[k].how # "hook" => cstack'[k].fix = NULL
    <3>1. CASE k \in 1 .. Depth
      BY <1>2, <2>1, <3>1 DEF Linking
    <3>2. CASE k = Depth + 1
      BY <1>1, <1>2, <2>2, <3>2
    <3> QED
      BY <1>3, <3>1, <3>2
  <2> QED
    BY <2>3 DEF Linking
<1>5. Ordering'
  <2> SUFFICES ASSUME NEW j \in 1 .. Depth', NEW k \in 1 .. Depth', j < k
               PROVE  /\ (\A m \in j + 1 .. k : cstack'[m].how \notin Switch)
                              => cstack'[j].t = cstack'[k].t
                      /\ cstack'[j].t = cstack'[k].t => cstack'[j].at < cstack'[k].at
    BY DEF Ordering
  <2>1. j \in 1 .. Depth
    BY <1>1, <1>2
  <2>2. CASE k \in 1 .. Depth
    <3>1. \A m \in j + 1 .. k : m \in 1 .. Depth
      BY <1>1, <2>1, <2>2
    <3> QED
      BY <1>2, <2>1, <2>2, <3>1 DEF Ordering
  <2>3. CASE k = Depth + 1
    <3>1. cstack[j].t = a.t => cstack[j].at < a.at
      BY <2>1
    <3>2. ASSUME \A m \in j + 1 .. k : cstack'[m].how \notin Switch
          PROVE  cstack[j].t = a.t
      <4>1. k \in j + 1 .. k /\ \A m \in j + 1 .. Depth : m \in j + 1 .. k /\ m \in 1 .. Depth
        BY <1>1, <2>1, <2>3
      <4>2. a.t = cur
        BY <1>2, <2>3, <3>2, <4>1
      <4>3. cur = cstack[Depth].t
        BY <1>1, <2>1, CurIs DEF Typed
      <4>4. j = Depth \/ (j < Depth /\ Depth \in 1 .. Depth)
        BY <1>1, <2>1
      <4>5. \A m \in j + 1 .. Depth : cstack[m].how \notin Switch
        BY <1>2, <3>2, <4>1
      <4> QED
        BY <2>1, <4>2, <4>3, <4>4, <4>5 DEF Ordering
    <3> QED
      BY <1>2, <2>1, <2>3, <3>1, <3>2
  <2> QED
    BY <1>3, <2>2, <2>3
<1> QED
  BY <1>4, <1>5

LEMMA PushActivation ==
  ASSUME Typed, ControlInv, ctl = "run", ctl' = ctl,
         NEW a \in Activation, Enters(a),
         a.from = cur, a.at = Len(ci[a.t]),
         a.how \notin Switch => a.t = cur,
         a.how # "hook" => a.fix = NULL,
         a.how = "hook" => top.kind = "lua",
         a.how = "resume" => a.at = 1 /\ a.t \notin {cur, Main} /\ ci'[a.t][2].kind = "lua",
         st[a.t] \in {"live", "fresh"}, st'[a.t] \in {st[a.t], "live"},
         \A t \in Thread : t # a.t => ci'[t] = ci[t] /\ st'[t] = st[t],
         OneMore(ci[a.t], ci'[a.t])
  PROVE  ControlInv'
<1>1. /\ \A k \in 1 .. Depth : cstack[k].t \in Thread /\ cstack[k].at \in Nat
      /\ \A t \in Thread : Len(ci[t]) \in Nat /\ Len(ci[t]) >= 1
      /\ cur \in Thread /\ a.t \in Thread /\ Depth \in Nat
      /\ top = ci[cur][Len(ci[cur])]
  BY ControlTyped, NowTyped DEF Activation
<1>2. \A t \in Thread : /\ \A i \in 1 .. Len(ci[t]) : ci'[t][i].kind = ci[t][i].kind
                        /\ ci'[t][1].fn = ci[t][1].fn
                        /\ Len(ci'[t]) = IF t = a.t THEN Len(ci[t]) + 1 ELSE Len(ci[t])
  BY <1>1 DEF OneMore
<1>3. /\ \A k \in 1 .. Depth : st[cstack[k].t] \in {"live", "fresh"}
      /\ \A k \in 1 .. Depth : cstack[k].at < Len(ci[cstack[k].t])
      /\ st[cur] \in {"live", "fresh"}
  BY CurAwake
<1>4. /\ Depth' = Depth + 1 /\ cur' = a.t
      /\ \A k \in 1 .. Depth : cstack'[k] = cstack[k]
      /\ cstack'[Depth + 1] = a
  BY Appended DEF Typed
<1>5. \A k \in 1 .. Depth' : k \in 1 .. Depth \/ k = Depth + 1
  BY <1>1, <1>4
<1>6. Linking' /\ Ordering'
  BY <1>1, <1>3, EnteredLinks DEF ControlInv
<1>8. Heights'
  <2>1. ASSUME NEW k \in 1 .. Depth
        PROVE  /\ cstack[k].at < Len(ci'[cstack[k].t])
               /\ cstack[k].how = "hook" => ci'[cstack[k].t][cstack[k].at].kind = "lua"
               /\ cstack[k].how = "resume" => ci'[cstack[k].t][2].kind = "lua"
    <3>1. /\ cstack[k].at < Len(ci[cstack[k].t]) /\ cstack[k].at >= 1
          /\ cstack[k].how = "hook" => ci[cstack[k].t][cstack[k].at].kind = "lua"
          /\ cstack[k].how = "resume" => ci[cstack[k].t][2].kind = "lua"
      BY <1>3 DEF ControlInv, Heights, Linking
    <3>2. /\ cstack[k].at \in 1 .. Len(ci[cstack[k].t]) /\ 2 \in 1 .. Len(ci[cstack[k].t])
          /\ cstack[k].t \in Thread /\ Len(ci[cstack[k].t]) \in Nat
      BY <1>1, <3>1
    <3>3. Len(ci'[cstack[k].t]) \in {Len(ci[cstack[k].t]), Len(ci[cstack[k].t]) + 1}
      BY <1>2, <3>2
    <3>4. cstack[k].at < Len(ci'[cstack[k].t])
      BY <1>1, <3>1, <3>2, <3>3
    <3>5. /\ ci'[cstack[k].t][cstack[k].at].kind = ci[cstack[k].t][cstack[k].at].kind
          /\ ci'[cstack[k].t][2].kind = ci[cstack[k].t][2].kind
      BY <1>2, <3>2
    <3> QED
      BY <3>1, <3>4, <3>5
  <2>2. /\ a.at < Len(ci'[a.t])
        /\ a.how = "hook" => ci'[a.t][a.at].kind = "lua"
        /\ a.how = "resume" => ci'[a.t][2].kind = "lua"
    <3>1. a.at \in 1 .. Len(ci[a.t])
      BY <1>1
    <3>2. a.how = "hook" => a.t = cur
      BY DEF Switch
    <3> QED
      BY <1>1, <1>2, <3>1, <3>2
  <2>3. ASSUME NEW k \in 1 .. Depth'
        PROVE  /\ cstack'[k].at < Len(ci'[cstack'[k].t])
               /\ cstack'[k].how = "hook" => ci'[cstack'[k].t][cstack'[k].at].kind = "lua"
               /\ cstack'[k].how = "resume" => ci'[cstack'[k].t][2].kind = "lua"
    <3>1. CASE k \in 1 .. Depth
      <4>1. cstack'[k] = cstack[k]
        BY <1>4, <3>1
      <4> QED
        BY <2>1, <3>1, <4>1
    <3>2. CASE k = Depth + 1
      BY <1>4, <2>2, <3>2
    <3> QED
      BY <1>5, <3>1, <3>2
  <2> QED
    BY <2>3 DEF Heights
<1>9. Statuses'
  <2>1. st'[Main] = "live"
    BY <1>1, ThreadAssumption DEF ControlInv, Statuses
  <2>2. \A k \in 1 .. Depth' : st'[cstack'[k].t] \in {"live", "fresh"}
    <3>1. \A t \in Thread : st[t] \in {"live", "fresh"} => st'[t] \in {"live", "fresh"}
      OBVIOUS
    <3> QED
      BY <1>1, <1>3, <1>4, <1>5, <3>1
  <2>3. \A t \in Thread : st'[t] = "fresh" => ci'[t][1].fn \in Closure
    BY <1>2 DEF ControlInv, Statuses
  <2> QED
    BY <2>1, <2>2, <2>3 DEF Statuses
<1>10. Suspended'
  BY <1>1, <1>2, <1>3 DEF ControlInv, Suspended
<1>11. Callers'
  <2>1. \A t, i : Active(t, i) => Active(t, i)'
    BY <1>4, <1>5, <1>1 DEF Active
  <2>2. \A i : i = Len(ci[a.t]) => Active(a.t, i)'
    <3>1. Depth + 1 \in 1 .. Depth'
      BY <1>1, <1>4
    <3> QED
      BY <1>4, <3>1 DEF Active
  <2>3. ASSUME NEW t \in Thread, NEW i \in 2 .. Len(ci'[t]), ci'[t][i].kind = "c"
        PROVE  /\ st'[t] \in {"live", "fresh"} => ci'[t][i - 1].kind = "lua" \/ Active(t, i - 1)'
               /\ st'[t] = "yield" => ci'[t][i - 1].kind = "lua"
    <3>1. i \in Nat /\ i - 1 \in 1 .. Len(ci[t])
      BY <1>1, <1>2
    <3>2. CASE i <= Len(ci[t])
      <4>1. i \in 1 .. Len(ci[t]) /\ i \in 2 .. Len(ci[t])
        BY <1>1, <3>1, <3>2
      <4>2. ci[t][i].kind = "c" /\ ci'[t][i - 1].kind = ci[t][i - 1].kind
        BY <1>2, <2>3, <3>1, <4>1
      <4>3. st'[t] \in {"live", "fresh"} => st[t] \in {"live", "fresh"}
        OBVIOUS
      <4>4. st'[t] = "yield" => st[t] = "yield"
        OBVIOUS
      <4> QED
        BY <2>1, <4>1, <4>2, <4>3, <4>4 DEF ControlInv, Callers
    <3>3. CASE i > Len(ci[t])
      <4>1. t = a.t /\ i - 1 = Len(ci[a.t])
        BY <1>1, <1>2, <3>1, <3>3
      <4> QED
        BY <2>2, <4>1
    <3> QED
      BY <1>1, <3>1, <3>2, <3>3
  <2> QED
    BY <2>3 DEF Callers
<1> QED
  BY <1>6, <1>8, <1>9, <1>10, <1>11 DEF ControlInv
-----------------------------------------------------------------------------
(* The frames of s up to n, with other values.                             *)
Cut(s, r, n) ==
  /\ Len(r) = n
  /\ \A i \in 1 .. n : r[i].kind = s[i].kind
  /\ r[1].fn = s[1].fn

(* A frame returns to a Lua caller.                                        *)
LEMMA PopFrame ==
  ASSUME Typed, ControlInv, ctl = "run", UNCHANGED <<st, cstack, ctl>>,
         Len(ci[cur]) >= 2, ~AtActivation,
         \A t \in Thread : t # cur => ci'[t] = ci[t],
         Cut(ci[cur], ci'[cur], Len(ci[cur]) - 1)
  PROVE  ControlInv'
<1>1. /\ \A k \in 1 .. Depth : cstack[k].t \in Thread /\ cstack[k].at \in Nat
      /\ \A t \in Thread : Len(ci[t]) \in Nat /\ Len(ci[t]) >= 1
      /\ cur \in Thread /\ Depth \in Nat /\ Depth' = Depth /\ cur' = cur
  BY ControlTyped, NowTyped DEF Depth, cur
<1>2. \A t \in Thread : /\ \A i \in 1 .. Len(ci'[t]) : ci'[t][i].kind = ci[t][i].kind
                        /\ ci'[t][1].fn = ci[t][1].fn
                        /\ Len(ci'[t]) = IF t = cur THEN Len(ci[t]) - 1 ELSE Len(ci[t])
                        /\ Len(ci'[t]) >= 1
  <2>1. /\ Len(ci'[cur]) = Len(ci[cur]) - 1
        /\ \A i \in 1 .. Len(ci[cur]) - 1 : ci'[cur][i].kind = ci[cur][i].kind
        /\ ci'[cur][1].fn = ci[cur][1].fn
    BY DEF Cut
  <2>5. Len(ci[cur]) - 1 >= 1
    BY <1>1
  <2>2. \A i \in 1 .. Len(ci'[cur]) : ci'[cur][i].kind = ci[cur][i].kind
    BY <2>1
  <2> SUFFICES ASSUME NEW t \in Thread
               PROVE  /\ \A i \in 1 .. Len(ci'[t]) : ci'[t][i].kind = ci[t][i].kind
                      /\ ci'[t][1].fn = ci[t][1].fn
                      /\ Len(ci'[t]) = IF t = cur THEN Len(ci[t]) - 1 ELSE Len(ci[t])
                      /\ Len(ci'[t]) >= 1
    OBVIOUS
  <2>3. CASE t = cur
    BY <2>1, <2>2, <2>3, <2>5
  <2>4. CASE t # cur
    BY <1>1, <2>4
  <2> QED
    BY <2>3, <2>4
<1>3. /\ st[cur] \in {"live", "fresh"}
      /\ \A k \in 1 .. Depth : cstack[k].at < Len(ci[cstack[k].t])
      /\ \A k \in 1 .. Depth : cstack[k].t = cur => cstack[k].at <= cstack[Depth].at
  BY CurAwake
<1>4. Linking' /\ Ordering'
  <2>1. cstack' = cstack /\ Linking /\ Ordering
    BY DEF ControlInv
  <2>2. Linking'
    BY <1>1, <2>1 DEF Linking, Below
  <2>3. Ordering'
    BY <1>1, <2>1 DEF Ordering
  <2> QED
    BY <2>2, <2>3
<1>5. \A k \in 1 .. Depth : cstack[k].at < Len(ci'[cstack[k].t])
  <2>1. Depth > 0 => Len(ci[cur]) # cstack[Depth].at + 1 /\ cstack[Depth].t = cur /\ Depth \in 1 .. Depth
    BY CurIs DEF AtActivation, Typed
  <2>2. Depth > 0 => cstack[Depth].at < Len(ci[cur]) - 1
    BY <1>1, <1>3, <2>1
  <2> SUFFICES ASSUME NEW k \in 1 .. Depth PROVE cstack[k].at < Len(ci'[cstack[k].t])
    OBVIOUS
  <2>3. CASE cstack[k].t = cur
    <3>1. Len(ci'[cstack[k].t]) = Len(ci[cur]) - 1
      BY <1>1, <1>2, <2>3
    <3>2. cstack[k].at <= cstack[Depth].at /\ Depth > 0 /\ Depth \in 1 .. Depth
      BY <1>1, <1>3, <2>3
    <3> QED
      BY <1>1, <2>2, <3>1, <3>2
  <2>4. CASE cstack[k].t # cur
    BY <1>1, <1>2, <1>3, <2>4
  <2> QED
    BY <2>3, <2>4
<1>6. Heights'
  <2> SUFFICES ASSUME NEW k \in 1 .. Depth
               PROVE  /\ cstack[k].at < Len(ci'[cstack[k].t])
                      /\ cstack[k].how = "hook" => ci'[cstack[k].t][cstack[k].at].kind = "lua"
                      /\ cstack[k].how = "resume" => ci'[cstack[k].t][2].kind = "lua"
    BY <1>1 DEF Heights
  <2>1. /\ cstack[k].at >= 1 /\ cstack[k].t \in Thread /\ cstack[k].at \in Nat
        /\ cstack[k].how = "hook" => ci[cstack[k].t][cstack[k].at].kind = "lua"
        /\ cstack[k].how = "resume" => ci[cstack[k].t][2].kind = "lua"
    BY <1>1 DEF ControlInv, Heights, Linking
  <2>2. cstack[k].at < Len(ci'[cstack[k].t]) /\ Len(ci'[cstack[k].t]) \in Nat
    BY <1>1, <1>2, <1>5, <2>1
  <2>3. cstack[k].at \in 1 .. Len(ci'[cstack[k].t]) /\ 2 \in 1 .. Len(ci'[cstack[k].t])
    BY <2>1, <2>2
  <2>4. /\ ci'[cstack[k].t][cstack[k].at].kind = ci[cstack[k].t][cstack[k].at].kind
        /\ ci'[cstack[k].t][2].kind = ci[cstack[k].t][2].kind
    BY <1>2, <2>1, <2>3
  <2> QED
    BY <2>1, <2>2, <2>4
<1>7. Statuses'
  BY <1>1, <1>2 DEF ControlInv, Statuses
<1>8. Suspended'
  BY <1>1, <1>2, <1>3 DEF ControlInv, Suspended
<1>9. Callers'
  <2>1. \A t, i : Active(t, i)' <=> Active(t, i)
    BY <1>1 DEF Active
  <2>2. \A t \in Thread : \A i \in 2 .. Len(ci'[t]) :
           /\ i \in 1 .. Len(ci'[t]) /\ i - 1 \in 1 .. Len(ci'[t]) /\ i \in 2 .. Len(ci[t])
    BY <1>1, <1>2
  <2>3. \A t \in Thread : \A i \in 2 .. Len(ci'[t]) :
           /\ ci'[t][i].kind = ci[t][i].kind /\ ci'[t][i - 1].kind = ci[t][i - 1].kind
    BY <1>2, <2>2
  <2>4. ASSUME NEW t \in Thread, NEW i \in 2 .. Len(ci'[t]), ci'[t][i].kind = "c"
        PROVE  /\ st[t] \in {"live", "fresh"} => ci'[t][i - 1].kind = "lua" \/ Active(t, i - 1)'
               /\ st[t] = "yield" => ci'[t][i - 1].kind = "lua"
    <3>1. ci[t][i].kind = "c" /\ i \in 2 .. Len(ci[t]) /\ ci'[t][i - 1].kind = ci[t][i - 1].kind
      BY <2>2, <2>3, <2>4
    <3>2. /\ st[t] \in {"live", "fresh"} => ci[t][i - 1].kind = "lua" \/ Active(t, i - 1)
          /\ st[t] = "yield" => ci[t][i - 1].kind = "lua"
      BY <3>1 DEF ControlInv, Callers
    <3> QED
      BY <2>1, <3>1, <3>2
  <2> QED
    BY <2>4 DEF Callers
<1> QED
  BY <1>4, <1>6, <1>7, <1>8, <1>9 DEF ControlInv
(* The C stack is cut to its first n activations.                          *)
Left(n) == cstack' = SubSeq(cstack, 1, n)

LEMMA Unwound ==
  ASSUME cstack \in Seq(Activation), NEW n \in 0 .. Depth, Left(n)
  PROVE  /\ cstack' \in Seq(Activation) /\ Depth' = n
         /\ cur' = IF n = 0 THEN Main ELSE cstack[n].t
         /\ \A k \in 1 .. n : cstack'[k] = cstack[k]
<1>1. /\ cstack' \in Seq(Activation) /\ Depth' = n
      /\ \A k \in 1 .. n : cstack'[k] = cstack[k]
  BY PrefixOf DEF Left, Depth
<1>2. cur' = IF Depth' = 0 THEN Main ELSE cstack'[Depth'].t
  <2>1. /\ Depth' \in Nat /\ (cstack' = <<>> <=> Depth' = 0)
        /\ Depth' > 0 => Last(cstack') = cstack'[Depth']
    BY <1>1, LastOf DEF Depth
  <2> QED
    BY <2>1 DEF cur
<1> QED
  BY <1>1, <1>2

LEMMA LeftFront ==
  ASSUME cstack \in Seq(Activation), cstack # <<>>, cstack' = Front(cstack)
  PROVE  Depth \in 1 .. Depth /\ Left(Depth - 1)
  BY DEF Left, Front, Depth

(* No other thread runs above an activation but through resume and         *)
(* coroutine.call.                                                         *)
LEMMA SameThread ==
  ASSUME Typed, Ordering, NEW k \in 1 .. Depth,
         \A m \in k + 1 .. Depth : cstack[m].how \notin Switch
  PROVE  \A j \in k .. Depth : cstack[j].t = cur
<1>1. cstack \in Seq(Activation) /\ Depth \in Nat
  BY ControlTyped DEF Typed
<1>2. cur = cstack[Depth].t /\ Depth \in 1 .. Depth
  BY <1>1, CurIs
<1> SUFFICES ASSUME NEW j \in k .. Depth PROVE cstack[j].t = cur
  OBVIOUS
<1>3. j = Depth \/ (j < Depth /\ j \in 1 .. Depth)
  BY <1>1
<1>4. \A m \in j + 1 .. Depth : cstack[m].how \notin Switch
  BY <1>1
<1> QED
  BY <1>2, <1>3, <1>4 DEF Ordering

(* The C stack loses activation k and those above, and their thread the    *)
(* frames above k.                                                         *)
LEMMA UnwindControl ==
  ASSUME Typed, ControlInv, ctl \in {"run", "rethrow"}, ctl' \in {"run", "rethrow"}, st' = st,
         NEW k \in 1 .. Depth, Left(k - 1),
         \A m \in k + 1 .. Depth : cstack[m].how \notin Switch,
         Cut(ci[cur], ci'[cur], cstack[k].at),
         \A t \in Thread : t # cur => SameShape(ci[t], ci'[t])
  PROVE  ControlInv'
<1>1. /\ \A j \in 1 .. Depth : cstack[j].t \in Thread /\ cstack[j].at \in Nat
      /\ \A t \in Thread : Len(ci[t]) \in Nat /\ Len(ci[t]) >= 1
      /\ cur \in Thread /\ Depth \in Nat /\ k \in Nat /\ k <= Depth /\ k >= 1
  BY ControlTyped, NowTyped
<1>2. /\ Depth' = k - 1 /\ \A j \in 1 .. k - 1 : cstack'[j] = cstack[j] /\ j \in 1 .. Depth
      /\ cur' = Below(k)
  <2>1. k - 1 \in 0 .. Depth /\ cstack \in Seq(Activation)
    BY <1>1 DEF Typed
  <2> QED
    BY <1>1, <2>1, Unwound DEF Below
<1>3. /\ \A j \in 1 .. Depth : st[cstack[j].t] \in {"live", "fresh"}
      /\ \A j \in 1 .. Depth : cstack[j].at < Len(ci[cstack[j].t]) /\ cstack[j].at >= 1
      /\ st[cur] \in {"live", "fresh"}
  BY CurAwake DEF ControlInv, Linking
<1>4. /\ \A j \in k .. Depth : cstack[j].t = cur
      /\ \A j \in k .. Depth : cstack[j].at >= cstack[k].at
      /\ \A j \in 1 .. k - 1 : cstack[j].t = cur => cstack[j].at < cstack[k].at
  <2>1. \A j \in k .. Depth : cstack[j].t = cur
    BY SameThread DEF ControlInv
  <2>2. ASSUME NEW j \in k .. Depth PROVE cstack[j].at >= cstack[k].at
    <3>1. j = k \/ (k < j /\ j \in 1 .. Depth)
      BY <1>1
    <3> QED
      BY <1>1, <2>1, <3>1 DEF ControlInv, Ordering
  <2>3. ASSUME NEW j \in 1 .. k - 1, cstack[j].t = cur PROVE cstack[j].at < cstack[k].at
    <3>1. j < k /\ j \in 1 .. Depth /\ cstack[k].t = cur
      BY <1>1, <2>1
    <3> QED
      BY <2>3, <3>1 DEF ControlInv, Ordering
  <2> QED
    BY <2>1, <2>2, <2>3
<1>5. \A t \in Thread : /\ \A i \in 1 .. Len(ci'[t]) : ci'[t][i].kind = ci[t][i].kind
                        /\ ci'[t][1].fn = ci[t][1].fn
                        /\ Len(ci'[t]) = IF t = cur THEN cstack[k].at ELSE Len(ci[t])
                        /\ Len(ci'[t]) \in 1 .. Len(ci[t])
  <2>1. cstack[k].t = cur /\ cstack[k].at \in 1 .. Len(ci[cur])
    BY <1>1, <1>3, <1>4
  <2> SUFFICES ASSUME NEW t \in Thread
               PROVE  /\ \A i \in 1 .. Len(ci'[t]) : ci'[t][i].kind = ci[t][i].kind
                      /\ ci'[t][1].fn = ci[t][1].fn
                      /\ Len(ci'[t]) = IF t = cur THEN cstack[k].at ELSE Len(ci[t])
                      /\ Len(ci'[t]) \in 1 .. Len(ci[t])
    OBVIOUS
  <2>2. CASE t = cur
    BY <2>1, <2>2 DEF Cut
  <2>3. CASE t # cur
    <3>1. SameShape(ci[t], ci'[t])
      BY <2>3
    <3> QED
      BY <1>1, <2>3, <3>1 DEF SameShape
  <2> QED
    BY <2>2, <2>3
<1>6. Linking'
  <2> SUFFICES ASSUME NEW j \in 1 .. k - 1
               PROVE  /\ cstack'[j].at >= 1
                      /\ cstack'[j].from = Below(j)'
                      /\ cstack'[j].how \notin Switch => cstack'[j].t = cstack'[j].from
                      /\ cstack'[j].how = "resume" =>
                           cstack'[j].at = 1 /\ cstack'[j].t \notin {cstack'[j].from, Main}
                      /\ cstack'[j].how # "hook" => cstack'[j].fix = NULL
    BY <1>2 DEF Linking
  <2>1. Below(j)' = Below(j)
    <3>1. j = 1 \/ j - 1 \in 1 .. k - 1
      BY <1>1
    <3> QED
      BY <1>2, <3>1 DEF Below
  <2> QED
    BY <1>2, <2>1 DEF ControlInv, Linking
<1>7. Ordering'
  <2> SUFFICES ASSUME NEW j \in 1 .. k - 1, NEW l \in 1 .. k - 1, j < l
               PROVE  /\ (\A m \in j + 1 .. l : cstack'[m].how \notin Switch)
                              => cstack'[j].t = cstack'[l].t
                      /\ cstack'[j].t = cstack'[l].t => cstack'[j].at < cstack'[l].at
    BY <1>2 DEF Ordering
  <2>1. \A m \in j + 1 .. l : m \in 1 .. k - 1
    BY <1>1
  <2> QED
    BY <1>2, <2>1 DEF ControlInv, Ordering
<1>8. Heights'
  <2> SUFFICES ASSUME NEW j \in 1 .. k - 1
               PROVE  /\ cstack[j].at < Len(ci'[cstack[j].t])
                      /\ cstack[j].how = "hook" => ci'[cstack[j].t][cstack[j].at].kind = "lua"
                      /\ cstack[j].how = "resume" => ci'[cstack[j].t][2].kind = "lua"
    BY <1>2 DEF Heights
  <2>1. /\ cstack[j].at >= 1 /\ cstack[j].t \in Thread /\ cstack[j].at \in Nat
        /\ j \in 1 .. Depth /\ j \notin k .. Depth /\ cstack[j].at < Len(ci[cstack[j].t])
    BY <1>1, <1>2, <1>3
  <2>2. /\ cstack[j].how = "hook" => ci[cstack[j].t][cstack[j].at].kind = "lua"
        /\ cstack[j].how = "resume" => ci[cstack[j].t][2].kind = "lua"
    BY <2>1 DEF ControlInv, Heights
  <2>3. cstack[j].at < Len(ci'[cstack[j].t])
    <3>1. CASE cstack[j].t = cur
      BY <1>4, <1>5, <2>1, <3>1
    <3>2. CASE cstack[j].t # cur
      BY <1>5, <2>1, <3>2
    <3> QED
      BY <3>1, <3>2
  <2>4. Len(ci'[cstack[j].t]) \in Nat
    BY <1>5, <2>1
  <2>5. cstack[j].at \in 1 .. Len(ci'[cstack[j].t]) /\ 2 \in 1 .. Len(ci'[cstack[j].t])
    BY <2>1, <2>3, <2>4
  <2>6. /\ ci'[cstack[j].t][cstack[j].at].kind = ci[cstack[j].t][cstack[j].at].kind
        /\ ci'[cstack[j].t][2].kind = ci[cstack[j].t][2].kind
    BY <1>5, <2>1, <2>5
  <2> QED
    BY <2>2, <2>3, <2>6
<1>9. Statuses'
  <2>1. \A j \in 1 .. k - 1 : st[cstack'[j].t] \in {"live", "fresh"}
    BY <1>2, <1>3
  <2>2. \A t \in Thread : st[t] = "fresh" => ci'[t][1].fn \in Closure
    BY <1>5 DEF ControlInv, Statuses
  <2> QED
    BY <1>2, <2>1, <2>2 DEF ControlInv, Statuses
<1>10. Suspended'
  <2>1. \A t \in Thread : st[t] = "yield" => t # cur /\ Len(ci'[t]) = Len(ci[t]) /\ Len(ci[t]) \in 1 .. Len(ci'[t])
    BY <1>1, <1>3, <1>5
  <2> QED
    BY <1>5, <2>1 DEF ControlInv, Suspended
<1>11. Callers'
  <2> SUFFICES ASSUME NEW t \in Thread, NEW i \in 2 .. Len(ci'[t]), ci'[t][i].kind = "c"
               PROVE  /\ st[t] \in {"live", "fresh"} => ci'[t][i - 1].kind = "lua" \/ Active(t, i - 1)'
                      /\ st[t] = "yield" => ci'[t][i - 1].kind = "lua"
    BY DEF Callers
  <2>1. /\ i \in 1 .. Len(ci'[t]) /\ i - 1 \in 1 .. Len(ci'[t]) /\ i \in 2 .. Len(ci[t])
        /\ i \in Nat /\ i <= Len(ci'[t]) /\ Len(ci'[t]) \in Nat
    BY <1>1, <1>5
  <2>2. ci'[t][i].kind = ci[t][i].kind /\ ci'[t][i - 1].kind = ci[t][i - 1].kind
    BY <1>5, <2>1
  <2>3. Active(t, i - 1) => Active(t, i - 1)'
    <3> SUFFICES ASSUME NEW j \in 1 .. Depth, cstack[j].t = t, cstack[j].at = i - 1
                 PROVE  Active(t, i - 1)'
      BY DEF Active
    <3>1. j \in 1 .. k - 1
      <4>1. CASE j \in k .. Depth
        <5>1. t = cur /\ cstack[j].at >= cstack[k].at /\ Len(ci'[t]) = cstack[k].at
          BY <1>4, <1>5, <4>1
        <5> QED
          BY <1>1, <2>1, <5>1
      <4> QED
        BY <1>1, <4>1
    <3> QED
      BY <1>2, <3>1 DEF Active
  <2> QED
    BY <2>1, <2>2, <2>3 DEF ControlInv, Callers
<1> QED
  BY <1>6, <1>7, <1>8, <1>9, <1>10, <1>11 DEF ControlInv
(* An error reaches lua_resume, which leaves the frames as they are.       *)
LEMMA FailedControl ==
  ASSUME Typed, ControlInv, ctl \in {"run", "rethrow"}, ctl' = "failed", st' = st,
         NEW k \in 1 .. Depth, Left(k), cstack[k].how = "resume",
         \A m \in k + 1 .. Depth : cstack[m].how \notin Switch,
         \A t \in Thread : SameShape(ci[t], ci'[t])
  PROVE  ControlInv'
<1>1. /\ \A j \in 1 .. Depth : cstack[j].t \in Thread /\ cstack[j].at \in Nat
      /\ \A t \in Thread : Len(ci[t]) \in Nat /\ Len(ci[t]) >= 1
      /\ cur \in Thread /\ Depth \in Nat /\ k \in Nat /\ k <= Depth /\ k >= 1
  BY ControlTyped, NowTyped
<1>2. /\ Depth' = k /\ \A j \in 1 .. k : cstack'[j] = cstack[j] /\ j \in 1 .. Depth
      /\ cur' = cur /\ \A j \in k .. Depth : cstack[j].t = cur
  <2>1. k \in 0 .. Depth /\ cstack \in Seq(Activation) /\ k \in k .. Depth
    BY <1>1 DEF Typed
  <2>2. \A j \in k .. Depth : cstack[j].t = cur
    BY SameThread DEF ControlInv
  <2> QED
    BY <1>1, <2>1, <2>2, Unwound
<1>3. /\ \A j \in 1 .. Depth : st[cstack[j].t] \in {"live", "fresh"}
      /\ \A j \in 1 .. Depth : cstack[j].at < Len(ci[cstack[j].t]) /\ cstack[j].at >= 1
      /\ st[cur] \in {"live", "fresh"}
  BY CurAwake DEF ControlInv, Linking
<1>4. \A t \in Thread : /\ \A i \in 1 .. Len(ci[t]) : ci'[t][i].kind = ci[t][i].kind
                        /\ ci'[t][1].fn = ci[t][1].fn
                        /\ Len(ci'[t]) = Len(ci[t])
  BY DEF SameShape
<1>5. Linking'
  <2> SUFFICES ASSUME NEW j \in 1 .. k
               PROVE  /\ cstack'[j].at >= 1
                      /\ cstack'[j].from = Below(j)'
                      /\ cstack'[j].how \notin Switch => cstack'[j].t = cstack'[j].from
                      /\ cstack'[j].how = "resume" =>
                           cstack'[j].at = 1 /\ cstack'[j].t \notin {cstack'[j].from, Main}
                      /\ cstack'[j].how # "hook" => cstack'[j].fix = NULL
    BY <1>2 DEF Linking
  <2>1. Below(j)' = Below(j)
    <3>1. j = 1 \/ j - 1 \in 1 .. k
      BY <1>1
    <3> QED
      BY <1>2, <3>1 DEF Below
  <2> QED
    BY <1>2, <2>1 DEF ControlInv, Linking
<1>6. Ordering'
  <2> SUFFICES ASSUME NEW j \in 1 .. k, NEW l \in 1 .. k, j < l
               PROVE  /\ (\A m \in j + 1 .. l : cstack'[m].how \notin Switch)
                              => cstack'[j].t = cstack'[l].t
                      /\ cstack'[j].t = cstack'[l].t => cstack'[j].at < cstack'[l].at
    BY <1>2 DEF Ordering
  <2>1. \A m \in j + 1 .. l : m \in 1 .. k
    BY <1>1
  <2> QED
    BY <1>2, <2>1 DEF ControlInv, Ordering
<1>7. Heights'
  <2> SUFFICES ASSUME NEW j \in 1 .. k
               PROVE  /\ cstack[j].at < Len(ci'[cstack[j].t])
                      /\ cstack[j].how = "hook" => ci'[cstack[j].t][cstack[j].at].kind = "lua"
                      /\ cstack[j].how = "resume" => ci'[cstack[j].t][2].kind = "lua"
    BY <1>2 DEF Heights
  <2>1. /\ cstack[j].at >= 1 /\ cstack[j].t \in Thread /\ cstack[j].at \in Nat
        /\ j \in 1 .. Depth /\ cstack[j].at < Len(ci[cstack[j].t]) /\ Len(ci[cstack[j].t]) \in Nat
    BY <1>1, <1>2, <1>3
  <2>2. /\ cstack[j].how = "hook" => ci[cstack[j].t][cstack[j].at].kind = "lua"
        /\ cstack[j].how = "resume" => ci[cstack[j].t][2].kind = "lua"
    BY <1>3, <2>1 DEF ControlInv, Heights
  <2>3. cstack[j].at \in 1 .. Len(ci[cstack[j].t]) /\ 2 \in 1 .. Len(ci[cstack[j].t])
    BY <2>1
  <2> QED
    BY <1>4, <2>1, <2>2, <2>3
<1>8. Statuses'
  <2>1. \A j \in 1 .. k : st[cstack'[j].t] \in {"live", "fresh"}
    BY <1>2, <1>3
  <2>2. \A t \in Thread : st[t] = "fresh" => ci'[t][1].fn \in Closure
    BY <1>4 DEF ControlInv, Statuses
  <2>3. k > 0 /\ cstack'[k].how = "resume"
    BY <1>1, <1>2
  <2> QED
    BY <1>2, <2>1, <2>2, <2>3 DEF ControlInv, Statuses
<1>9. Suspended'
  <2>1. \A t \in Thread : Len(ci[t]) \in 1 .. Len(ci[t])
    BY <1>1
  <2> QED
    BY <1>4, <2>1 DEF ControlInv, Suspended
<1>10. Callers'
  <2> SUFFICES ASSUME NEW t \in Thread, NEW i \in 2 .. Len(ci[t]), ci'[t][i].kind = "c", t # cur
               PROVE  /\ st[t] \in {"live", "fresh"} => ci'[t][i - 1].kind = "lua" \/ Active(t, i - 1)'
                      /\ st[t] = "yield" => ci'[t][i - 1].kind = "lua"
    BY <1>2, <1>3, <1>4 DEF Callers
  <2>1. i \in 1 .. Len(ci[t]) /\ i - 1 \in 1 .. Len(ci[t])
    BY <1>1
  <2>2. ci'[t][i].kind = ci[t][i].kind /\ ci'[t][i - 1].kind = ci[t][i - 1].kind
    BY <1>4, <2>1
  <2>3. Active(t, i - 1) => Active(t, i - 1)'
    <3> SUFFICES ASSUME NEW j \in 1 .. Depth, cstack[j].t = t, cstack[j].at = i - 1
                 PROVE  Active(t, i - 1)'
      BY DEF Active
    <3>1. j \in 1 .. k
      BY <1>1, <1>2
    <3> QED
      BY <1>2, <3>1 DEF Active
  <2> QED
    BY <2>1, <2>2, <2>3 DEF ControlInv, Callers
<1> QED
  BY <1>5, <1>6, <1>7, <1>8, <1>9, <1>10 DEF ControlInv

(* The activation of lua_resume is the only one on its thread.             *)
LEMMA SoleActivation ==
  ASSUME Typed, ControlInv, Depth > 0, cstack[Depth].how = "resume"
  PROVE  /\ cstack[Depth].t = cur /\ Depth \in 1 .. Depth /\ cur # Main /\ cur # Below(Depth)
         /\ cstack[Depth].at = 1 /\ cstack[Depth].from = Below(Depth)
         /\ \A k \in 1 .. Depth : k # Depth => cstack[k].t # cur
<1>1. cstack \in Seq(Activation) /\ Depth \in Nat /\ \A k \in 1 .. Depth : cstack[k].at \in Nat
  BY ControlTyped DEF Typed
<1>2. Depth \in 1 .. Depth /\ cstack[Depth].t = cur
  BY <1>1, CurIs
<1>3. cstack[Depth].at = 1 /\ cur \notin {Main, Below(Depth)} /\ cstack[Depth].from = Below(Depth)
  BY <1>2 DEF ControlInv, Linking
<1>4. ASSUME NEW k \in 1 .. Depth, k # Depth, cstack[k].t = cur PROVE FALSE
  <2>1. k < Depth /\ cstack[k].at >= 1
    BY <1>1, <1>4 DEF ControlInv, Linking
  <2>2. cstack[k].at < cstack[Depth].at
    BY <1>2, <1>4, <2>1 DEF ControlInv, Ordering
  <2> QED
    BY <1>1, <1>3, <2>1, <2>2
<1> QED
  BY <1>2, <1>3, <1>4
LEMMA YieldControl ==
  ASSUME Typed, ControlInv, ctl = "run", ctl' = "yielded", UNCHANGED <<ci, cstack>>,
         top.kind = "c", Depth > 0, cstack[Depth].how = "resume",
         st' = [st EXCEPT ![cur] = "yield"]
  PROVE  ControlInv'
<1>1. /\ \A j \in 1 .. Depth : cstack[j].t \in Thread /\ cstack[j].at \in Nat
      /\ \A t \in Thread : Len(ci[t]) \in Nat /\ Len(ci[t]) >= 1
      /\ cur \in Thread /\ Depth \in Nat /\ Depth' = Depth /\ cur' = cur
      /\ top = ci[cur][Len(ci[cur])]
      /\ st \in [Thread -> Status]
  BY ControlTyped, NowTyped DEF Depth, cur, Typed
<1>2. /\ cstack[Depth].t = cur /\ Depth \in 1 .. Depth /\ cur # Main /\ cstack[Depth].at = 1
      /\ \A k \in 1 .. Depth : k # Depth => cstack[k].t # cur
  BY SoleActivation
<1>3. /\ \A k \in 1 .. Depth : st[cstack[k].t] \in {"live", "fresh"}
      /\ st[cur] \in {"live", "fresh"}
      /\ \A k \in 1 .. Depth : cstack[k].at < Len(ci[cstack[k].t])
  BY CurAwake
<1>4. st'[cur] = "yield" /\ \A t \in Thread : t # cur => st'[t] = st[t]
  BY <1>1
<1>5. Linking'
  BY <1>1 DEF ControlInv, Linking, Below
<1>6. Ordering'
  BY <1>1 DEF ControlInv, Ordering
<1>7. Heights'
  BY <1>1, <1>3 DEF ControlInv, Heights
<1>8. Statuses'
  <2>1. \A k \in 1 .. Depth : st'[cstack[k].t] \in {"live", "fresh"} \/ k = Depth
    BY <1>1, <1>2, <1>3, <1>4
  <2>2. \A t \in Thread : st'[t] = "fresh" => ci[t][1].fn \in Closure
    BY <1>4 DEF ControlInv, Statuses
  <2> QED
    BY <1>1, <1>2, <1>4, <2>1, <2>2, ThreadAssumption DEF ControlInv, Statuses
<1>9. Suspended'
  BY <1>1, <1>4 DEF ControlInv, Suspended
<1>10. Callers'
  <2> SUFFICES ASSUME NEW t \in Thread, NEW i \in 2 .. Len(ci[t]), ci[t][i].kind = "c"
               PROVE  /\ st'[t] \in {"live", "fresh"} => ci[t][i - 1].kind = "lua" \/ Active(t, i - 1)
                      /\ st'[t] = "yield" => ci[t][i - 1].kind = "lua"
    BY <1>1 DEF Callers, Active
  <2>1. CASE t # cur
    BY <1>4, <2>1 DEF ControlInv, Callers
  <2>2. CASE t = cur
    <3>1. ci[t][i - 1].kind = "lua" \/ Active(t, i - 1)
      BY <1>3, <2>2 DEF ControlInv, Callers
    <3>2. ASSUME Active(t, i - 1) PROVE FALSE
      <4>1. i - 1 = 1
        BY <1>2, <2>2, <3>2 DEF Active
      <4>2. ci[cur][2].kind = "lua"
        BY <1>2 DEF ControlInv, Heights
      <4> QED
        BY <2>2, <4>1, <4>2
    <3> QED
      BY <1>4, <2>2, <3>1, <3>2
  <2> QED
    BY <2>1, <2>2
<1> QED
  BY <1>5, <1>6, <1>7, <1>8, <1>9, <1>10 DEF ControlInv

LEMMA CoReturnControl ==
  ASSUME Typed, ControlInv, ctl = "run", ctl' = "returned", UNCHANGED cstack,
         Depth > 0, cstack[Depth].how = "resume",
         \A t \in Thread : t # cur => ci'[t] = ci[t],
         Cut(ci[cur], ci'[cur], 1),
         st' = [st EXCEPT ![cur] = "dead"]
  PROVE  ControlInv'
<1>1. /\ \A j \in 1 .. Depth : cstack[j].t \in Thread /\ cstack[j].at \in Nat
      /\ \A t \in Thread : Len(ci[t]) \in Nat /\ Len(ci[t]) >= 1
      /\ cur \in Thread /\ Depth \in Nat /\ Depth' = Depth /\ cur' = cur
      /\ st \in [Thread -> Status]
  BY ControlTyped, NowTyped DEF Depth, cur, Typed
<1>2. /\ cstack[Depth].t = cur /\ Depth \in 1 .. Depth /\ cur # Main
      /\ \A k \in 1 .. Depth : k # Depth => cstack[k].t # cur
  BY SoleActivation
<1>3. /\ \A k \in 1 .. Depth : st[cstack[k].t] \in {"live", "fresh"}
      /\ \A k \in 1 .. Depth : cstack[k].at < Len(ci[cstack[k].t])
  BY CurAwake
<1>4. st'[cur] = "dead" /\ \A t \in Thread : t # cur => st'[t] = st[t]
  BY <1>1
<1>5. Linking'
  BY <1>1 DEF ControlInv, Linking, Below
<1>6. Ordering'
  BY <1>1 DEF ControlInv, Ordering
<1>7. Heights'
  BY <1>1, <1>2, <1>3 DEF ControlInv, Heights
<1>8. Statuses'
  <2>1. \A k \in 1 .. Depth : st'[cstack[k].t] \in {"live", "fresh"} \/ k = Depth
    BY <1>1, <1>2, <1>3, <1>4
  <2>2. \A t \in Thread : st'[t] = "fresh" => ci'[t][1].fn \in Closure
    BY <1>4 DEF ControlInv, Statuses
  <2> QED
    BY <1>1, <1>2, <1>4, <2>1, <2>2, ThreadAssumption DEF ControlInv, Statuses
<1>9. Suspended'
  BY <1>1, <1>4 DEF ControlInv, Suspended
<1>10. Callers'
  <2> SUFFICES ASSUME NEW t \in Thread, NEW i \in 2 .. Len(ci'[t]), ci'[t][i].kind = "c"
               PROVE  /\ st'[t] \in {"live", "fresh"} => ci'[t][i - 1].kind = "lua" \/ Active(t, i - 1)'
                      /\ st'[t] = "yield" => ci'[t][i - 1].kind = "lua"
    BY DEF Callers
  <2>1. CASE t = cur
    BY <1>4, <2>1
  <2>2. CASE t # cur
    <3>1. ci'[t] = ci[t] /\ st'[t] = st[t] /\ Active(t, i - 1)' = Active(t, i - 1)
      BY <1>1, <1>4, <2>2 DEF Active
    <3>2. i \in 2 .. Len(ci[t]) /\ ci[t][i].kind = "c"
      BY <3>1
    <3> QED
      BY <2>2, <3>1, <3>2 DEF ControlInv, Callers
  <2> QED
    BY <2>1, <2>2
<1> QED
  BY <1>5, <1>6, <1>7, <1>8, <1>9, <1>10 DEF ControlInv
LEMMA FinishControl ==
  ASSUME Typed, ControlInv, ctl \in {"returned", "yielded", "failed"}, ctl' = "run",
         Left(Depth - 1),
         st' = IF ctl = "failed" THEN [st EXCEPT ![cur] = "dead"] ELSE st,
         \A t \in Thread : SameShape(ci[t], ci'[t])
  PROVE  ControlInv'
<1>0. Depth > 0 /\ cstack[Depth].how = "resume"
  BY DEF ControlInv, Statuses
<1>1. /\ \A j \in 1 .. Depth : cstack[j].t \in Thread /\ cstack[j].at \in Nat
      /\ \A t \in Thread : Len(ci[t]) \in Nat /\ Len(ci[t]) >= 1 /\ Len(ci[t]) \in 1 .. Len(ci[t])
      /\ cur \in Thread /\ Depth \in Nat
      /\ st \in [Thread -> Status]
  BY ControlTyped, NowTyped DEF Typed
<1>2. /\ cstack[Depth].t = cur /\ Depth \in 1 .. Depth /\ cur # Main
      /\ cstack[Depth].at = 1
      /\ \A k \in 1 .. Depth : k # Depth => cstack[k].t # cur
  BY <1>0, SoleActivation
<1>3. /\ Depth' = Depth - 1
      /\ \A j \in 1 .. Depth - 1 : cstack'[j] = cstack[j] /\ j \in 1 .. Depth /\ j # Depth
  <2>1. Depth - 1 \in 0 .. Depth /\ cstack \in Seq(Activation)
    BY <1>1, <1>2 DEF Typed
  <2> QED
    BY <1>1, <2>1, Unwound
<1>4. \A t \in Thread : /\ \A i \in 1 .. Len(ci[t]) : ci'[t][i].kind = ci[t][i].kind
                        /\ ci'[t][1].fn = ci[t][1].fn
                        /\ Len(ci'[t]) = Len(ci[t])
  BY DEF SameShape
<1>5. /\ \A t \in Thread : t # cur => st'[t] = st[t]
      /\ st'[cur] \notin {"live", "fresh"}
      /\ st'[cur] = "yield" => st[cur] = "yield"
  <2>1. ctl # "failed" => st[cur] \in {"dead", "yield"} /\ st' = st
    BY DEF ControlInv, Statuses
  <2>2. ctl = "failed" => st'[cur] = "dead" /\ \A t \in Thread : t # cur => st'[t] = st[t]
    BY <1>1
  <2> QED
    BY <2>1, <2>2
<1>6. Linking'
  <2> SUFFICES ASSUME NEW j \in 1 .. Depth - 1
               PROVE  /\ cstack'[j].at >= 1
                      /\ cstack'[j].from = Below(j)'
                      /\ cstack'[j].how \notin Switch => cstack'[j].t = cstack'[j].from
                      /\ cstack'[j].how = "resume" =>
                           cstack'[j].at = 1 /\ cstack'[j].t \notin {cstack'[j].from, Main}
                      /\ cstack'[j].how # "hook" => cstack'[j].fix = NULL
    BY <1>3 DEF Linking
  <2>1. Below(j)' = Below(j)
    <3>1. j = 1 \/ j - 1 \in 1 .. Depth - 1
      BY <1>1
    <3> QED
      BY <1>3, <3>1 DEF Below
  <2> QED
    BY <1>3, <2>1 DEF ControlInv, Linking
<1>7. Ordering'
  <2> SUFFICES ASSUME NEW j \in 1 .. Depth - 1, NEW l \in 1 .. Depth - 1, j < l
               PROVE  /\ (\A m \in j + 1 .. l : cstack'[m].how \notin Switch)
                              => cstack'[j].t = cstack'[l].t
                      /\ cstack'[j].t = cstack'[l].t => cstack'[j].at < cstack'[l].at
    BY <1>3 DEF Ordering
  <2>1. \A m \in j + 1 .. l : m \in 1 .. Depth - 1
    BY <1>1
  <2> QED
    BY <1>3, <2>1 DEF ControlInv, Ordering
<1>8. Heights'
  <2> SUFFICES ASSUME NEW j \in 1 .. Depth - 1
               PROVE  /\ cstack[j].at < Len(ci'[cstack[j].t])
                      /\ cstack[j].how = "hook" => ci'[cstack[j].t][cstack[j].at].kind = "lua"
                      /\ cstack[j].how = "resume" => ci'[cstack[j].t][2].kind = "lua"
    BY <1>3 DEF Heights
  <2>1. /\ cstack[j].at >= 1 /\ cstack[j].t \in Thread /\ cstack[j].at \in Nat
        /\ cstack[j].at < Len(ci[cstack[j].t]) /\ Len(ci[cstack[j].t]) \in Nat
        /\ cstack[j].how = "hook" => ci[cstack[j].t][cstack[j].at].kind = "lua"
        /\ cstack[j].how = "resume" => ci[cstack[j].t][2].kind = "lua"
    BY <1>1, <1>3 DEF ControlInv, Heights, Linking
  <2>2. cstack[j].at \in 1 .. Len(ci[cstack[j].t]) /\ 2 \in 1 .. Len(ci[cstack[j].t])
    BY <2>1
  <2> QED
    BY <1>4, <2>1, <2>2
<1>9. Statuses'
  <2>1. \A j \in 1 .. Depth - 1 : st'[cstack'[j].t] \in {"live", "fresh"}
    BY <1>1, <1>2, <1>3, <1>5 DEF ControlInv, Statuses
  <2>2. \A t \in Thread : st'[t] = "fresh" => ci'[t][1].fn \in Closure
    BY <1>4, <1>5 DEF ControlInv, Statuses
  <2>3. st'[Main] = "live"
    BY <1>2, <1>5, ThreadAssumption DEF ControlInv, Statuses
  <2> QED
    BY <1>3, <2>1, <2>2, <2>3 DEF Statuses
<1>10. Suspended'
  BY <1>1, <1>4, <1>5 DEF ControlInv, Suspended
<1>11. Callers'
  <2> SUFFICES ASSUME NEW t \in Thread, NEW i \in 2 .. Len(ci'[t]), ci'[t][i].kind = "c"
               PROVE  /\ st'[t] \in {"live", "fresh"} => ci'[t][i - 1].kind = "lua" \/ Active(t, i - 1)'
                      /\ st'[t] = "yield" => ci'[t][i - 1].kind = "lua"
    BY DEF Callers
  <2>1. i \in 1 .. Len(ci[t]) /\ i - 1 \in 1 .. Len(ci[t]) /\ i \in 2 .. Len(ci[t])
    BY <1>1, <1>4
  <2>2. ci'[t][i].kind = ci[t][i].kind /\ ci'[t][i - 1].kind = ci[t][i - 1].kind
    BY <1>4, <2>1
  <2>3. st'[t] = "yield" => st[t] = "yield"
    BY <1>5
  <2>4. st'[t] \in {"live", "fresh"} => t # cur /\ st[t] \in {"live", "fresh"}
    BY <1>5
  <2>5. t # cur /\ Active(t, i - 1) => Active(t, i - 1)'
    <3> SUFFICES ASSUME t # cur, NEW j \in 1 .. Depth, cstack[j].t = t, cstack[j].at = i - 1
                 PROVE  Active(t, i - 1)'
      BY DEF Active
    <3>1. j \in 1 .. Depth - 1
      BY <1>1, <1>2
    <3> QED
      BY <1>3, <3>1 DEF Active
  <2> QED
    BY <2>1, <2>2, <2>3, <2>4, <2>5 DEF ControlInv, Callers
<1> QED
  BY <1>6, <1>7, <1>8, <1>9, <1>10, <1>11 DEF ControlInv

LEMMA CreateControl ==
  ASSUME Typed, ControlInv, ctl = "run", UNCHANGED <<cstack, ctl>>,
         NEW co \in Thread, co # Main, st[co] \in {"none", "dead"},
         NEW f \in Closure, ci' = [ci EXCEPT ![co] = <<BaseFrame(f)>>],
         st' = [st EXCEPT ![co] = "fresh"]
  PROVE  ControlInv'
<1>1. /\ \A j \in 1 .. Depth : cstack[j].t \in Thread /\ cstack[j].at \in Nat
      /\ \A t \in Thread : Len(ci[t]) \in Nat /\ Len(ci[t]) >= 1
      /\ cur \in Thread /\ Depth \in Nat /\ Depth' = Depth /\ cur' = cur
      /\ st \in [Thread -> Status] /\ ci \in [Thread -> GoodFrames]
  BY ControlTyped, NowTyped DEF Depth, cur, Typed
<1>2. /\ st'[co] = "fresh" /\ \A t \in Thread : t # co => st'[t] = st[t] /\ ci'[t] = ci[t]
      /\ Len(ci'[co]) = 1 /\ ci'[co][1].fn = f
  BY <1>1 DEF BaseFrame
<1>3. /\ \A k \in 1 .. Depth : st[cstack[k].t] \in {"live", "fresh"} /\ cstack[k].t # co
      /\ \A k \in 1 .. Depth : cstack[k].at < Len(ci[cstack[k].t])
      /\ cur # co
  BY CurAwake
<1>4. Linking'
  BY <1>1 DEF ControlInv, Linking, Below
<1>5. Ordering'
  BY <1>1 DEF ControlInv, Ordering
<1>6. Heights'
  BY <1>1, <1>2, <1>3 DEF ControlInv, Heights
<1>7. Statuses'
  <2>1. \A k \in 1 .. Depth : st'[cstack[k].t] \in {"live", "fresh"}
    BY <1>1, <1>2, <1>3
  <2>2. \A t \in Thread : st'[t] = "fresh" => ci'[t][1].fn \in Closure
    BY <1>2 DEF ControlInv, Statuses
  <2> QED
    BY <1>1, <1>2, <2>1, <2>2, ThreadAssumption DEF ControlInv, Statuses
<1>8. Suspended'
  BY <1>1, <1>2 DEF ControlInv, Suspended
<1>9. Callers'
  <2> SUFFICES ASSUME NEW t \in Thread, NEW i \in 2 .. Len(ci'[t]), ci'[t][i].kind = "c"
               PROVE  /\ st'[t] \in {"live", "fresh"} => ci'[t][i - 1].kind = "lua" \/ Active(t, i - 1)'
                      /\ st'[t] = "yield" => ci'[t][i - 1].kind = "lua"
    BY DEF Callers
  <2>1. t # co
    BY <1>2
  <2>2. ci'[t] = ci[t] /\ st'[t] = st[t] /\ Active(t, i - 1)' = Active(t, i - 1)
    BY <1>1, <1>2, <2>1 DEF Active
  <2>3. i \in 2 .. Len(ci[t]) /\ ci[t][i].kind = "c"
    BY <2>2
  <2> QED
    BY <2>2, <2>3 DEF ControlInv, Callers
<1> QED
  BY <1>4, <1>5, <1>6, <1>7, <1>8, <1>9 DEF ControlInv
(* lua_resume returns from the C function that yielded to its Lua caller.  *)
LEMMA ContinueControl ==
  ASSUME Typed, ControlInv, ctl = "run", ctl' = ctl,
         NEW a \in Activation, Enters(a), a.from = cur, a.at = 1, a.how = "resume",
         a.fix = NULL, st[a.t] = "yield", st' = [st EXCEPT ![a.t] = "live"],
         \A t \in Thread : t # a.t => ci'[t] = ci[t],
         Cut(ci[a.t], ci'[a.t], Len(ci[a.t]) - 1)
  PROVE  ControlInv'
<1>1. /\ \A k \in 1 .. Depth : cstack[k].t \in Thread /\ cstack[k].at \in Nat
      /\ \A t \in Thread : Len(ci[t]) \in Nat /\ Len(ci[t]) >= 1 /\ Len(ci[t]) \in 1 .. Len(ci[t])
      /\ cur \in Thread /\ a.t \in Thread /\ Depth \in Nat
      /\ st \in [Thread -> Status] /\ ci[a.t] \in GoodFrames
  BY ControlTyped, NowTyped DEF Activation, Typed
<1>2. /\ \A k \in 1 .. Depth : st[cstack[k].t] \in {"live", "fresh"} /\ cstack[k].t # a.t
      /\ \A k \in 1 .. Depth : cstack[k].at < Len(ci[cstack[k].t])
      /\ a.t \notin {cur, Main}
  BY CurAwake DEF ControlInv, Statuses
<1>3. /\ Depth' = Depth + 1 /\ cur' = a.t
      /\ \A k \in 1 .. Depth : cstack'[k] = cstack[k]
      /\ cstack'[Depth + 1] = a
      /\ \A k \in 1 .. Depth' : k \in 1 .. Depth \/ k = Depth + 1
  BY <1>1, Appended DEF Typed
<1>4. st'[a.t] = "live" /\ \A t \in Thread : t # a.t => st'[t] = st[t]
  BY <1>1
<1>5. /\ Len(ci'[a.t]) = Len(ci[a.t]) - 1 /\ Len(ci[a.t]) >= 3
      /\ \A i \in 1 .. Len(ci[a.t]) - 1 : ci'[a.t][i].kind = ci[a.t][i].kind
      /\ ci'[a.t][2].kind = "lua"
  <2> DEFINE s == ci[a.t]
  <2>1. s[Len(s)].kind = "c" /\ Len(s) >= 1 /\ Len(s) \in Nat
    BY <1>1 DEF ControlInv, Suspended
  <2>2. \A i \in 1 .. Len(s) : GoodFrame(s, i) /\ s[i] \in Frame
    BY <1>1 DEF GoodFrames
  <2>3. \A i \in 1 .. Len(s) : /\ s[i].kind = "base" <=> i = 1
                               /\ s[i].kind \in {"base", "lua", "c"}
    BY <2>2 DEF GoodFrame, Frame
  <2>4. Len(s) # 1
    BY <2>1, <2>3
  <2>5. \A i \in 2 .. Len(s) : s[i].kind = "c" => s[i - 1].kind = "lua"
    BY <1>1 DEF ControlInv, Callers
  <2>6. s[Len(s) - 1].kind = "lua" /\ Len(s) - 1 \in 1 .. Len(s)
    <3> DEFINE n == Len(s)
    <3>3. n \in Nat /\ n >= 1 /\ n # 1
      BY <2>1, <2>4
    <3> HIDE DEF n
    <3>4. n \in 2 .. n /\ n - 1 \in 1 .. n
      BY <3>3
    <3>1. Len(s) \in 2 .. Len(s) /\ Len(s) - 1 \in 1 .. Len(s)
      BY <3>4 DEF n
    <3>2. s[Len(s)].kind = "c" => s[Len(s) - 1].kind = "lua"
      BY <2>5, <3>1
    <3> QED
      BY <2>1, <3>1, <3>2
  <2>7. Len(s) >= 3
    BY <2>1, <2>3, <2>4, <2>6
  <2>8. 2 \in 2 .. Len(s) /\ 2 \in 1 .. Len(s) /\ 1 \in 1 .. Len(s) /\ 2 \in 1 .. Len(s) - 1
    BY <2>1, <2>7
  <2>9. s[2].kind # "c"
    <3>1. s[2].kind = "c" => s[2 - 1].kind = "lua"
      BY <2>5, <2>8
    <3>2. 2 - 1 = 1 /\ s[1].kind = "base"
      BY <2>3, <2>8
    <3> QED
      BY <3>1, <3>2
  <2>10. s[2].kind = "lua"
    BY <2>3, <2>8, <2>9
  <2> QED
    BY <2>7, <2>8, <2>10 DEF Cut
<1>6. Linking' /\ Ordering'
  BY <1>1, <1>2, EnteredLinks DEF ControlInv, Switch
<1>7. Heights'
  <2>1. \A k \in 1 .. Depth : ci'[cstack[k].t] = ci[cstack[k].t]
    BY <1>1, <1>2
  <2>2. ASSUME NEW k \in 1 .. Depth'
        PROVE  /\ cstack'[k].at < Len(ci'[cstack'[k].t])
               /\ cstack'[k].how = "hook" => ci'[cstack'[k].t][cstack'[k].at].kind = "lua"
               /\ cstack'[k].how = "resume" => ci'[cstack'[k].t][2].kind = "lua"
    <3>1. CASE k \in 1 .. Depth
      BY <1>2, <1>3, <2>1, <3>1 DEF ControlInv, Heights
    <3>2. CASE k = Depth + 1
      BY <1>1, <1>3, <1>5, <3>2
    <3> QED
      BY <1>3, <3>1, <3>2
  <2> QED
    BY <2>2 DEF Heights
<1>8. Statuses'
  <2>1. \A k \in 1 .. Depth' : st'[cstack'[k].t] \in {"live", "fresh"}
    BY <1>1, <1>2, <1>3, <1>4
  <2>2. \A t \in Thread : st'[t] = "fresh" => ci'[t][1].fn \in Closure
    BY <1>4 DEF ControlInv, Statuses
  <2> QED
    BY <1>2, <1>4, <2>1, <2>2, ThreadAssumption DEF ControlInv, Statuses
<1>9. Suspended'
  BY <1>1, <1>4 DEF ControlInv, Suspended
<1>10. Callers'
  <2> SUFFICES ASSUME NEW t \in Thread, NEW i \in 2 .. Len(ci'[t]), ci'[t][i].kind = "c"
               PROVE  /\ st'[t] \in {"live", "fresh"} => ci'[t][i - 1].kind = "lua" \/ Active(t, i - 1)'
                      /\ st'[t] = "yield" => ci'[t][i - 1].kind = "lua"
    BY DEF Callers
  <2>1. Active(t, i - 1) => Active(t, i - 1)'
    <3> SUFFICES ASSUME NEW k \in 1 .. Depth, cstack[k].t = t, cstack[k].at = i - 1
                 PROVE  Active(t, i - 1)'
      BY DEF Active
    <3>1. k \in 1 .. Depth' /\ cstack'[k].t = t /\ cstack'[k].at = i - 1
      BY <1>1, <1>3
    <3> QED
      BY <3>1 DEF Active
  <2>2. CASE t = a.t
    <3>1. i \in 1 .. Len(ci[a.t]) - 1 /\ i - 1 \in 1 .. Len(ci[a.t]) - 1 /\ i \in 2 .. Len(ci[a.t])
      BY <1>1, <1>5, <2>2
    <3>2. ci[a.t][i].kind = "c" /\ ci'[a.t][i - 1].kind = ci[a.t][i - 1].kind
      BY <1>5, <2>2, <3>1
    <3>3. ci[a.t][i - 1].kind = "lua"
      BY <1>1, <3>1, <3>2 DEF ControlInv, Callers
    <3> QED
      BY <2>2, <3>2, <3>3
  <2>3. CASE t # a.t
    BY <1>4, <2>1, <2>3 DEF ControlInv, Callers
  <2> QED
    BY <2>2, <2>3
<1> QED
  BY <1>6, <1>7, <1>8, <1>9, <1>10 DEF ControlInv
-----------------------------------------------------------------------------
(* Part 7: every action.  Its first lemmas say what each operator of the   *)
(* model does to the frames of one thread: their types and their shape.    *)
LEMMA RevaluedShape ==
  ASSUME NEW s \in GoodFrames, NEW v \in Value
  PROVE  WithVal(s, v) \in GoodFrames /\ SameShape(s, WithVal(s, v))
<1> DEFINE r == WithVal(s, v)
           e == [Last(s) EXCEPT !.val = v]
<1>1. /\ r \in GoodFrames /\ Len(r) = Len(s) /\ r[Len(s)] = e
      /\ \A i \in 1 .. Len(s) - 1 : r[i] = s[i]
  BY RevaluedTop
<1>2. e.kind = s[Len(s)].kind /\ e.fn = s[Len(s)].fn /\ Len(s) \in Nat /\ Len(s) >= 1
  BY TopOf DEF Frame
<1> HIDE DEF r, e
<1>3. \A i \in 1 .. Len(s) : r[i].kind = s[i].kind /\ r[i].fn = s[i].fn
  BY <1>1, <1>2
<1> QED
  BY <1>1, <1>2, <1>3 DEF SameShape, r

LEMMA SameShapeReflexive == \A s : SameShape(s, s)
  BY DEF SameShape

LEMMA CutShape ==
  ASSUME NEW s \in GoodFrames, NEW n \in 1 .. Len(s), NEW v \in Value
  PROVE  /\ SubSeq(s, 1, n) \in GoodFrames /\ Cut(s, SubSeq(s, 1, n), n)
         /\ WithVal(SubSeq(s, 1, n), v) \in GoodFrames /\ Cut(s, WithVal(SubSeq(s, 1, n), v), n)
<1> DEFINE q == SubSeq(s, 1, n)
           r == WithVal(q, v)
<1>1. /\ q \in GoodFrames /\ Len(q) = n /\ \A i \in 1 .. n : q[i] = s[i]
  BY PrefixFrames
<1>2. n \in Nat /\ n >= 1 /\ 1 \in 1 .. n
  BY TopOf
<1> HIDE DEF q
<1>3. r \in GoodFrames /\ SameShape(q, r)
  BY <1>1, RevaluedShape
<1> HIDE DEF r
<1>4. Cut(s, q, n) /\ Cut(s, r, n)
  BY <1>1, <1>2, <1>3 DEF Cut, SameShape
<1> QED
  BY <1>1, <1>3, <1>4 DEF q, r

LEMMA CalledShape ==
  ASSUME clo \in [Closure -> TaintOrNull],
         NEW s \in GoodFrames, NEW x \in ThreadTaint, NEW f \in Callee, NEW v \in Value
  PROVE  /\ Called(s, x, f, v) \in GoodFrames /\ OneMore(s, Called(s, x, f, v))
         /\ Last(Called(s, x, f, v)).kind = IF f = NULL THEN "c" ELSE "lua"
<1>1. Called(s, x, f, v) \in GoodFrames /\ OneMore(s, Called(s, x, f, v))
  BY CalledFrames
<1>2. Last(Called(s, x, f, v)) = CallFrame(x, f, v)
  BY CalledFrames
<1> QED
  BY <1>1, <1>2, CallFrameTyped

(* The frames of thread t become r.                                        *)
Framed(t, r) == ci' = [ci EXCEPT ![t] = r]
Tainted(t, x) == ts' = [ts EXCEPT ![t] = x]

LEMMA FramedIs ==
  ASSUME Typed, NEW t \in Thread, NEW r \in GoodFrames, Framed(t, r)
  PROVE  /\ ci' \in [Thread -> GoodFrames] /\ ci'[t] = r
         /\ \A u \in Thread : u # t => ci'[u] = ci[u]
  BY DEF Framed, Typed

LEMMA TaintedIs ==
  ASSUME Typed, NEW t \in Thread, NEW x \in ThreadTaint, Tainted(t, x)
  PROVE  /\ ts' \in [Thread -> ThreadTaint] /\ ts'[t] = x
         /\ \A u \in Thread : u # t => ts'[u] = ts[u]
  BY DEF Tainted, Typed

(* Steps that move values.                                                 *)
LEMMA QuietStep ==
  ASSUME Typed, ControlInv, UNCHANGED <<st, cstack, ctl>>,
         ts' \in [Thread -> ThreadTaint], clo' \in [Closure -> TaintOrNull], heap' \in [Cell -> Value],
         ci' = ci \/ \E v \in Value : Framed(cur, WithVal(ci[cur], v))
  PROVE  Typed' /\ ControlInv'
<1>1. ci' \in [Thread -> GoodFrames] /\ \A t \in Thread : SameShape(ci[t], ci'[t])
  <2>1. CASE ci' = ci
    BY <2>1, SameShapeReflexive DEF Typed
  <2>2. ASSUME NEW v \in Value, Framed(cur, WithVal(ci[cur], v))
        PROVE  ci' \in [Thread -> GoodFrames] /\ \A t \in Thread : SameShape(ci[t], ci'[t])
    <3> DEFINE r == WithVal(ci[cur], v)
    <3>1. r \in GoodFrames /\ SameShape(ci[cur], r) /\ cur \in Thread /\ Framed(cur, r)
      BY <2>2, NowTyped, RevaluedShape
    <3> HIDE DEF r
    <3>2. /\ ci' \in [Thread -> GoodFrames] /\ ci'[cur] = r
          /\ \A u \in Thread : u # cur => ci'[u] = ci[u]
      BY <3>1, FramedIs
    <3> QED
      BY <3>1, <3>2, SameShapeReflexive
  <2> QED
    BY <2>1, <2>2
<1>2. ControlInv'
  BY <1>1, QuietControl
<1> QED
  BY <1>1, <1>2 DEF Typed

LEMMA ReadStep ==
  ASSUME Typed, ControlInv, NEW c \in Cell, Read(c)
  PROVE  Typed' /\ ControlInv'
<1>1. /\ now \in ThreadTaint /\ cur \in Thread /\ heap[c] \in Value
      /\ heap[c].taint \in TaintOrNull /\ Moved(now, heap[c]) \in Value
  BY NowTyped, MovedTyped DEF Typed
<1>2. TaintStack(now, heap[c].taint) \in ThreadTaint /\ Tainted(cur, TaintStack(now, heap[c].taint))
  BY <1>1, TaintStackTyped DEF Read, Tainted
<1>3. ts' \in [Thread -> ThreadTaint]
  BY <1>1, <1>2, TaintedIs
<1>4. Framed(cur, WithVal(ci[cur], Moved(now, heap[c])))
  BY DEF Read, Framed
<1> QED
  BY <1>1, <1>3, <1>4, QuietStep DEF Read, Typed

LEMMA ComputeStep ==
  ASSUME Typed, ControlInv, Compute
  PROVE  Typed' /\ ControlInv'
<1>1. Computed \in Value
  BY NowTyped, ComputedTyped
<1>2. Framed(cur, WithVal(ci[cur], Computed))
  BY DEF Compute, Framed
<1> QED
  BY <1>1, <1>2, QuietStep DEF Compute, Typed

LEMMA StoreStep ==
  ASSUME Typed, ControlInv, NEW c \in Cell, Store(c)
  PROVE  Typed' /\ ControlInv'
<1>1. heap' \in [Cell -> Value]
  BY NowTyped DEF Store, Typed
<1> QED
  BY <1>1, QuietStep DEF Store, Typed

LEMMA NewClosureStep ==
  ASSUME Typed, ControlInv, NEW f \in Closure, NewClosure(f)
  PROVE  Typed' /\ ControlInv'
<1>1. Computed \in Value /\ now \in ThreadTaint
  BY NowTyped, ComputedTyped
<1>2. Framed(cur, WithVal(ci[cur], Computed))
  BY DEF NewClosure, Framed
<1>3. TaintAllocFunction(now) \in TaintOrNull
  BY <1>1 DEF TaintAllocFunction, ThreadTaint
<1>4. clo' \in [Closure -> TaintOrNull]
  BY <1>3 DEF NewClosure, Typed
<1> QED
  BY <1>1, <1>2, <1>4, QuietStep DEF NewClosure, Typed
LEMMA PrecallIs ==
  ASSUME Typed, NEW t \in Thread, NEW x \in ThreadTaint, NEW f \in Callee, NEW v \in Value,
         Precall(t, x, f, v)
  PROVE  /\ ts' \in [Thread -> ThreadTaint] /\ ci' \in [Thread -> GoodFrames]
         /\ Entered(x, f, v) \in ThreadTaint /\ ts'[t] = Entered(x, f, v)
         /\ \A u \in Thread : u # t => ts'[u] = ts[u] /\ ci'[u] = ci[u]
         /\ ci'[t] = Called(ci[t], x, f, v)
         /\ OneMore(ci[t], ci'[t]) /\ Last(ci'[t]).kind = IF f = NULL THEN "c" ELSE "lua"
<1> DEFINE y == Entered(x, f, v)
           r == Called(ci[t], x, f, v)
<1>1. y \in ThreadTaint
  BY EnteredTyped DEF Typed
<1>2. /\ ci[t] \in GoodFrames /\ r \in GoodFrames /\ OneMore(ci[t], r)
      /\ Last(r).kind = IF f = NULL THEN "c" ELSE "lua"
  BY CalledShape DEF Typed
<1>3. Tainted(t, y) /\ Framed(t, r)
  BY DEF Precall, Tainted, Framed
<1> HIDE DEF y, r
<1>4. /\ ts' \in [Thread -> ThreadTaint] /\ ts'[t] = y
      /\ \A u \in Thread : u # t => ts'[u] = ts[u]
  BY <1>1, <1>3, TaintedIs
<1>5. /\ ci' \in [Thread -> GoodFrames] /\ ci'[t] = r
      /\ \A u \in Thread : u # t => ci'[u] = ci[u]
  BY <1>2, <1>3, FramedIs
<1> QED
  BY <1>1, <1>2, <1>4, <1>5 DEF y, r

(* A call by a Lua frame.                                                  *)
LEMMA LuaCallStep ==
  ASSUME Typed, ControlInv, InLua, NEW x \in ThreadTaint, NEW f \in Callee, NEW v \in Value,
         Precall(cur, x, f, v), UNCHANGED <<st, cstack, clo, heap, ctl>>
  PROVE  Typed' /\ ControlInv'
<1>1. cur \in Thread /\ ctl = "run" /\ top.kind = "lua"
  BY NowTyped DEF InLua, Running
<1>2. /\ ts' \in [Thread -> ThreadTaint] /\ ci' \in [Thread -> GoodFrames]
      /\ \A u \in Thread : u # cur => ci'[u] = ci[u]
      /\ OneMore(ci[cur], ci'[cur])
  BY <1>1, PrecallIs
<1>3. ControlInv'
  BY <1>1, <1>2, PushFrame
<1> QED
  BY <1>2, <1>3 DEF Typed

LEMMA SavedByTyped ==
  ASSUME Typed, NEW how
  PROVE  SavedBy(how) \in Context /\ (how \in Barriers => SavedBy(how) = SaveTaint(now))
  BY NowTyped, PreinitTyped, SaveTaintTyped DEF SavedBy

(* A call by C code, on its own thread or on another one.                  *)
LEMMA ActivateOnStep ==
  ASSUME Typed, ControlInv, ctl = "run", NEW t \in Thread,
         NEW x \in ThreadTaint, NEW f \in Callee, NEW v \in Value, Precall(t, x, f, v),
         NEW how \in How, NEW fix \in TaintOrNull,
         Enters([how |-> how, t |-> t, from |-> cur, at |-> Len(ci[t]),
                 saved |-> SavedBy(how), fix |-> fix]),
         how \notin Switch => t = cur,
         how # "hook" => fix = NULL,
         how = "hook" => top.kind = "lua",
         how = "resume" => Len(ci[t]) = 1 /\ t \notin {cur, Main} /\ f # NULL,
         st[t] \in {"live", "fresh"}, st' \in [Thread -> Status], st'[t] \in {st[t], "live"},
         \A u \in Thread : u # t => st'[u] = st[u],
         UNCHANGED <<clo, heap, ctl>>
  PROVE  Typed' /\ ControlInv'
<1> DEFINE a == [how |-> how, t |-> t, from |-> cur, at |-> Len(ci[t]),
                 saved |-> SavedBy(how), fix |-> fix]
<1>1. /\ ts' \in [Thread -> ThreadTaint] /\ ci' \in [Thread -> GoodFrames]
      /\ \A u \in Thread : u # t => ci'[u] = ci[u]
      /\ OneMore(ci[t], ci'[t]) /\ Last(ci'[t]).kind = IF f = NULL THEN "c" ELSE "lua"
  BY PrecallIs
<1>2. cur \in Thread /\ Len(ci[t]) \in Nat /\ SavedBy(how) \in Context
  BY NowTyped, ControlTyped, SavedByTyped
<1>3. /\ a \in Activation /\ Enters(a) /\ a.how = how /\ a.t = t /\ a.from = cur
      /\ a.at = Len(ci[t]) /\ a.fix = fix
  BY <1>2 DEF Activation
<1> HIDE DEF a
<1>4. how = "resume" => ci'[t][2].kind = "lua"
  <2>1. how = "resume" => Len(ci'[t]) = 2
    BY <1>1 DEF OneMore
  <2>2. Last(ci'[t]) = ci'[t][Len(ci'[t])]
    BY <1>1, TopOf
  <2>3. how = "resume" => Last(ci'[t]) = ci'[t][2]
    BY <2>1, <2>2
  <2> QED
    BY <1>1, <2>3
<1>5. ControlInv'
  BY <1>1, <1>3, <1>4, PushActivation
<1>6. cstack' \in Seq(Activation)
  BY <1>3, Appended DEF Typed
<1> QED
  BY <1>1, <1>5, <1>6 DEF Typed

LEMMA ActivateStep ==
  ASSUME Typed, ControlInv, ctl = "run",
         NEW x \in ThreadTaint, NEW f \in Callee, NEW v \in Value, Precall(cur, x, f, v),
         NEW how \in How \ Switch, NEW fix \in TaintOrNull, Activate(how, fix),
         how # "hook" => fix = NULL,
         how = "hook" => top.kind = "lua",
         UNCHANGED <<st, clo, heap, ctl>>
  PROVE  Typed' /\ ControlInv'
<1>1. Enters([how |-> how, t |-> cur, from |-> cur, at |-> Len(ci[cur]),
              saved |-> SavedBy(how), fix |-> fix])
  BY DEF Activate, Enters
<1>2. cur \in Thread /\ st[cur] \in {"live", "fresh"} /\ st \in [Thread -> Status]
  BY NowTyped, CurAwake DEF Typed
<1> QED
  BY <1>1, <1>2, ActivateOnStep DEF Switch
(* What a running frame passes on.                                         *)
LEMMA PassedOn ==
  ASSUME Typed
  PROVE  /\ now \in ThreadTaint /\ top.val \in Value /\ top.val.taint \in TaintOrNull
         /\ Moved(now, top.val) \in Value
         /\ TaintStack(now, top.val.taint) \in ThreadTaint
         /\ TaintStack(Unpin(now), top.val.taint) \in ThreadTaint
         /\ SetStackTaint(now, NULL) \in ThreadTaint
         /\ \A c \in Cell : /\ heap[c] \in Value /\ heap[c].taint \in TaintOrNull
                            /\ TaintStack(now, heap[c].taint) \in ThreadTaint
                            /\ TaintStack(Unpin(now), heap[c].taint) \in ThreadTaint
                            /\ TaintStack(SetStackTaint(now, NULL), heap[c].taint) \in ThreadTaint
         /\ \A x \in ThreadTaint : Moved(x, top.val) \in Value /\ Labelled(x.write) \in Value
         /\ Secure \in Value /\ NULL \in TaintOrNull
         /\ NULL \in Callee /\ Closure \subseteq Callee
<1>1. now \in ThreadTaint /\ top.val \in Value /\ NULL \in TaintOrNull /\ Secure \in Value
  BY NowTyped, SecureTyped
<1>2. Unpin(now) \in ThreadTaint /\ SetStackTaint(now, NULL) \in ThreadTaint
  BY <1>1, UnpinTyped, SetStackTaintTyped
<1>3. top.val.taint \in TaintOrNull /\ Moved(now, top.val) \in Value
  BY <1>1, MovedTyped
<1>4. \A c \in Cell : heap[c] \in Value /\ heap[c].taint \in TaintOrNull
  BY DEF Typed, Value
<1>5. /\ TaintStack(now, top.val.taint) \in ThreadTaint
      /\ TaintStack(Unpin(now), top.val.taint) \in ThreadTaint
  BY <1>1, <1>2, <1>3, TaintStackTyped
<1>6. \A c \in Cell : /\ TaintStack(now, heap[c].taint) \in ThreadTaint
                      /\ TaintStack(Unpin(now), heap[c].taint) \in ThreadTaint
                      /\ TaintStack(SetStackTaint(now, NULL), heap[c].taint) \in ThreadTaint
  BY <1>1, <1>2, <1>4, TaintStackTyped
<1>7. ASSUME NEW x \in ThreadTaint PROVE Moved(x, top.val) \in Value /\ Labelled(x.write) \in Value
  <2>1. x.write \in TaintOrNull
    BY DEF ThreadTaint
  <2> QED
    BY <1>1, <2>1, MovedTyped, LabelledTyped
<1> QED
  BY <1>1, <1>2, <1>3, <1>4, <1>5, <1>6, <1>7 DEF Callee

LEMMA LuaCallsStep ==
  ASSUME Typed, ControlInv, CallC \/ \E f \in Closure : LuaCall(f)
  PROVE  Typed' /\ ControlInv'
<1>1. CASE CallC
  BY <1>1, PassedOn, LuaCallStep DEF CallC
<1>2. ASSUME NEW f \in Closure, LuaCall(f) PROVE Typed' /\ ControlInv'
  BY <1>2, PassedOn, LuaCallStep DEF LuaCall
<1> QED
  BY <1>1, <1>2

LEMMA TailCallStep ==
  ASSUME Typed, ControlInv, NEW f \in Closure, TailCall(f)
  PROVE  Typed' /\ ControlInv'
<1> DEFINE x == TaintStack(now, top.val.taint)
           v == Moved(now, top.val)
           y == Reenter(TaintStack(Unpin(x), v.taint), clo[f])
           e == CallFrame(x, f, v)
           r == WithTop(ci[cur], e)
<1>1. x \in ThreadTaint /\ v \in Value /\ v.taint \in TaintOrNull /\ clo[f] \in TaintOrNull
  BY PassedOn, MovedTyped, NowTyped DEF Typed
<1>2. InLua /\ Tainted(cur, y) /\ Framed(cur, r) /\ UNCHANGED <<st, cstack, clo, heap, ctl>>
  BY DEF TailCall, Tainted, Framed
<1>3. top.kind = "lua" /\ cur \in Thread /\ ci[cur] \in GoodFrames /\ top = Last(ci[cur])
      /\ Len(ci[cur]) \in Nat /\ Len(ci[cur]) >= 2
  <2>1. top.kind = "lua" /\ top = Last(ci[cur])
    BY <1>2 DEF InLua, Running, top
  <2> DEFINE n == Len(ci[cur])
  <2>2. cur \in Thread /\ ci[cur] \in GoodFrames /\ n \in Nat /\ n >= 1 /\ n # 1
    BY <2>1, NowTyped
  <2> HIDE DEF n
  <2>3. n \in Nat /\ n >= 2
    BY <2>2
  <2> QED
    BY <2>1, <2>2, <2>3 DEF n
<1> HIDE DEF x, v
<1>4. y \in ThreadTaint
  <2>1. Unpin(x) \in ThreadTaint
    BY <1>1, UnpinTyped
  <2>2. TaintStack(Unpin(x), v.taint) \in ThreadTaint
    BY <1>1, <2>1, TaintStackTyped
  <2> QED
    BY <1>1, <2>2, ReenterTyped
<1>5. e \in Frame /\ e.kind = "lua" /\ e.fn = f
  BY <1>1, CallFrameTyped, ClosureAssumption DEF Typed, Callee
<1> HIDE DEF y, e
<1>6. /\ r \in GoodFrames /\ Len(r) = Len(ci[cur]) /\ r[Len(ci[cur])] = e
      /\ \A i \in 1 .. Len(ci[cur]) - 1 : r[i] = ci[cur][i]
  BY <1>3, <1>5, ReplacedTop
<1> HIDE DEF r
<1>7. SameShape(ci[cur], r)
  <2>1. ci[cur][Len(ci[cur])].kind = e.kind
    BY <1>3, <1>5, NowTyped
  <2>2. \A i \in 1 .. Len(ci[cur]) : i = Len(ci[cur]) \/ i \in 1 .. Len(ci[cur]) - 1
    BY <1>3
  <2>3. 1 \in 1 .. Len(ci[cur]) - 1
    BY <1>3
  <2> QED
    BY <1>6, <2>1, <2>2, <2>3 DEF SameShape
<1>8. /\ ts' \in [Thread -> ThreadTaint] /\ ci' \in [Thread -> GoodFrames]
      /\ \A t \in Thread : SameShape(ci[t], ci'[t])
  <2>1. ci' \in [Thread -> GoodFrames] /\ ci'[cur] = r /\ \A u \in Thread : u # cur => ci'[u] = ci[u]
    BY <1>2, <1>3, <1>6, FramedIs
  <2>2. ts' \in [Thread -> ThreadTaint]
    BY <1>2, <1>3, <1>4, TaintedIs
  <2> QED
    BY <1>7, <2>1, <2>2, SameShapeReflexive
<1>9. ControlInv'
  BY <1>2, <1>8, QuietControl
<1> QED
  BY <1>2, <1>8, <1>9 DEF Typed

LEMMA CallFromCStep ==
  ASSUME Typed, ControlInv, NEW how \in {"api", "pcall", "secure", "delegate", "peek"},
         NEW x \in ThreadTaint, NEW f \in Callee, NEW v \in Value, CallFromC(how, x, f, v)
  PROVE  Typed' /\ ControlInv'
<1>1. how \in How \ Switch /\ how # "hook" /\ NULL \in TaintOrNull
  BY DEF How, Catchers, Barriers, Rethrowers, Switch, TaintOrNull
<1>2. /\ ctl = "run" /\ Precall(cur, x, f, v) /\ Activate(how, NULL)
      /\ UNCHANGED <<st, clo, heap, ctl>>
  BY DEF CallFromC, InC, Running
<1> QED
  BY <1>1, <1>2, ActivateStep

LEMMA CCallsStep ==
  ASSUME Typed, ControlInv, NEW f \in Callee,
         \/ Call(f) \/ PCall(f) \/ SecureCall(f) \/ DelegateCall(f)
         \/ \E c \in Cell : PeekCall(c, f)
  PROVE  Typed' /\ ControlInv'
<1>1. CASE Call(f) \/ PCall(f) \/ SecureCall(f)
  BY <1>1, PassedOn, CallFromCStep DEF Call, PCall, SecureCall
<1>2. CASE DelegateCall(f)
  BY <1>2, PassedOn, CallFromCStep DEF DelegateCall
<1>3. ASSUME NEW c \in Cell, PeekCall(c, f) PROVE Typed' /\ ControlInv'
  BY <1>3, PassedOn, CallFromCStep DEF PeekCall
<1> QED
  BY <1>1, <1>2, <1>3

LEMMA VMCallsStep ==
  ASSUME Typed, ControlInv, NEW f \in Callee, NEW c \in Cell,
         MetaCall(c, f) \/ Finalize(c, f) \/ CallHook(c, f)
  PROVE  Typed' /\ ControlInv'
<1>0. {"meta", "gc", "hook"} \subseteq How \ Switch
  BY DEF How, Catchers, Barriers, Rethrowers, Switch
<1>1. CASE MetaCall(c, f)
  <2> DEFINE x == TaintStack(now, heap[c].taint)
  <2>1. /\ ctl = "run" /\ Precall(cur, x, f, Moved(x, top.val))
        /\ Activate("meta", NULL) /\ UNCHANGED <<st, clo, heap, ctl>>
    BY <1>1 DEF MetaCall, InLua, Running
  <2> QED
    BY <1>0, <2>1, PassedOn, ActivateStep
<1>2. CASE Finalize(c, f)
  <2> DEFINE x == TaintStack(now, heap[c].taint)
  <2>1. /\ ctl = "run" /\ Precall(cur, x, f, Labelled(x.write))
        /\ Activate("gc", NULL) /\ UNCHANGED <<st, clo, heap, ctl>>
    BY <1>2 DEF Finalize, Running
  <2> QED
    BY <1>0, <2>1, PassedOn, ActivateStep
<1>3. CASE CallHook(c, f)
  <2> DEFINE x == TaintStack(Unpin(now), heap[c].taint)
  <2>1. /\ ctl = "run" /\ Precall(cur, x, f, Labelled(x.write))
        /\ Activate("hook", now.fixed) /\ UNCHANGED <<st, clo, heap, ctl>> /\ top.kind = "lua"
    BY <1>3 DEF CallHook, InLua, Running
  <2>2. now.fixed \in TaintOrNull
    BY PassedOn DEF ThreadTaint
  <2> QED
    BY <1>0, <2>1, <2>2, PassedOn, ActivateStep
<1> QED
  BY <1>1, <1>2, <1>3

LEMMA ResumeFreshStep ==
  ASSUME Typed, ControlInv, NEW co \in Thread, ResumeFresh(co)
  PROVE  Typed' /\ ControlInv'
<1> DEFINE v == Moved(ts[co], top.val)
           x == TaintThread(ts[co], now)
           f == ci[co][1].fn
<1>1. /\ ctl = "run" /\ top.kind = "c" /\ st[co] = "fresh" /\ Len(ci[co]) = 1
      /\ Precall(co, x, f, v)
      /\ ActivateOn("resume", co)
      /\ st' = [st EXCEPT ![co] = "live"]
      /\ UNCHANGED <<clo, heap, ctl>>
  BY DEF ResumeFresh, Running
<1>2. Enters([how |-> "resume", t |-> co, from |-> cur, at |-> Len(ci[co]),
              saved |-> SavedBy("resume"), fix |-> NULL])
  BY <1>1 DEF ActivateOn, Enters
<1>3. v \in Value /\ x \in ThreadTaint
  BY NowTyped, MovedTyped, TaintThreadTyped DEF Typed
<1>4. f \in Closure /\ f \in Callee /\ f # NULL
  BY <1>1, ClosureAssumption DEF ControlInv, Statuses, Callee
<1>5. co \notin {cur, Main}
  <2>1. Len(ci[cur]) # 1
    BY <1>1, NowTyped
  <2> QED
    BY <1>1, <2>1 DEF ControlInv, Statuses
<1>6. /\ st' \in [Thread -> Status] /\ st'[co] = "live"
      /\ \A u \in Thread : u # co => st'[u] = st[u]
  BY <1>1 DEF Typed, Status
<1>7. "resume" \in How /\ NULL \in TaintOrNull /\ "resume" \in Switch
  BY DEF How, Catchers, Switch, TaintOrNull
<1> HIDE DEF v, x, f
<1> QED
  BY <1>1, <1>2, <1>3, <1>4, <1>5, <1>6, <1>7, ActivateOnStep

LEMMA CoCallStep ==
  ASSUME Typed, ControlInv, NEW to \in Thread, NEW f \in Callee, CoCall(to, f)
  PROVE  Typed' /\ ControlInv'
<1> DEFINE x == IF to = cur THEN now ELSE TaintStack(TaintThread(ts[to], now), top.val.taint)
           v == Moved(TaintThread(ts[to], now), top.val)
<1>1. /\ ctl = "run" /\ st[to] \in {"live", "fresh"}
      /\ Precall(to, x, f, v)
      /\ ActivateOn("cocall", to)
      /\ UNCHANGED <<st, clo, heap, ctl>>
  BY DEF CoCall, Running
<1>2. Enters([how |-> "cocall", t |-> to, from |-> cur, at |-> Len(ci[to]),
              saved |-> SavedBy("cocall"), fix |-> NULL])
  BY <1>1 DEF ActivateOn, Enters
<1>3. v \in Value /\ x \in ThreadTaint
  <2>1. TaintThread(ts[to], now) \in ThreadTaint
    BY NowTyped, TaintThreadTyped DEF Typed
  <2> QED
    BY <2>1, PassedOn, MovedTyped, TaintStackTyped
<1>4. "cocall" \in How /\ NULL \in TaintOrNull /\ "cocall" \in Switch
  BY DEF How, Catchers, Switch, TaintOrNull
<1>5. st \in [Thread -> Status]
  BY DEF Typed
<1> HIDE DEF v, x
<1> QED
  BY <1>1, <1>2, <1>3, <1>4, <1>5, ActivateOnStep
-----------------------------------------------------------------------------
(* Returns.                                                                *)
LEMMA ReceivedTyped ==
  ASSUME Typed, NEW frame \in Frame, NEW wanted \in BOOLEAN
  PROVE  /\ ReceivedBy(frame, wanted) \in Frame
         /\ \A g \in {"kind", "fn", "sav", "ent"} : ReceivedBy(frame, wanted)[g] = frame[g]
<1>1. Moved(Unpin(now), top.val) \in Value
  BY PassedOn, UnpinTyped, MovedTyped
<1> QED
  BY <1>1 DEF ReceivedBy, Frame

LEMMA ReturnedShape ==
  ASSUME NEW s \in GoodFrames, Last(s).kind # "base",
         NEW e \in Frame, e.kind = Last(Front(s)).kind, e.fn = Last(Front(s)).fn,
         e.kind # "lua" => e.ent = NULL
  PROVE  /\ WithTop(Front(s), e) \in GoodFrames
         /\ Cut(s, WithTop(Front(s), e), Len(s) - 1)
<1> DEFINE q == Front(s)
           r == WithTop(q, e)
<1>1. /\ q \in GoodFrames /\ Len(q) = Len(s) - 1 /\ Len(s) >= 2 /\ Len(s) \in Nat
      /\ \A i \in 1 .. Len(s) - 1 : q[i] = s[i]
  BY PoppedFrames, TopOf
<1>0. e.kind = Last(q).kind /\ e.fn = Last(q).fn
  OBVIOUS
<1> HIDE DEF q
<1>2. /\ Last(q) = q[Len(q)]
      /\ Last(q).kind = "lua" => Last(q).fn \in Closure
  BY <1>1, TopOf
<1>3. /\ r \in GoodFrames /\ Len(r) = Len(q) /\ r[Len(q)] = e
      /\ \A i \in 1 .. Len(q) - 1 : r[i] = q[i]
  BY <1>0, <1>1, <1>2, ReplacedTop
<1> HIDE DEF r
<1> DEFINE n == Len(s) - 1
<1>4. n \in Nat /\ n >= 1 /\ Len(q) = n /\ Len(r) = n
  BY <1>1, <1>3
<1>5. \A i \in 1 .. n : q[i] = s[i]
  BY <1>1
<1>6. \A i \in 1 .. n - 1 : r[i] = q[i]
  BY <1>3, <1>4
<1>7. r[n] = e /\ e.kind = q[n].kind /\ e.fn = q[n].fn
  BY <1>0, <1>2, <1>3, <1>4
<1> HIDE DEF n
<1>8. \A i \in 1 .. n : r[i].kind = s[i].kind /\ r[i].fn = s[i].fn
  <2> SUFFICES ASSUME NEW i \in 1 .. n PROVE r[i].kind = s[i].kind /\ r[i].fn = s[i].fn
    OBVIOUS
  <2>1. CASE i = n
    BY <1>4, <1>5, <1>7, <2>1
  <2>2. CASE i # n
    BY <1>4, <1>5, <1>6, <2>2
  <2> QED
    BY <2>1, <2>2
<1>9. Cut(s, r, n)
  BY <1>4, <1>8 DEF Cut
<1> QED
  BY <1>3, <1>9 DEF n, r, q

(* The frame a C or Lua frame returns to.                                  *)
LEMMA CallerIs ==
  ASSUME Typed, Running({"lua", "c"})
  PROVE  /\ ctl = "run" /\ top.kind \in {"lua", "c"} /\ Len(ci[cur]) >= 2
         /\ Last(ci[cur]).kind # "base"
         /\ Last(Front(ci[cur])) \in Frame
         /\ Last(Front(ci[cur])).kind = "lua" => Last(Front(ci[cur])).fn \in Closure
         /\ Last(Front(ci[cur])).kind # "lua" => Last(Front(ci[cur])).ent = NULL
         /\ Front(ci[cur]) \in GoodFrames
<1>1. ctl = "run" /\ top.kind \in {"lua", "c"} /\ ci[cur] \in GoodFrames /\ top = Last(ci[cur])
  BY NowTyped DEF Running, top
<1>2. Last(ci[cur]).kind # "base"
  BY <1>1
<1>3. Front(ci[cur]) \in GoodFrames /\ Len(ci[cur]) >= 2
  BY <1>1, <1>2, PoppedFrames
<1> QED
  BY <1>1, <1>2, <1>3, TopOf

LEMMA ReturnToLuaStep ==
  ASSUME Typed, ControlInv, NEW wanted \in BOOLEAN, ReturnToLua(wanted)
  PROVE  Typed' /\ ControlInv'
<1> DEFINE caller == Last(Front(ci[cur]))
           frame == ReceivedBy(caller, wanted)
           back == [frame EXCEPT !.ent = Entry(now, frame.fn)]
           x == IF top.kind = "lua" THEN Reenter(AfterMove(wanted), clo[caller.fn]) ELSE AfterMove(wanted)
           e == IF top.kind = "lua" THEN back ELSE frame
           r == WithTop(Front(ci[cur]), e)
<1>1. /\ Running({"lua", "c"}) /\ ~AtActivation /\ caller.kind = "lua"
      /\ UNCHANGED <<st, cstack, clo, heap, ctl>>
  BY DEF ReturnToLua
<1>2. Tainted(cur, x) /\ Framed(cur, r)
  <2>1. CASE top.kind = "lua"
    BY <2>1 DEF ReturnToLua, Tainted, Framed
  <2>2. CASE top.kind # "lua"
    BY <2>2 DEF ReturnToLua, Tainted, Framed
  <2> QED
    BY <2>1, <2>2
<1>3. /\ ctl = "run" /\ Len(ci[cur]) >= 2 /\ Last(ci[cur]).kind # "base"
      /\ caller \in Frame /\ caller.fn \in Closure
      /\ cur \in Thread /\ ci[cur] \in GoodFrames
  BY <1>1, CallerIs, NowTyped
<1>4. frame \in Frame /\ frame.kind = caller.kind /\ frame.fn = caller.fn
  BY <1>3, ReceivedTyped
<1>5. x \in ThreadTaint
  <2>1. AfterMove(wanted) \in ThreadTaint /\ clo[caller.fn] \in TaintOrNull
    BY <1>3, NowTyped, AfterMoveTyped DEF Typed
  <2> QED
    BY <2>1, ReenterTyped
<1>6. e \in Frame /\ e.kind = caller.kind /\ e.fn = caller.fn
  <2>1. Entry(now, frame.fn) \in TaintOrNull
    BY <1>3, <1>4, SecureTyped DEF Entry, Typed
  <2>2. back \in Frame /\ back.kind = frame.kind /\ back.fn = frame.fn
    <3> HIDE DEF frame
    <3> QED
      BY <1>4, <2>1 DEF Frame
  <2> HIDE DEF back, frame
  <2> QED
    BY <1>4, <2>2
<1> HIDE DEF x, e
<1>7. r \in GoodFrames /\ Cut(ci[cur], r, Len(ci[cur]) - 1)
  BY <1>1, <1>3, <1>6, ReturnedShape
<1> HIDE DEF r, caller
<1>8. /\ ts' \in [Thread -> ThreadTaint] /\ ci' \in [Thread -> GoodFrames] /\ ci'[cur] = r
      /\ \A u \in Thread : u # cur => ci'[u] = ci[u]
  BY <1>2, <1>3, <1>5, <1>7, TaintedIs, FramedIs
<1>9. ControlInv'
  BY <1>1, <1>3, <1>7, <1>8, PopFrame
<1> QED
  BY <1>1, <1>8, <1>9 DEF Typed

LEMMA UnwindStep ==
  ASSUME Typed, ControlInv, ctl \in {"run", "rethrow"}, ctl' \in {"run", "rethrow"},
         UNCHANGED <<st, clo, heap>>,
         NEW k \in 1 .. Depth, Left(k - 1),
         \A m \in k + 1 .. Depth : cstack[m].how \notin Switch,
         ts' \in [Thread -> ThreadTaint], ci' \in [Thread -> GoodFrames],
         Cut(ci[cur], ci'[cur], cstack[k].at),
         \A t \in Thread : t # cur => SameShape(ci[t], ci'[t])
  PROVE  Typed' /\ ControlInv'
<1>1. ControlInv'
  BY UnwindControl
<1>2. cstack' \in Seq(Activation)
  <2>1. k - 1 \in 0 .. Depth /\ cstack \in Seq(Activation)
    BY ControlTyped DEF Typed
  <2> QED
    BY <2>1, Unwound
<1> QED
  BY <1>1, <1>2 DEF Typed, Control

LEMMA TopActivation ==
  ASSUME Typed, AtActivation, cstack' = Front(cstack)
  PROVE  /\ Depth \in 1 .. Depth /\ Left(Depth - 1) /\ Last(cstack) = cstack[Depth]
         /\ Last(cstack) \in Activation
         /\ cstack[Depth].at = Len(ci[cur]) - 1
         /\ \A m \in Depth + 1 .. Depth : cstack[m].how \notin Switch
<1>1. cstack # <<>> /\ Len(ci[cur]) = Last(cstack).at + 1 /\ cstack \in Seq(Activation)
  BY DEF AtActivation, Typed
<1>2. Depth \in 1 .. Depth /\ Left(Depth - 1) /\ Depth \in Nat
  BY <1>1, LeftFront, CurIs
<1>3. Last(cstack) = cstack[Depth] /\ cstack[Depth] \in Activation
  BY <1>1, <1>2, CurIs
<1>4. cstack[Depth].at \in Nat
  BY <1>3 DEF Activation
<1>5. cstack[Depth].at = Len(ci[cur]) - 1
  BY <1>1, <1>3, <1>4
<1>6. \A m \in Depth + 1 .. Depth : FALSE
  BY <1>2
<1> QED
  BY <1>1, <1>2, <1>3, <1>5, <1>6
LEMMA ResumedTyped ==
  ASSUME NEW a \in Activation, NEW x \in ThreadTaint
  PROVE  Resumed(a, x) \in ThreadTaint
<1>1. a.saved \in Context /\ a.fix \in TaintOrNull
  BY DEF Activation
<1>2. [x EXCEPT !.fixed = a.fix] \in ThreadTaint
  BY <1>1, FieldTyped
<1>3. LoadTaint(x, a.saved) \in ThreadTaint
  BY <1>1, LoadTaintTyped
<1> QED
  BY <1>2, <1>3 DEF Resumed

LEMMA ResumedFrameTyped ==
  ASSUME Typed, NEW a \in Activation, NEW frame \in Frame, NEW wanted \in BOOLEAN
  PROVE  /\ ResumedFrame(a, frame, wanted) \in Frame
         /\ \A g \in {"kind", "fn", "sav", "ent"} : ResumedFrame(a, frame, wanted)[g] = frame[g]
<1>1. a.saved.stack \in TaintOrNull
  BY DEF Activation, Context
<1>2. Labelled(a.saved.stack) \in Value
  BY <1>1, LabelledTyped
<1>3. /\ [frame EXCEPT !.val = Labelled(a.saved.stack)] \in Frame
      /\ \A g \in {"kind", "fn", "sav", "ent"} : [frame EXCEPT !.val = Labelled(a.saved.stack)][g] = frame[g]
  BY <1>2 DEF Frame
<1> QED
  BY <1>3, ReceivedTyped DEF ResumedFrame

LEMMA ReturnToCStep ==
  ASSUME Typed, ControlInv, NEW wanted \in BOOLEAN, ReturnToC(wanted)
  PROVE  Typed' /\ ControlInv'
<1> DEFINE a == Last(cstack)
           caller == Last(Front(ci[cur]))
           x == Resumed(a, AfterMove(wanted))
           e == ResumedFrame(a, caller, wanted)
           r == WithTop(Front(ci[cur]), e)
<1>1. /\ Running({"lua", "c"}) /\ AtActivation
      /\ Tainted(cur, x) /\ Framed(cur, r) /\ cstack' = Front(cstack)
      /\ UNCHANGED <<st, clo, heap, ctl>>
  BY DEF ReturnToC, Tainted, Framed
<1>2. /\ ctl = "run" /\ Last(ci[cur]).kind # "base" /\ caller \in Frame
      /\ caller.kind # "lua" => caller.ent = NULL
      /\ cur \in Thread /\ ci[cur] \in GoodFrames
  BY <1>1, CallerIs, NowTyped
<1>3. /\ Depth \in 1 .. Depth /\ Left(Depth - 1) /\ a \in Activation
      /\ cstack[Depth].at = Len(ci[cur]) - 1
      /\ \A m \in Depth + 1 .. Depth : cstack[m].how \notin Switch
  BY <1>1, TopActivation
<1>4. x \in ThreadTaint
  BY <1>3, NowTyped, AfterMoveTyped, ResumedTyped
<1>5. e \in Frame /\ e.kind = caller.kind /\ e.fn = caller.fn /\ e.ent = caller.ent
  BY <1>2, <1>3, ResumedFrameTyped
<1> HIDE DEF x, e, a
<1>6. r \in GoodFrames /\ Cut(ci[cur], r, Len(ci[cur]) - 1)
  BY <1>2, <1>5, ReturnedShape
<1> HIDE DEF r, caller
<1>7. /\ ts' \in [Thread -> ThreadTaint] /\ ci' \in [Thread -> GoodFrames] /\ ci'[cur] = r
      /\ \A u \in Thread : u # cur => ci'[u] = ci[u]
  BY <1>1, <1>2, <1>4, <1>6, TaintedIs, FramedIs
<1>8. /\ Cut(ci[cur], ci'[cur], cstack[Depth].at)
      /\ \A t \in Thread : t # cur => SameShape(ci[t], ci'[t])
  BY <1>3, <1>6, <1>7, SameShapeReflexive
<1> QED
  BY <1>1, <1>2, <1>3, <1>7, <1>8, UnwindStep

(* The frames and the taint state that a thread leaves to another.         *)
LEMMA HandOverTyped ==
  ASSUME Typed, NEW to \in Thread, NEW from \in Thread, NEW x \in ThreadTaint, NEW v \in Value
  PROVE  HandOver(to, from, x, v) \in [Thread -> ThreadTaint]
<1>1. v.taint \in TaintOrNull /\ ts[to] \in ThreadTaint /\ ts \in [Thread -> ThreadTaint]
  BY DEF Value, Typed
<1>2. TaintThread(ts[to], x) \in ThreadTaint
  BY <1>1, TaintThreadTyped
<1>3. TaintStack(TaintThread(ts[to], x), v.taint) \in ThreadTaint
  BY <1>1, <1>2, TaintStackTyped
<1> DEFINE y == TaintStack(TaintThread(ts[to], x), v.taint)
<1> HIDE DEF y
<1>4. HandOver(to, from, x, v) = IF to = from THEN [ts EXCEPT ![to] = x]
                                 ELSE [ts EXCEPT ![from] = x, ![to] = y]
  BY DEF HandOver, y
<1>5. y \in ThreadTaint
  BY <1>3 DEF y
<1> QED
  BY <1>1, <1>4, <1>5

Gives(to, from, x, frames, v) == ci' = Delivered(to, from, x, frames, v)

LEMMA DeliveredShape ==
  ASSUME Typed, NEW to \in Thread, NEW from \in Thread, NEW x \in ThreadTaint, NEW v \in Value,
         NEW n \in 1 .. Len(ci[from]), Gives(to, from, x, SubSeq(ci[from], 1, n), v)
  PROVE  /\ ci' \in [Thread -> GoodFrames]
         /\ Cut(ci[from], ci'[from], n)
         /\ \A t \in Thread : t # from => SameShape(ci[t], ci'[t])
<1> DEFINE w == Moved(TaintThread(ts[to], x), v)
           q == SubSeq(ci[from], 1, n)
           r == WithVal(q, v)
           p == WithVal(ci[to], w)
<1>1. ci \in [Thread -> GoodFrames] /\ ci[to] \in GoodFrames /\ ci[from] \in GoodFrames
  BY DEF Typed
<1>2. w \in Value
  <2>1. TaintThread(ts[to], x) \in ThreadTaint
    BY TaintThreadTyped DEF Typed
  <2> QED
    BY <2>1, MovedTyped
<1>3. /\ q \in GoodFrames /\ Cut(ci[from], q, n) /\ r \in GoodFrames /\ Cut(ci[from], r, n)
  BY <1>1, CutShape
<1> HIDE DEF w
<1>4. p \in GoodFrames /\ SameShape(ci[to], p)
  BY <1>1, <1>2, RevaluedShape
<1>5. ci' = IF to = from THEN [ci EXCEPT ![to] = r] ELSE [ci EXCEPT ![from] = q, ![to] = p]
  BY DEF Gives, Delivered, w
<1> HIDE DEF q, r, p
<1>6. CASE to = from
  <2>1. /\ ci' \in [Thread -> GoodFrames] /\ ci'[from] = r
        /\ \A t \in Thread : t # from => ci'[t] = ci[t]
    BY <1>1, <1>3, <1>5, <1>6
  <2> QED
    BY <1>3, <2>1, SameShapeReflexive
<1>7. CASE to # from
  <2>1. /\ ci' \in [Thread -> GoodFrames] /\ ci'[from] = q /\ ci'[to] = p
        /\ \A t \in Thread : t \notin {from, to} => ci'[t] = ci[t]
    BY <1>1, <1>3, <1>4, <1>5, <1>7
  <2>2. ASSUME NEW t \in Thread, t # from PROVE SameShape(ci[t], ci'[t])
    <3>1. CASE t = to
      BY <1>4, <2>1, <3>1
    <3>2. CASE t # to
      BY <2>1, <2>2, <3>2, SameShapeReflexive
    <3> QED
      BY <3>1, <3>2
  <2> QED
    BY <1>3, <2>1, <2>2
<1> QED
  BY <1>6, <1>7

LEMMA CoCallReturnStep ==
  ASSUME Typed, ControlInv, NEW wanted \in BOOLEAN, CoCallReturn(wanted)
  PROVE  Typed' /\ ControlInv'
<1> DEFINE a == Last(cstack)
           x == AfterMove(wanted)
           v == IF wanted THEN Moved(Unpin(now), top.val) ELSE Last(ci[a.from]).val
           n == Len(ci[cur]) - 1
<1>1. /\ Running({"lua", "c"}) /\ AtActivation /\ cstack' = Front(cstack)
      /\ ts' = HandOver(a.from, cur, x, Results(wanted, v))
      /\ IF wanted THEN Gives(a.from, cur, x, Front(ci[cur]), v) ELSE Framed(cur, Front(ci[cur]))
      /\ UNCHANGED <<st, clo, heap, ctl>>
  BY DEF CoCallReturn, Gives, Framed
<1>2. /\ ctl = "run" /\ Last(ci[cur]).kind # "base" /\ Front(ci[cur]) \in GoodFrames
      /\ cur \in Thread /\ ci[cur] \in GoodFrames /\ n \in 1 .. Len(ci[cur])
  <2>1. /\ ctl = "run" /\ Last(ci[cur]).kind # "base" /\ Front(ci[cur]) \in GoodFrames
        /\ cur \in Thread /\ ci[cur] \in GoodFrames /\ Len(ci[cur]) \in Nat /\ Len(ci[cur]) >= 2
    BY <1>1, CallerIs, NowTyped
  <2> QED
    BY <2>1
<1>3. /\ Depth \in 1 .. Depth /\ Left(Depth - 1) /\ a \in Activation
      /\ cstack[Depth].at = n
      /\ \A m \in Depth + 1 .. Depth : cstack[m].how \notin Switch
  BY <1>1, TopActivation
<1>4. a.from \in Thread
  BY <1>3 DEF Activation
<1> HIDE DEF a
<1>5. x \in ThreadTaint /\ v \in Value /\ Results(wanted, v) \in Value
  <2>1. Last(ci[a.from]).val \in Value
    BY <1>4, TopOf DEF Typed
  <2>2. Moved(Unpin(now), top.val) \in Value
    BY PassedOn, UnpinTyped, MovedTyped
  <2>3. Secure \in Value /\ x \in ThreadTaint
    BY SecureTyped, NowTyped, AfterMoveTyped
  <2> QED
    BY <2>1, <2>2, <2>3 DEF Results
<1>6. Front(ci[cur]) = SubSeq(ci[cur], 1, n)
  BY DEF Front
<1> HIDE DEF x, v, n
<1>7. ts' \in [Thread -> ThreadTaint]
  BY <1>1, <1>2, <1>4, <1>5, HandOverTyped
<1>8. /\ ci' \in [Thread -> GoodFrames]
      /\ Cut(ci[cur], ci'[cur], n)
      /\ \A t \in Thread : t # cur => SameShape(ci[t], ci'[t])
  <2>1. CASE wanted
    <3>1. Gives(a.from, cur, x, SubSeq(ci[cur], 1, n), v)
      BY <1>1, <1>6, <2>1
    <3> QED
      BY <1>2, <1>4, <1>5, <3>1, DeliveredShape
  <2>2. CASE ~wanted
    <3>1. Framed(cur, SubSeq(ci[cur], 1, n))
      BY <1>1, <1>6, <2>2
    <3>2. SubSeq(ci[cur], 1, n) \in GoodFrames /\ Cut(ci[cur], SubSeq(ci[cur], 1, n), n)
      BY <1>2, CutShape, SecureTyped
    <3> DEFINE q == SubSeq(ci[cur], 1, n)
    <3> HIDE DEF q
    <3>3. /\ ci' \in [Thread -> GoodFrames] /\ ci'[cur] = q
          /\ \A t \in Thread : t # cur => ci'[t] = ci[t]
      BY <1>2, <3>1, <3>2, FramedIs DEF q
    <3> QED
      BY <3>2, <3>3, SameShapeReflexive DEF q
  <2> QED
    BY <2>1, <2>2
<1> QED
  BY <1>1, <1>2, <1>3, <1>7, <1>8, UnwindStep
-----------------------------------------------------------------------------
(* Errors.                                                                 *)
LEMMA CatchStep ==
  ASSUME Typed, ControlInv, ctl \in {"run", "rethrow"}, NEW k \in 1 .. Depth, Innermost(k),
         NEW x \in ThreadTaint, NEW err \in Value, Catch(k, x, err), UNCHANGED <<st, clo, heap>>
  PROVE  Typed' /\ ControlInv'
<1> DEFINE a == cstack[k]
           caught == TaintStack(Unpin(x), err.taint)
           n == a.at
           base == SubSeq(ci[cur], 1, n)
           v == Moved(Unpin(x), err)
<1>1. /\ cur \in Thread /\ ci[cur] \in GoodFrames /\ a \in Activation
      /\ a.saved \in Context /\ a.from \in Thread /\ cstack \in Seq(Activation) /\ Depth \in Nat
      /\ ci \in [Thread -> GoodFrames] /\ Len(ci[cur]) \in Nat
  BY NowTyped, CurIs DEF Typed, Activation
<1>2. \A m \in k + 1 .. Depth : cstack[m].how \notin Switch
  BY DEF Innermost, Depth, Catchers, Switch
<1>3. a.t = cur /\ n \in 1 .. Len(ci[cur])
  <2>1. k \in k .. Depth
    BY <1>1
  <2>2. a.t = cur
    BY <1>2, <2>1, SameThread DEF ControlInv
  <2>3. n < Len(ci[cur]) /\ n >= 1 /\ n \in Nat
    BY <2>2, CurAwake, <1>1 DEF ControlInv, Linking, Activation
  <2> QED
    BY <1>1, <2>2, <2>3
<1>4. /\ caught \in ThreadTaint /\ LoadTaint(caught, a.saved) \in ThreadTaint
      /\ v \in Value /\ Labelled(a.saved.stack) \in Value
  <2>1. err.taint \in TaintOrNull /\ Unpin(x) \in ThreadTaint /\ a.saved.stack \in TaintOrNull
    BY <1>1, UnpinTyped DEF Value, Context
  <2>2. caught \in ThreadTaint
    BY <2>1, TaintStackTyped
  <2>3. LoadTaint(caught, a.saved) \in ThreadTaint
    BY <1>1, <2>2, LoadTaintTyped
  <2> QED
    BY <2>1, <2>2, <2>3, MovedTyped, LabelledTyped
<1>5. CASE a.how # "resume"
  <2>1. ctl' \in {"run", "rethrow"} /\ Left(k - 1)
    BY <1>5 DEF Catch, Left
  <2>2. CASE a.how \in {"pcall", "secure"}
    <3>1. \E y \in ThreadTaint : Tainted(cur, y)
      BY <1>4, <2>2 DEF Catch, Tainted
    <3>2. \E w \in Value : Framed(cur, WithVal(base, w))
      BY <1>4, <2>2 DEF Catch, Framed
    <3>3. ts' \in [Thread -> ThreadTaint]
      BY <1>1, <3>1, TaintedIs
    <3>4. PICK w \in Value : Framed(cur, WithVal(base, w))
      BY <3>2
    <3> DEFINE r == WithVal(base, w)
    <3>5. r \in GoodFrames /\ Cut(ci[cur], r, n)
      BY <1>1, <1>3, CutShape
    <3> HIDE DEF base, n
    <3>6. Framed(cur, r)
      BY <3>4
    <3> HIDE DEF r
    <3>7. /\ ci' \in [Thread -> GoodFrames] /\ ci'[cur] = r
          /\ \A t \in Thread : t # cur => ci'[t] = ci[t]
      BY <1>1, <3>5, <3>6, FramedIs
    <3>8. /\ Cut(ci[cur], ci'[cur], cstack[k].at)
          /\ \A t \in Thread : t # cur => SameShape(ci[t], ci'[t])
      BY <3>5, <3>7, SameShapeReflexive DEF n
    <3> QED
      BY <1>2, <2>1, <3>3, <3>7, <3>8, UnwindStep
  <2>3. CASE a.how = "cocall"
    <3>1. ts' = HandOver(a.from, cur, caught, v) /\ Gives(a.from, cur, caught, base, v)
      BY <2>3 DEF Catch, Gives
    <3>2. ts' \in [Thread -> ThreadTaint]
      BY <1>1, <1>4, <3>1, HandOverTyped
    <3>3. /\ ci' \in [Thread -> GoodFrames]
          /\ Cut(ci[cur], ci'[cur], n)
          /\ \A t \in Thread : t # cur => SameShape(ci[t], ci'[t])
      BY <1>1, <1>3, <1>4, <3>1, DeliveredShape
    <3> QED
      BY <1>2, <2>1, <3>2, <3>3, UnwindStep
  <2> QED
    BY <1>5, <2>2, <2>3 DEF Catch
<1>6. CASE a.how = "resume"
  <2>1. /\ Tainted(cur, x) /\ Framed(cur, WithVal(ci[cur], err)) /\ Left(k) /\ ctl' = "failed"
    BY <1>6 DEF Catch, Tainted, Framed, Left
  <2> DEFINE r == WithVal(ci[cur], err)
  <2>2. r \in GoodFrames /\ SameShape(ci[cur], r)
    BY <1>1, RevaluedShape
  <2> HIDE DEF r
  <2>3. /\ ci' \in [Thread -> GoodFrames] /\ ci'[cur] = r
        /\ \A t \in Thread : t # cur => ci'[t] = ci[t]
    BY <1>1, <2>1, <2>2, FramedIs DEF r
  <2>4. \A t \in Thread : SameShape(ci[t], ci'[t])
    BY <2>2, <2>3, SameShapeReflexive
  <2>5. ControlInv'
    BY <1>2, <1>6, <2>1, <2>4, FailedControl
  <2>6. ts' \in [Thread -> ThreadTaint]
    BY <1>1, <2>1, TaintedIs
  <2>7. cstack' \in Seq(Activation)
    <3>1. k \in 0 .. Depth
      BY <1>1
    <3> QED
      BY <1>1, <2>1, <3>1, Unwound
  <2> QED
    BY <2>1, <2>3, <2>5, <2>6, <2>7 DEF Typed, Control
<1> QED
  BY <1>5, <1>6

LEMMA ThrowStep ==
  ASSUME Typed, ControlInv, ctl \in {"run", "rethrow"}, NEW v \in Value, Throw(v)
  PROVE  Typed' /\ ControlInv'
<1>1. UNCHANGED <<st, clo, heap>> /\ DOMAIN cstack = 1 .. Depth /\ cstack \in Seq(Activation)
  BY CurIs DEF Throw, Typed
<1>2. PICK k \in 1 .. Depth :
        /\ Innermost(k)
        /\ \/ Catch(k, now, v)
           \/ \E r \in k + 1 .. Len(cstack) :
                Catch(k, LoadTaint(now, cstack[r].saved),
                      IF cstack[r].how = "peek" THEN Secure ELSE Labelled(cstack[r].saved.stack))
  BY <1>1 DEF Throw
<1>3. CASE Catch(k, now, v)
  BY <1>1, <1>2, <1>3, NowTyped, CatchStep
<1>4. ASSUME NEW r \in k + 1 .. Len(cstack),
             Catch(k, LoadTaint(now, cstack[r].saved),
                   IF cstack[r].how = "peek" THEN Secure ELSE Labelled(cstack[r].saved.stack))
      PROVE  Typed' /\ ControlInv'
  <2> DEFINE x == LoadTaint(now, cstack[r].saved)
             err == IF cstack[r].how = "peek" THEN Secure ELSE Labelled(cstack[r].saved.stack)
  <2>1. r \in 1 .. Depth
    BY <1>1 DEF Depth
  <2>2. cstack[r].saved \in Context /\ cstack[r].saved.stack \in TaintOrNull
    BY <1>1, <2>1, CurIs DEF Activation, Context
  <2>3. x \in ThreadTaint /\ err \in Value
    BY <2>2, NowTyped, LoadTaintTyped, LabelledTyped, SecureTyped
  <2>4. Catch(k, x, err)
    BY <1>4
  <2> HIDE DEF x, err
  <2> QED
    BY <1>1, <1>2, <2>3, <2>4, CatchStep
<1> QED
  BY <1>2, <1>3, <1>4

LEMMA ErrorsStep ==
  ASSUME Typed, ControlInv, ErrorStep
  PROVE  Typed' /\ ControlInv'
<1>1. Computed \in Value /\ top.val \in Value
  BY NowTyped, ComputedTyped
<1>2. CASE LuaError
  BY <1>1, <1>2, ThrowStep DEF LuaError, InLua, Running
<1>3. CASE CError
  BY <1>1, <1>3, ThrowStep DEF CError, Running
<1>4. CASE Rethrow
  BY <1>1, <1>4, ThrowStep DEF Rethrow
<1> QED
  BY <1>2, <1>3, <1>4 DEF ErrorStep
-----------------------------------------------------------------------------
(* Coroutines.                                                             *)
LEMMA CoCreateStep ==
  ASSUME Typed, ControlInv, NEW co \in Thread, NEW f \in Closure, CoCreate(co, f)
  PROVE  Typed' /\ ControlInv'
<1> DEFINE x == TaintStack(TaintThread(PreinitTaint, now), top.val.taint)
           b == BaseFrame(f)
<1>1. /\ ctl = "run" /\ co # Main /\ st[co] \in {"none", "dead"}
      /\ Tainted(co, x) /\ ci' = [ci EXCEPT ![co] = <<BaseFrame(f)>>]
      /\ st' = [st EXCEPT ![co] = "fresh"]
      /\ UNCHANGED <<cstack, clo, heap, ctl>>
  BY DEF CoCreate, Running, Tainted
<1>2. x \in ThreadTaint
  <2>1. TaintThread(PreinitTaint, now) \in ThreadTaint
    BY NowTyped, PreinitTyped, TaintThreadTyped
  <2> QED
    BY <2>1, PassedOn, TaintStackTyped
<1> HIDE DEF x
<1>3. ts' \in [Thread -> ThreadTaint]
  BY <1>1, <1>2, TaintedIs
<1>4. <<b>> \in GoodFrames
  <2>1. b \in Frame /\ b.kind = "base" /\ b.ent = NULL
    BY SecureTyped DEF BaseFrame, Frame
  <2> HIDE DEF b
  <2>2. <<b>> \in Seq(Frame) /\ Len(<<b>>) = 1 /\ <<b>>[1] = b
    BY <2>1
  <2> DEFINE q == <<b>>
  <2> HIDE DEF q
  <2>3. q \in Seq(Frame) /\ Len(q) = 1 /\ q[1] = b
    BY <2>2 DEF q
  <2>4. \A i \in 1 .. 1 : GoodFrame(q, i)
    BY <2>1, <2>3 DEF GoodFrame
  <2>5. Len(q) >= 1 /\ \A i \in 1 .. Len(q) : GoodFrame(q, i)
    BY <2>3, <2>4
  <2>6. q \in GoodFrames
    BY <2>3, <2>5 DEF GoodFrames
  <2> QED
    BY <2>6 DEF q
<1>5. ci' \in [Thread -> GoodFrames]
  BY <1>1, <1>4 DEF Typed
<1>6. st' \in [Thread -> Status]
  BY <1>1 DEF Typed, Status
<1>7. ControlInv'
  BY <1>1, CreateControl
<1> QED
  BY <1>1, <1>3, <1>5, <1>6, <1>7 DEF Typed

(* A suspended coroutine waits in a C function that a Lua frame called.    *)
LEMMA YieldedCaller ==
  ASSUME Typed, ControlInv, NEW co \in Thread, st[co] = "yield"
  PROVE  /\ Last(Front(ci[co])) \in Frame /\ Last(Front(ci[co])).kind = "lua"
         /\ Last(Front(ci[co])).fn \in Closure
         /\ Front(ci[co]) \in Seq(Frame) /\ Len(Front(ci[co])) >= 1
<1> DEFINE s == ci[co]
           n == Len(s)
<1>1. s \in GoodFrames
  BY DEF Typed
<1>2. s[n].kind = "c"
  BY DEF ControlInv, Suspended
<1>3. Last(s).kind = "c" /\ n \in Nat /\ n >= 1
  BY <1>1, <1>2, TopOf
<1>4. Front(s) \in GoodFrames /\ Last(Front(s)) = s[n - 1] /\ n >= 2
  BY <1>1, <1>3, PoppedFrames
<1>5. \A i \in 2 .. n : s[i].kind = "c" => s[i - 1].kind = "lua"
  BY DEF ControlInv, Callers
<1> HIDE DEF n, s
<1>6. s[n - 1].kind = "lua"
  BY <1>2, <1>3, <1>4, <1>5
<1> QED
  BY <1>4, <1>6, TopOf DEF s, GoodFrames

LEMMA ResumeYieldedStep ==
  ASSUME Typed, ControlInv, NEW co \in Thread, NEW given \in BOOLEAN, ResumeYielded(co, given)
  PROVE  Typed' /\ ControlInv'
<1> DEFINE x == TaintThread(ts[co], now)
           v == IF given THEN Moved(ts[co], top.val) ELSE Labelled(x.write)
           caller == Last(Front(ci[co]))
           taint == clo[caller.fn]
           y == Reenter(TaintStack(Unpin(x), v.taint), taint)
           e == [caller EXCEPT !.val = Moved(x, v), !.ent = Entry(x, caller.fn)]
           r == WithTop(Front(ci[co]), e)
           a == [how |-> "resume", t |-> co, from |-> cur, at |-> 1,
                 saved |-> SavedBy("resume"), fix |-> NULL]
<1>1. /\ ctl = "run" /\ st[co] = "yield" /\ Tainted(co, y) /\ Framed(co, r) /\ Enters(a)
      /\ st' = [st EXCEPT ![co] = "live"]
      /\ UNCHANGED <<clo, heap, ctl>>
  BY DEF ResumeYielded, Running, Tainted, Framed, Enters
<1>2. /\ ci[co] \in GoodFrames /\ now \in ThreadTaint /\ ts[co] \in ThreadTaint
      /\ top.val \in Value /\ cur \in Thread /\ st \in [Thread -> Status]
  BY NowTyped DEF Typed
<1>3. Last(ci[co]).kind = "c"
  BY <1>1, <1>2, TopOf DEF ControlInv, Suspended
<1>4. /\ Front(ci[co]) \in GoodFrames /\ Len(Front(ci[co])) = Len(ci[co]) - 1 /\ Len(ci[co]) >= 2
      /\ Last(Front(ci[co])) = ci[co][Len(ci[co]) - 1]
  BY <1>2, <1>3, PoppedFrames
<1>5. caller.kind = "lua"
  <2> DEFINE s == ci[co]
             n == Len(s)
  <2>1. n \in Nat /\ n >= 2
    BY <1>2, <1>4, TopOf
  <2>2. s[n].kind = "c"
    BY <1>2, <1>3, TopOf
  <2>3. \A i \in 2 .. n : s[i].kind = "c" => s[i - 1].kind = "lua"
    BY <1>1 DEF ControlInv, Callers
  <2>4. caller = s[n - 1]
    BY <1>4
  <2> HIDE DEF s, n, caller
  <2>5. n \in 2 .. n
    BY <2>1
  <2> QED
    BY <2>2, <2>3, <2>4, <2>5
<1>6. caller \in Frame /\ caller.fn \in Closure
  BY <1>4, <1>5, TopOf
<1>7. x \in ThreadTaint /\ v \in Value /\ v.taint \in TaintOrNull /\ Moved(x, v) \in Value
  <2>1. x \in ThreadTaint
    BY <1>2, TaintThreadTyped
  <2>2. x.write \in TaintOrNull
    BY <2>1 DEF ThreadTaint
  <2>3. v \in Value
    <3> HIDE DEF x
    <3> QED
      BY <1>2, <2>2, MovedTyped, LabelledTyped
  <2> HIDE DEF x, v
  <2> QED
    BY <2>1, <2>3, MovedTyped
<1>8. taint \in TaintOrNull /\ Entry(x, caller.fn) \in TaintOrNull
  BY <1>6, SecureTyped DEF Entry, Typed
<1> HIDE DEF x, v, taint
<1>9. y \in ThreadTaint
  <2>1. Unpin(x) \in ThreadTaint
    BY <1>7, UnpinTyped
  <2>2. TaintStack(Unpin(x), v.taint) \in ThreadTaint
    BY <1>7, <2>1, TaintStackTyped
  <2> QED
    BY <1>8, <2>2, ReenterTyped
<1>10. e \in Frame /\ e.kind = caller.kind /\ e.fn = caller.fn
  <2> DEFINE w == Moved(x, v)
             en == Entry(x, caller.fn)
  <2>1. w \in Value /\ en \in TaintOrNull
    BY <1>7, <1>8
  <2>2. e = [caller EXCEPT !.val = w, !.ent = en]
    OBVIOUS
  <2> HIDE DEF caller, w, en, e
  <2> QED
    BY <1>6, <2>1, <2>2 DEF Frame
<1> HIDE DEF y, e
<1>11. r \in GoodFrames /\ Cut(ci[co], r, Len(ci[co]) - 1)
  BY <1>2, <1>3, <1>5, <1>10, ReturnedShape
<1>12. /\ a \in Activation /\ a.t = co /\ a.from = cur /\ a.at = 1 /\ a.how = "resume"
       /\ a.fix = NULL
  BY <1>2, SavedByTyped, SecureTyped DEF Activation, How, Catchers
<1> HIDE DEF r, a, caller
<1>13. /\ ts' \in [Thread -> ThreadTaint] /\ ci' \in [Thread -> GoodFrames] /\ ci'[co] = r
       /\ \A u \in Thread : u # co => ci'[u] = ci[u]
  BY <1>1, <1>9, <1>11, TaintedIs, FramedIs
<1>14. ControlInv'
  BY <1>1, <1>11, <1>12, <1>13, ContinueControl
<1>15. cstack' \in Seq(Activation)
  BY <1>1, <1>12, Appended DEF Typed
<1>16. st' \in [Thread -> Status]
  BY <1>1, <1>2 DEF Status
<1> QED
  BY <1>1, <1>13, <1>14, <1>15, <1>16 DEF Typed

LEMMA YieldStep ==
  ASSUME Typed, ControlInv, Yield
  PROVE  Typed' /\ ControlInv'
<1>1. /\ ctl = "run" /\ top.kind = "c" /\ cstack # <<>> /\ Last(cstack).how = "resume"
      /\ st' = [st EXCEPT ![cur] = "yield"] /\ ctl' = "yielded"
      /\ UNCHANGED <<ts, ci, cstack, clo, heap>>
  BY DEF Yield, Running
<1>2. Depth > 0 /\ cstack[Depth].how = "resume"
  <2>1. cstack \in Seq(Activation)
    BY DEF Typed
  <2>2. Depth > 0
    BY <1>1, <2>1 DEF Depth
  <2> QED
    BY <1>1, <2>1, <2>2, CurIs
<1>3. ControlInv'
  BY <1>1, <1>2, YieldControl
<1>4. st' \in [Thread -> Status] /\ ctl' \in Control
  BY <1>1 DEF Typed, Status, Control
<1> QED
  BY <1>1, <1>3, <1>4 DEF Typed

LEMMA CoReturnStep ==
  ASSUME Typed, ControlInv, NEW wanted \in BOOLEAN, CoReturn(wanted)
  PROVE  Typed' /\ ControlInv'
<1> DEFINE caller == Last(Front(ci[cur]))
           x == AfterMove(wanted)
           e == ReceivedBy(caller, wanted)
           r == WithTop(Front(ci[cur]), e)
<1>1. /\ Running({"lua"}) /\ AtActivation /\ Last(cstack).how = "resume"
      /\ Tainted(cur, x) /\ Framed(cur, r)
      /\ st' = [st EXCEPT ![cur] = "dead"] /\ ctl' = "returned"
      /\ UNCHANGED <<cstack, clo, heap>>
  BY DEF CoReturn, Tainted, Framed
<1>2. /\ ctl = "run" /\ Last(ci[cur]).kind # "base" /\ caller \in Frame
      /\ caller.kind # "lua" => caller.ent = NULL
      /\ cur \in Thread /\ ci[cur] \in GoodFrames
  <2>1. Running({"lua", "c"})
    BY <1>1 DEF Running
  <2> QED
    BY <2>1, CallerIs, NowTyped
<1>3. Depth > 0 /\ cstack[Depth].how = "resume" /\ Len(ci[cur]) - 1 = 1
  <2>1. cstack \in Seq(Activation) /\ cstack # <<>> /\ Len(ci[cur]) = Last(cstack).at + 1
    BY <1>1 DEF Typed, AtActivation
  <2>2. Depth > 0
    BY <2>1 DEF Depth
  <2>3. Last(cstack) = cstack[Depth] /\ Depth \in 1 .. Depth
    BY <2>1, <2>2, CurIs
  <2>4. cstack[Depth].at = 1
    BY <1>1, <2>3 DEF ControlInv, Linking
  <2> QED
    BY <1>1, <2>1, <2>2, <2>3, <2>4
<1>4. x \in ThreadTaint
  BY NowTyped, AfterMoveTyped
<1>5. e \in Frame /\ e.kind = caller.kind /\ e.fn = caller.fn /\ e.ent = caller.ent
  BY <1>2, ReceivedTyped
<1> HIDE DEF x, e
<1>6. r \in GoodFrames /\ Cut(ci[cur], r, 1)
  <2>1. r \in GoodFrames /\ Cut(ci[cur], r, Len(ci[cur]) - 1)
    BY <1>2, <1>5, ReturnedShape
  <2> QED
    BY <1>3, <2>1
<1> HIDE DEF r, caller
<1>7. /\ ts' \in [Thread -> ThreadTaint] /\ ci' \in [Thread -> GoodFrames] /\ ci'[cur] = r
      /\ \A u \in Thread : u # cur => ci'[u] = ci[u]
  BY <1>1, <1>2, <1>4, <1>6, TaintedIs, FramedIs
<1>8. ControlInv'
  BY <1>1, <1>2, <1>3, <1>6, <1>7, CoReturnControl
<1>9. st' \in [Thread -> Status] /\ ctl' \in Control
  BY <1>1 DEF Typed, Status, Control
<1> QED
  BY <1>1, <1>7, <1>8, <1>9 DEF Typed

LEMMA FinishResumeStep ==
  ASSUME Typed, ControlInv, FinishResume
  PROVE  Typed' /\ ControlInv'
<1> DEFINE a == Last(cstack)
           v == IF ctl = "failed" THEN Moved(Unpin(now), top.val) ELSE top.val
           x == TaintStack(TaintThread(ts[a.from], now), v.taint)
           y == IF ctl = "failed" THEN TaintStack(Unpin(now), top.val.taint) ELSE now
           w == Moved(TaintThread(ts[a.from], now), v)
           r == WithVal(ci[a.from], w)
<1>1. /\ ctl \in {"returned", "yielded", "failed"}
      /\ ts' = [ts EXCEPT ![a.from] = x, ![cur] = y]
      /\ Framed(a.from, r)
      /\ st' = IF ctl = "failed" THEN [st EXCEPT ![cur] = "dead"] ELSE st
      /\ cstack' = Front(cstack) /\ ctl' = "run" /\ UNCHANGED <<clo, heap>>
  BY DEF FinishResume, Framed
<1>2. /\ Depth > 0 /\ cstack \in Seq(Activation) /\ Last(cstack) = cstack[Depth]
      /\ Depth \in 1 .. Depth /\ cstack # <<>> /\ Depth \in Nat
  <2>1. Depth > 0 /\ cstack \in Seq(Activation)
    BY <1>1 DEF ControlInv, Statuses, Typed
  <2> QED
    BY <2>1, CurIs DEF Depth
<1>3. a \in Activation /\ a.from \in Thread /\ Left(Depth - 1)
  BY <1>1, <1>2, CurIs, LeftFront DEF Activation
<1> HIDE DEF a
<1>4. /\ now \in ThreadTaint /\ top.val \in Value /\ cur \in Thread
      /\ ts[a.from] \in ThreadTaint /\ ci[a.from] \in GoodFrames /\ ts \in [Thread -> ThreadTaint]
  BY <1>3, NowTyped DEF Typed
<1>5. v \in Value /\ v.taint \in TaintOrNull /\ TaintThread(ts[a.from], now) \in ThreadTaint
  BY <1>4, UnpinTyped, MovedTyped, TaintThreadTyped
<1> HIDE DEF v
<1>6. x \in ThreadTaint /\ y \in ThreadTaint /\ w \in Value
  BY <1>4, <1>5, PassedOn, TaintStackTyped, MovedTyped
<1> HIDE DEF x, y, w
<1>7. r \in GoodFrames /\ SameShape(ci[a.from], r)
  BY <1>4, <1>6, RevaluedShape
<1> HIDE DEF r
<1>8. ts' \in [Thread -> ThreadTaint]
  BY <1>1, <1>4, <1>6
<1>9. ci' \in [Thread -> GoodFrames] /\ \A t \in Thread : SameShape(ci[t], ci'[t])
  <2>1. /\ ci' \in [Thread -> GoodFrames] /\ ci'[a.from] = r
        /\ \A t \in Thread : t # a.from => ci'[t] = ci[t]
    BY <1>1, <1>3, <1>7, FramedIs
  <2> QED
    BY <1>7, <2>1, SameShapeReflexive
<1>10. ControlInv'
  BY <1>1, <1>3, <1>9, FinishControl
<1>11. cstack' \in Seq(Activation)
  <2>1. Depth - 1 \in 0 .. Depth
    BY <1>2
  <2> QED
    BY <1>2, <1>3, <2>1, Unwound
<1>12. st' \in [Thread -> Status]
  BY <1>1 DEF Typed, Status
<1> QED
  BY <1>1, <1>8, <1>9, <1>10, <1>11, <1>12 DEF Typed, Control
-----------------------------------------------------------------------------
(* The taint API.                                                          *)
LEMMA ApiQuiet ==
  ASSUME Typed, ControlInv, NEW t \in Thread, NEW x \in ThreadTaint, Api(t, x)
  PROVE  Typed' /\ ControlInv'
<1>1. Tainted(t, x) /\ UNCHANGED <<ci, st, cstack, clo, heap, ctl>>
  BY DEF Api, Tainted
<1>2. ts' \in [Thread -> ThreadTaint]
  BY <1>1, TaintedIs
<1> QED
  BY <1>1, <1>2, QuietStep DEF Typed

LEMMA ClosureSet ==
  ASSUME Typed, ControlInv, NEW f \in Closure, NEW taint \in TaintOrNull,
         clo' = [clo EXCEPT ![f] = taint], UNCHANGED <<ts, ci, st, cstack, heap, ctl>>
  PROVE  Typed' /\ ControlInv'
<1>1. clo' \in [Closure -> TaintOrNull]
  BY DEF Typed
<1> QED
  BY <1>1, QuietStep DEF Typed

LEMMA ClearedFrames ==
  ASSUME NEW s \in GoodFrames
  PROVE  LET r == [i \in DOMAIN s |-> [s[i] EXCEPT !.sav = NULL, !.val = Secure]]
         IN  r \in GoodFrames /\ SameShape(s, r)
<1> DEFINE r == [i \in DOMAIN s |-> [s[i] EXCEPT !.sav = NULL, !.val = Secure]]
           n == Len(s)
<1>1. s \in Seq(Frame) /\ DOMAIN s = 1 .. n /\ n \in Nat /\ n >= 1 /\ 1 \in 1 .. n
  BY TopOf DEF GoodFrames
<1>2. ASSUME NEW i \in 1 .. n
      PROVE  /\ r[i] \in Frame /\ r[i].sav = NULL
             /\ \A g \in {"kind", "fn", "ent"} : r[i][g] = s[i][g]
  <2> DEFINE e == s[i]
  <2>1. e \in Frame /\ r[i] = [e EXCEPT !.sav = NULL, !.val = Secure]
    BY <1>1
  <2>2. r[i] = [s[i] EXCEPT !.sav = NULL, !.val = Secure] /\ s[i] \in Frame
    BY <1>1
  <2> HIDE DEF r, e
  <2> QED
    BY <2>2, SecureTyped DEF Frame
<1>3. DOMAIN r = 1 .. n
  BY <1>1
<1>4. r = [i \in 1 .. n |-> r[i]]
  BY <1>1
<1> HIDE DEF r
<1>5. r \in Seq(Frame) /\ Len(r) = n
  BY <1>1, <1>2, <1>3, <1>4
<1>6. \A i \in 1 .. n : GoodFrame(s, i)
  BY DEF GoodFrames
<1>7. NULL # "uninit"
  BY TaintAssumption, SecureTyped
<1>8. \A i \in 1 .. Len(r) : GoodFrame(r, i)
  BY <1>1, <1>2, <1>5, <1>6, <1>7 DEF GoodFrame
<1>9. r \in GoodFrames
  BY <1>1, <1>5, <1>8 DEF GoodFrames
<1>10. SameShape(s, r)
  BY <1>1, <1>2, <1>5 DEF SameShape
<1> QED
  BY <1>9, <1>10 DEF r

LEMMA ClearTaintTyped ==
  ASSUME NEW x \in ThreadTaint
  PROVE  [x EXCEPT !.newgc = NULL, !.newcl = NULL] \in ThreadTaint
  BY SecureTyped DEF ThreadTaint

LEMMA ApiResetStep ==
  ASSUME Typed, ControlInv, ApiResetTaint
  PROVE  Typed' /\ ControlInv'
<1> DEFINE y == SetStackTaint(SetTaintMode(now, FALSE, FALSE), NULL)
           x == [y EXCEPT !.newgc = NULL, !.newcl = NULL]
           s == ci[cur]
           r == [i \in DOMAIN s |-> [s[i] EXCEPT !.sav = NULL, !.val = Secure]]
<1>1. Tainted(cur, x) /\ Framed(cur, r) /\ UNCHANGED <<st, cstack, clo, heap, ctl>>
  BY DEF ApiResetTaint, Tainted, Framed
<1>2. cur \in Thread /\ now \in ThreadTaint /\ s \in GoodFrames
  BY NowTyped
<1>3. y \in ThreadTaint
  <2>1. SetTaintMode(now, FALSE, FALSE) \in ThreadTaint /\ NULL \in TaintOrNull
    BY <1>2, SetTaintModeTyped, SecureTyped
  <2> QED
    BY <2>1, SetStackTaintTyped
<1> HIDE DEF y
<1>4. x \in ThreadTaint
  BY <1>3, ClearTaintTyped
<1> HIDE DEF x
<1>5. r \in GoodFrames /\ SameShape(s, r)
  BY <1>2, ClearedFrames
<1> HIDE DEF r
<1>6. /\ ci' \in [Thread -> GoodFrames] /\ ci'[cur] = r
      /\ \A u \in Thread : u # cur => ci'[u] = ci[u]
  BY <1>1, <1>2, <1>5, FramedIs
<1>7. \A t \in Thread : SameShape(ci[t], ci'[t])
  BY <1>5, <1>6, SameShapeReflexive
<1>8. ControlInv'
  BY <1>1, <1>7, QuietControl
<1>9. ts' \in [Thread -> ThreadTaint]
  BY <1>1, <1>2, <1>4, TaintedIs
<1> QED
  BY <1>1, <1>6, <1>8, <1>9 DEF Typed

LEMMA ExplicitStepTyped ==
  ASSUME Typed, ControlInv, ExplicitStep
  PROVE  Typed' /\ ControlInv'
<1>0. NULL \in TaintOrNull /\ now \in ThreadTaint /\ cur \in Thread
  BY NowTyped, SecureTyped
<1>1. ASSUME NEW t \in Thread, NEW taint \in TaintOrNull,
             \/ ApiSetStackTaint(t, taint)
             \/ ApiSetNewGCTaint(t, taint)
             \/ ApiSetNewClosureTaint(t, taint)
      PROVE  Typed' /\ ControlInv'
  <2>1. ts[t] \in ThreadTaint
    BY DEF Typed
  <2>2. /\ SetStackTaint(ts[t], taint) \in ThreadTaint
        /\ [ts[t] EXCEPT !.newgc = taint] \in ThreadTaint
        /\ [ts[t] EXCEPT !.newcl = taint] \in ThreadTaint
    BY <2>1, SetStackTaintTyped, FieldTyped
  <2> QED
    BY <1>1, <2>2, ApiQuiet DEF ApiSetStackTaint, ApiSetNewGCTaint, ApiSetNewClosureTaint
<1>2. ASSUME NEW rd \in BOOLEAN, NEW wr \in BOOLEAN, ApiSetTaintMode(rd, wr)
      PROVE  Typed' /\ ControlInv'
  <2>1. SetTaintMode(now, rd, wr) \in ThreadTaint
    BY <1>0, SetTaintModeTyped
  <2> QED
    BY <1>0, <1>2, <2>1, ApiQuiet DEF ApiSetTaintMode
<1>3. ASSUME NEW taint \in TaintOrNull, ApiSetValueTaint(taint) PROVE Typed' /\ ControlInv'
  <2>1. Labelled(taint) \in Value /\ Framed(cur, WithVal(ci[cur], Labelled(taint)))
    BY <1>3, LabelledTyped DEF ApiSetValueTaint, Framed
  <2> QED
    BY <1>3, <2>1, QuietStep DEF ApiSetValueTaint, Typed
<1>4. ASSUME NEW f \in Closure, NEW taint \in TaintOrNull, ApiSetObjectTaint(f, taint)
      PROVE  Typed' /\ ControlInv'
  BY <1>4, ClosureSet DEF ApiSetObjectTaint
<1>5. CASE ApiClearTaint
  <2> DEFINE y == SetStackTaint(now, NULL)
  <2>1. y \in ThreadTaint
    BY <1>0, SetStackTaintTyped
  <2>2. Api(cur, [y EXCEPT !.newgc = NULL, !.newcl = NULL])
    BY <1>5 DEF ApiClearTaint
  <2> HIDE DEF y
  <2>3. [y EXCEPT !.newgc = NULL, !.newcl = NULL] \in ThreadTaint
    BY <2>1, ClearTaintTyped
  <2> QED
    BY <1>0, <2>2, <2>3, ApiQuiet
<1> QED
  BY <1>1, <1>2, <1>3, <1>4, <1>5, ApiResetStep DEF ExplicitStep

LEMMA EnvironmentStepTyped ==
  ASSUME Typed, ControlInv, EnvironmentStep
  PROVE  Typed' /\ ControlInv'
<1>0. now \in ThreadTaint /\ cur \in Thread
  BY NowTyped
<1>1. ASSUME NEW taint \in Taint, ForceInsecure(taint) \/ LoadString(taint)
      PROVE  Typed' /\ ControlInv'
  <2>1. SetStackTaint(now, taint) \in ThreadTaint
    BY <1>0, SetStackTaintTyped DEF TaintOrNull
  <2> QED
    BY <1>0, <1>1, <2>1, ApiQuiet DEF ForceInsecure, LoadString
<1>2. ASSUME NEW f \in Closure, GetFenv(f) PROVE Typed' /\ ControlInv'
  <2>1. TaintStack(now, clo[f]) \in ThreadTaint
    BY <1>0, TaintStackTyped DEF Typed
  <2> QED
    BY <1>0, <1>2, <2>1, ApiQuiet DEF GetFenv
<1>3. ASSUME NEW f \in Closure, SetFenv(f) PROVE Typed' /\ ControlInv'
  <2>1. TaintWith(now, clo[f]) \in TaintOrNull
    BY <1>0 DEF TaintWith, ThreadTaint, Typed
  <2>2. clo' = [clo EXCEPT ![f] = TaintWith(now, clo[f])] /\ UNCHANGED <<ts, ci, st, cstack, heap, ctl>>
    BY <1>3 DEF SetFenv
  <2> QED
    BY <2>1, <2>2, ClosureSet
<1> QED
  BY <1>1, <1>2, <1>3 DEF EnvironmentStep

-----------------------------------------------------------------------------
(* Part 8: the invariant.                                                  *)
LEMMA InitControl == Init => Typed /\ ControlInv
<1> SUFFICES ASSUME Init PROVE Typed /\ ControlInv
  OBVIOUS
<1>1. PICK rd, wr \in BOOLEAN :
        ts = [t \in Thread |-> SetTaintMode(PreinitTaint, rd /\ t = Main, wr /\ t = Main)]
  BY DEF Init
<1>2. ts \in [Thread -> ThreadTaint]
  BY <1>1, PreinitTyped, SetTaintModeTyped
<1> DEFINE b == BaseFrame(NULL)
           q == <<b>>
<1>3. b \in Frame /\ b.kind = "base" /\ b.ent = NULL
  BY SecureTyped DEF BaseFrame, Frame
<1> HIDE DEF b
<1>4. q \in Seq(Frame) /\ Len(q) = 1 /\ q[1] = b
  BY <1>3
<1>5. ci = [t \in Thread |-> q]
  BY DEF Init, q, b
<1> HIDE DEF q
<1>6. q \in GoodFrames
  <2>1. Len(q) >= 1 /\ \A i \in 1 .. Len(q) : GoodFrame(q, i)
    BY <1>3, <1>4 DEF GoodFrame
  <2> QED
    BY <1>4, <2>1 DEF GoodFrames
<1>7. heap \in [Cell -> Value] /\ clo \in [Closure -> TaintOrNull]
  BY SecureTyped DEF Init
<1>8. cstack = <<>> /\ Depth = 0 /\ ctl = "run"
  BY DEF Init, Depth
<1>9. st \in [Thread -> Status] /\ st[Main] = "live"
      /\ \A t \in Thread : st[t] \in {"live", "none"}
  BY ThreadAssumption DEF Init, Status
<1>10. Typed
  BY <1>2, <1>5, <1>6, <1>7, <1>8, <1>9 DEF Typed, Control
<1>11. \A t \in Thread : Len(ci[t]) = 1
  BY <1>4, <1>5
<1>12. Linking /\ Ordering /\ Heights /\ Statuses
  BY <1>8, <1>9 DEF Linking, Ordering, Heights, Statuses
<1>13. Callers /\ Suspended
  BY <1>9, <1>11 DEF Callers, Suspended
<1> QED
  BY <1>10, <1>12, <1>13 DEF ControlInv

LEMMA MovesStep ==
  ASSUME Typed, ControlInv, Move
  PROVE  Typed' /\ ControlInv'
  BY ReadStep, StoreStep, ComputeStep, NewClosureStep DEF Move

LEMMA CallsStep ==
  ASSUME Typed, ControlInv, CallStep
  PROVE  Typed' /\ ControlInv'
<1>1. ASSUME NEW f \in Closure, LuaCall(f) PROVE Typed' /\ ControlInv'
  BY <1>1, LuaCallsStep
<1>2. ASSUME NEW f \in Closure, TailCall(f) PROVE Typed' /\ ControlInv'
  BY <1>2, TailCallStep
<1>3. CASE CallC
  BY <1>3, LuaCallsStep
<1>4. ASSUME NEW f \in Callee, Call(f) \/ PCall(f) \/ SecureCall(f) \/ DelegateCall(f)
      PROVE  Typed' /\ ControlInv'
  BY <1>4, CCallsStep
<1>5. ASSUME NEW f \in Callee, NEW c \in Cell, PeekCall(c, f) PROVE Typed' /\ ControlInv'
  BY <1>5, CCallsStep
<1>6. ASSUME NEW f \in Callee, NEW c \in Cell, MetaCall(c, f) \/ Finalize(c, f) \/ CallHook(c, f)
      PROVE  Typed' /\ ControlInv'
  BY <1>6, VMCallsStep
<1> QED
  BY <1>1, <1>2, <1>3, <1>4, <1>5, <1>6 DEF CallStep

LEMMA ReturnsStep ==
  ASSUME Typed, ControlInv, ReturnStep
  PROVE  Typed' /\ ControlInv'
  BY ReturnToLuaStep, ReturnToCStep, CoReturnStep, CoCallReturnStep DEF ReturnStep

LEMMA CoroutinesStep ==
  ASSUME Typed, ControlInv, CoroutineStep
  PROVE  Typed' /\ ControlInv'
  BY ResumeFreshStep, ResumeYieldedStep, CoCreateStep, CoCallStep, YieldStep, FinishResumeStep
     DEF CoroutineStep

LEMMA StepControl == Typed /\ ControlInv /\ [Next]_vars => Typed' /\ ControlInv'
<1> SUFFICES ASSUME Typed, ControlInv, [Next]_vars PROVE Typed' /\ ControlInv'
  OBVIOUS
<1>1. CASE UNCHANGED vars
  BY <1>1, QuietStep DEF vars, Typed
<1>2. CASE Next
  BY <1>2, MovesStep, CallsStep, ReturnsStep, ErrorsStep, CoroutinesStep, ExplicitStepTyped,
     EnvironmentStepTyped DEF Next
<1> QED
  BY <1>1, <1>2

(* The CallInfos of a thread and the activations of the C stack fit         *)
(* together after any sequence of luaD_precall, luaD_poscall, luaD_throw   *)
(* and lua_resume: every activation has its frames above its caller's, and *)
(* a coroutine waits in a yield only below nothing of its own.             *)
THEOREM StacksAreTyped == Spec => [](Typed /\ ControlInv)
  BY InitControl, StepControl, PTL DEF Spec

LEMMA TypedTypeOK == Typed => TypeOK
  BY DEF Typed, TypeOK, GoodFrames

(* Every variable keeps its type: no return, unwinding or resume reads a   *)
(* CallInfo that luaD_precall did not push.                                *)
THEOREM TypesAreKept == Spec => []TypeOK
  BY StacksAreTyped, TypedTypeOK, PTL

LEMMA TypedSavedTaint == Typed => SavedTaintIsSet
<1> SUFFICES ASSUME Typed, NEW t \in Thread, NEW i \in DOMAIN ci[t], i < Len(ci[t])
             PROVE  ci[t][i].sav # "uninit"
  BY DEF SavedTaintIsSet
<1>1. ci[t] \in GoodFrames
  BY DEF Typed
<1>2. i \in 1 .. Len(ci[t])
  BY <1>1 DEF GoodFrames
<1> QED
  BY <1>1, <1>2 DEF GoodFrames, GoodFrame

(* lua_getcalltaint never reads a savedtaint that luaD_precall left unset: *)
(* it has been written in every CallInfo below L->ci, also after a tail    *)
(* call has copied an unset one.                                           *)
THEOREM SavedTaintIsInitialised == Spec => []SavedTaintIsSet
  BY StacksAreTyped, TypedSavedTaint, PTL
-----------------------------------------------------------------------------
(* Part 9: the cached write taint.                                         *)

(* The taint fields of a thread are a record whose writetaint is what the  *)
(* mode and the stack taint say.  Nothing is assumed of the values the     *)
(* fields hold, so no other variable has to be known.                      *)
Coherent(x) ==
    /\ {"rd", "wr", "stack", "write", "fixed", "newgc", "newcl"} \subseteq DOMAIN x
    /\ x.write = IF x.wr THEN x.stack ELSE NULL

(* It is inductive.                                                        *)
CoherentInv ==
    /\ Thread \subseteq DOMAIN ts
    /\ \A t \in Thread : Coherent(ts[t])

(* The primitives of lsec.h.                                               *)
LEMMA PreinitCoherent == Coherent(PreinitTaint)
  BY DEF Coherent, PreinitTaint

LEMMA SetTaintModeCoherent ==
  ASSUME NEW x, Coherent(x), NEW rd, NEW wr
  PROVE  Coherent(SetTaintMode(x, rd, wr))
  BY DEF Coherent, SetTaintMode

LEMMA SetStackTaintCoherent ==
  ASSUME NEW x, Coherent(x), NEW taint
  PROVE  Coherent(SetStackTaint(x, taint))
  BY DEF Coherent, SetStackTaint

LEMMA TaintStackCoherent ==
  ASSUME NEW x, Coherent(x), NEW taint
  PROVE  Coherent(TaintStack(x, taint))
  BY SetStackTaintCoherent DEF TaintStack

(* The three fields that have no part in writetaint.                       *)
LEMMA FieldCoherent ==
  ASSUME NEW x, Coherent(x), NEW v
  PROVE  /\ Coherent([x EXCEPT !.fixed = v])
         /\ Coherent([x EXCEPT !.newgc = v])
         /\ Coherent([x EXCEPT !.newcl = v])
  BY DEF Coherent

LEMMA NewTaintsCoherent ==
  ASSUME NEW x, Coherent(x), NEW v, NEW w
  PROVE  Coherent([x EXCEPT !.newgc = v, !.newcl = w])
  BY DEF Coherent

(* A barrier or a thread gives back any saved context coherently.          *)
LEMMA LoadTaintCoherent ==
  ASSUME NEW x, Coherent(x), NEW saved
  PROVE  Coherent(LoadTaint(x, saved))
  BY SetTaintModeCoherent, SetStackTaintCoherent, NewTaintsCoherent DEF LoadTaint

LEMMA TaintThreadCoherent ==
  ASSUME NEW x, Coherent(x), NEW from
  PROVE  Coherent(TaintThread(x, from))
  BY LoadTaintCoherent DEF TaintThread

(* What the interpreter builds from them.                                  *)
LEMMA ReenterCoherent ==
  ASSUME NEW x, Coherent(x), NEW taint
  PROVE  Coherent(Unpin(x)) /\ Coherent(Reenter(x, taint))
  BY FieldCoherent, TaintStackCoherent DEF Unpin, Reenter

LEMMA EnteredCoherent ==
  ASSUME NEW x, Coherent(x), NEW f, NEW v
  PROVE  Coherent(Entered(x, f, v))
  BY ReenterCoherent, TaintStackCoherent DEF Entered

LEMMA AfterMoveCoherent ==
  ASSUME Coherent(now), NEW wanted
  PROVE  Coherent(AfterMove(wanted))
  BY ReenterCoherent, TaintStackCoherent DEF AfterMove

LEMMA ResumedCoherent ==
  ASSUME NEW x, Coherent(x), NEW a
  PROVE  Coherent(Resumed(a, x))
  BY LoadTaintCoherent, FieldCoherent DEF Resumed

-----------------------------------------------------------------------------
(* Steps change the fields of one thread or of two.                        *)
LEMMA UpdateOne ==
  ASSUME CoherentInv, NEW t, NEW x, t \in Thread => Coherent(x),
         ts' = [ts EXCEPT ![t] = x]
  PROVE  CoherentInv'
  BY DEF CoherentInv

LEMMA UpdateTwo ==
  ASSUME CoherentInv, NEW t, NEW x, t \in Thread => Coherent(x),
         NEW u, NEW y, u \in Thread => Coherent(y),
         ts' = [ts EXCEPT ![t] = x, ![u] = y]
  PROVE  CoherentInv'
  BY DEF CoherentInv

LEMMA NowCoherent ==
  ASSUME CoherentInv
  PROVE  cur \in Thread => Coherent(now)
  BY DEF CoherentInv, now

LEMMA PrecallCoherent ==
  ASSUME CoherentInv, NEW t, NEW x, t \in Thread => Coherent(x), NEW f, NEW v,
         Precall(t, x, f, v)
  PROVE  CoherentInv'
  BY EnteredCoherent, UpdateOne DEF Precall

LEMMA HandOverCoherent ==
  ASSUME CoherentInv, NEW to, NEW from, NEW x, from \in Thread => Coherent(x), NEW v,
         ts' = HandOver(to, from, x, v)
  PROVE  CoherentInv'
<1>1. CASE to = from
  BY <1>1, UpdateOne DEF HandOver
<1>2. CASE to # from
  <2>1. to \in Thread => Coherent(TaintStack(TaintThread(ts[to], x), v.taint))
    BY TaintThreadCoherent, TaintStackCoherent DEF CoherentInv
  <2> QED
    BY <1>2, <2>1, UpdateTwo DEF HandOver
<1> QED
  BY <1>1, <1>2

(* The barriers an error crosses, and the one that catches it, reload      *)
(* saved contexts.                                                         *)
LEMMA CatchCoherent ==
  ASSUME CoherentInv, NEW k, NEW x, cur \in Thread => Coherent(x), NEW err,
         Catch(k, x, err)
  PROVE  CoherentInv'
<1> DEFINE caught == TaintStack(Unpin(x), err.taint)
<1>1. cur \in Thread => Coherent(caught)
  BY ReenterCoherent, TaintStackCoherent
<1>2. cur \in Thread => Coherent(LoadTaint(caught, cstack[k].saved))
  BY <1>1, LoadTaintCoherent
<1>3. \/ ts' = [ts EXCEPT ![cur] = caught]
      \/ ts' = [ts EXCEPT ![cur] = LoadTaint(caught, cstack[k].saved)]
      \/ ts' = HandOver(cstack[k].from, cur, caught, Moved(Unpin(x), err))
      \/ ts' = [ts EXCEPT ![cur] = x]
  BY DEF Catch
<1> HIDE DEF caught
<1> QED
  BY <1>1, <1>2, <1>3, UpdateOne, HandOverCoherent

LEMMA ThrowCoherent ==
  ASSUME CoherentInv, NEW v, Throw(v)
  PROVE  CoherentInv'
<1>1. PICK k \in DOMAIN cstack :
        \/ Catch(k, now, v)
        \/ \E r, err : Catch(k, LoadTaint(now, cstack[r].saved), err)
  BY DEF Throw
<1> QED
  BY <1>1, NowCoherent, LoadTaintCoherent, CatchCoherent
-----------------------------------------------------------------------------
(* Every action keeps the write taint of every thread up to date.          *)
LEMMA MoveCoherent ==
  ASSUME CoherentInv, Move
  PROVE  CoherentInv'
<1>1. ASSUME NEW c \in Cell, Read(c) PROVE CoherentInv'
  BY <1>1, NowCoherent, TaintStackCoherent, UpdateOne DEF Read
<1>2. ASSUME UNCHANGED ts PROVE CoherentInv'
  BY <1>2 DEF CoherentInv
<1> QED
  BY <1>1, <1>2 DEF Move, Store, Compute, NewClosure

LEMMA CallFromCCoherent ==
  ASSUME CoherentInv, NEW how, NEW x, cur \in Thread => Coherent(x), NEW f, NEW v,
         CallFromC(how, x, f, v)
  PROVE  CoherentInv'
  BY PrecallCoherent DEF CallFromC

LEMMA CallStepCoherent ==
  ASSUME CoherentInv, CallStep
  PROVE  CoherentInv'
<1>1. \A taint : cur \in Thread => /\ Coherent(now)
                                   /\ Coherent(TaintStack(now, taint))
                                   /\ Coherent(SetStackTaint(now, taint))
                                   /\ Coherent(TaintStack(Unpin(now), taint))
  BY NowCoherent, TaintStackCoherent, SetStackTaintCoherent, ReenterCoherent
<1>2. ASSUME NEW f \in Closure, LuaCall(f) PROVE CoherentInv'
  BY <1>1, <1>2, PrecallCoherent DEF LuaCall
<1>3. ASSUME NEW f \in Closure, TailCall(f) PROVE CoherentInv'
  <2> DEFINE x == TaintStack(now, top.val.taint)
             v == Moved(now, top.val)
             y == Reenter(TaintStack(Unpin(x), v.taint), clo[f])
  <2>1. cur \in Thread => Coherent(y)
    BY <1>1, ReenterCoherent, TaintStackCoherent
  <2>2. ts' = [ts EXCEPT ![cur] = y]
    BY <1>3 DEF TailCall
  <2> QED
    BY <2>1, <2>2, UpdateOne
<1>4. ASSUME CallC PROVE CoherentInv'
  BY <1>1, <1>4, PrecallCoherent DEF CallC
<1>5. ASSUME NEW f \in Callee, Call(f) \/ PCall(f) \/ SecureCall(f) PROVE CoherentInv'
  BY <1>1, <1>5, CallFromCCoherent DEF Call, PCall, SecureCall
<1>6. ASSUME NEW f \in Callee, DelegateCall(f) PROVE CoherentInv'
  BY <1>1, <1>6, CallFromCCoherent DEF DelegateCall
<1>7. ASSUME NEW f \in Callee, NEW c \in Cell, PeekCall(c, f) PROVE CoherentInv'
  BY <1>1, <1>7, CallFromCCoherent, TaintStackCoherent DEF PeekCall
<1>8. ASSUME NEW f \in Callee, NEW c \in Cell, MetaCall(c, f) \/ Finalize(c, f) \/ CallHook(c, f)
      PROVE  CoherentInv'
  BY <1>1, <1>8, PrecallCoherent DEF MetaCall, Finalize, CallHook
<1> QED
  BY <1>2, <1>3, <1>4, <1>5, <1>6, <1>7, <1>8 DEF CallStep

LEMMA ReturnStepCoherent ==
  ASSUME CoherentInv, ReturnStep
  PROVE  CoherentInv'
<1>1. \A wanted : cur \in Thread => Coherent(AfterMove(wanted))
  BY NowCoherent, AfterMoveCoherent
<1>2. ASSUME NEW wanted \in BOOLEAN, ReturnToLua(wanted) PROVE CoherentInv'
  BY <1>1, <1>2, ReenterCoherent, UpdateOne DEF ReturnToLua
<1>3. ASSUME NEW wanted \in BOOLEAN, ReturnToC(wanted) PROVE CoherentInv'
  BY <1>1, <1>3, ResumedCoherent, UpdateOne DEF ReturnToC
<1>4. ASSUME NEW wanted \in BOOLEAN, CoReturn(wanted) PROVE CoherentInv'
  BY <1>1, <1>4, UpdateOne DEF CoReturn
<1>5. ASSUME NEW wanted \in BOOLEAN, CoCallReturn(wanted) PROVE CoherentInv'
  <2>1. PICK v : ts' = HandOver(Last(cstack).from, cur, AfterMove(wanted), v)
    BY <1>5 DEF CoCallReturn
  <2> QED
    BY <1>1, <2>1, HandOverCoherent
<1> QED
  BY <1>2, <1>3, <1>4, <1>5 DEF ReturnStep

LEMMA CoroutineStepCoherent ==
  ASSUME CoherentInv, CoroutineStep
  PROVE  CoherentInv'
<1>1. \A t, from : t \in Thread => Coherent(TaintThread(ts[t], from))
  BY TaintThreadCoherent DEF CoherentInv
<1>2. ASSUME NEW co \in Thread, ResumeFresh(co) PROVE CoherentInv'
  BY <1>1, <1>2, PrecallCoherent DEF ResumeFresh
<1>3. ASSUME NEW co \in Thread, NEW given \in BOOLEAN, ResumeYielded(co, given)
      PROVE  CoherentInv'
  <2> DEFINE x == TaintThread(ts[co], now)
             v == IF given THEN Moved(ts[co], top.val) ELSE Labelled(x.write)
             y == Reenter(TaintStack(Unpin(x), v.taint), clo[Last(Front(ci[co])).fn])
  <2>1. Coherent(y)
    BY <1>1, ReenterCoherent, TaintStackCoherent
  <2>2. ts' = [ts EXCEPT ![co] = y]
    BY <1>3 DEF ResumeYielded
  <2> QED
    BY <2>1, <2>2, UpdateOne
<1>4. ASSUME NEW co \in Thread, NEW f \in Closure, CoCreate(co, f) PROVE CoherentInv'
  BY <1>4, PreinitCoherent, TaintThreadCoherent, TaintStackCoherent, UpdateOne DEF CoCreate
<1>5. ASSUME NEW to \in Thread, NEW f \in Callee, CoCall(to, f) PROVE CoherentInv'
  <2> DEFINE x == IF to = cur THEN now
                  ELSE TaintStack(TaintThread(ts[to], now), top.val.taint)
  <2>1. Coherent(x)
    BY <1>1, NowCoherent, TaintStackCoherent
  <2>2. PICK v : Precall(to, x, f, v)
    BY <1>5 DEF CoCall
  <2> QED
    BY <2>1, <2>2, PrecallCoherent
<1>6. ASSUME Yield PROVE CoherentInv'
  BY <1>6 DEF Yield, CoherentInv
<1>7. ASSUME FinishResume PROVE CoherentInv'
  <2> DEFINE a == Last(cstack)
             v == IF ctl = "failed" THEN Moved(Unpin(now), top.val) ELSE top.val
             x == TaintStack(TaintThread(ts[a.from], now), v.taint)
             y == IF ctl = "failed" THEN TaintStack(Unpin(now), top.val.taint) ELSE now
  <2>1. a.from \in Thread => Coherent(x)
    BY <1>1, TaintStackCoherent
  <2>2. cur \in Thread => Coherent(y)
    BY NowCoherent, ReenterCoherent, TaintStackCoherent
  <2>3. ts' = [ts EXCEPT ![a.from] = x, ![cur] = y]
    BY <1>7 DEF FinishResume
  <2> QED
    BY <2>1, <2>2, <2>3, UpdateTwo
<1> QED
  BY <1>2, <1>3, <1>4, <1>5, <1>6, <1>7 DEF CoroutineStep

LEMMA ApiStepCoherent ==
  ASSUME CoherentInv, ErrorStep \/ ExplicitStep \/ EnvironmentStep
  PROVE  CoherentInv'
<1>1. ASSUME NEW t, NEW x, t \in Thread => Coherent(x), Api(t, x) PROVE CoherentInv'
  BY <1>1, UpdateOne DEF Api
<1>2. ASSUME UNCHANGED ts PROVE CoherentInv'
  BY <1>2 DEF CoherentInv
<1>3. CASE ErrorStep
  BY <1>3, ThrowCoherent DEF ErrorStep, LuaError, CError, Rethrow
<1>4. CASE EnvironmentStep
  BY <1>1, <1>2, <1>4, NowCoherent, SetStackTaintCoherent, TaintStackCoherent
     DEF EnvironmentStep, ForceInsecure, LoadString, GetFenv, SetFenv
<1>5. CASE ExplicitStep
  <2>1. ASSUME NEW t \in Thread, NEW taint,
               \/ ApiSetStackTaint(t, taint)
               \/ ApiSetNewGCTaint(t, taint)
               \/ ApiSetNewClosureTaint(t, taint)
        PROVE  CoherentInv'
    <3>1. /\ Coherent(SetStackTaint(ts[t], taint))
          /\ Coherent([ts[t] EXCEPT !.newgc = taint])
          /\ Coherent([ts[t] EXCEPT !.newcl = taint])
      BY SetStackTaintCoherent, FieldCoherent DEF CoherentInv
    <3> QED
      BY <1>1, <2>1, <3>1 DEF ApiSetStackTaint, ApiSetNewGCTaint, ApiSetNewClosureTaint
  <2>2. ASSUME NEW rd, NEW wr, ApiSetTaintMode(rd, wr) PROVE CoherentInv'
    BY <1>1, <2>2, NowCoherent, SetTaintModeCoherent DEF ApiSetTaintMode
  <2>3. CASE ApiClearTaint
    BY <1>1, <2>3, NowCoherent, SetStackTaintCoherent, NewTaintsCoherent DEF ApiClearTaint
  <2>4. CASE ApiResetTaint
    BY <2>4, NowCoherent, SetTaintModeCoherent, SetStackTaintCoherent, NewTaintsCoherent,
       UpdateOne DEF ApiResetTaint
  <2> QED
    BY <1>2, <1>5, <2>1, <2>2, <2>3, <2>4
       DEF ExplicitStep, ApiSetValueTaint, ApiSetObjectTaint
<1> QED
  BY <1>3, <1>4, <1>5

(* L->writetaint is never out of date: in every thread, whatever the       *)
(* program, its coroutines, errors, finalizers, hooks and the taint API    *)
(* do, it is the stack taint if writes are tracked and NULL otherwise.     *)
THEOREM WriteTaintIsCoherent == Spec => []WriteTaintCoherent
<1>1. Init => CoherentInv
  <2> SUFFICES ASSUME Init PROVE CoherentInv
    OBVIOUS
  <2>1. PICK rd, wr \in BOOLEAN :
          ts = [t \in Thread |-> SetTaintMode(PreinitTaint, rd /\ t = Main, wr /\ t = Main)]
    BY DEF Init
  <2> QED
    BY <2>1, PreinitCoherent, SetTaintModeCoherent DEF CoherentInv
<1>2. CoherentInv /\ [Next]_vars => CoherentInv'
  <2> SUFFICES ASSUME CoherentInv, [Next]_vars PROVE CoherentInv'
    OBVIOUS
  <2>1. CASE UNCHANGED vars
    BY <2>1 DEF vars, CoherentInv
  <2> QED
    BY <2>1, MoveCoherent, CallStepCoherent, ReturnStepCoherent, CoroutineStepCoherent,
       ApiStepCoherent DEF Next
<1>3. CoherentInv => WriteTaintCoherent
  BY DEF CoherentInv, Coherent, WriteTaintCoherent
<1> QED
  BY <1>1, <1>2, <1>3, PTL DEF Spec

-----------------------------------------------------------------------------
(* Part 10: the taint fields x are context c, or what reading tainted      *)
(* values in context c can make of it.                                     *)
Picks(c, x) == x \in ThreadTaint /\ SaveTaint(x) \in Abstract!Tainted(c)

Same(x, y) == \A g \in {"rd", "wr", "stack", "newgc", "newcl"} : x[g] = y[g]

LEMMA SaveSame ==
  ASSUME NEW x \in ThreadTaint, NEW y \in ThreadTaint, Same(x, y)
  PROVE  SaveTaint(x) = SaveTaint(y)
<1>1. x.rd = y.rd /\ x.wr = y.wr /\ x.stack = y.stack /\ x.newgc = y.newgc /\ x.newcl = y.newcl
  BY DEF Same
<1> QED
  BY <1>1 DEF SaveTaint

LEMMA PicksSelf ==
  ASSUME NEW x \in ThreadTaint
  PROVE  Picks(SaveTaint(x), x)
  BY DEF Picks, Abstract!Tainted

LEMMA PicksSame ==
  ASSUME NEW c, NEW x, Picks(c, x), NEW y \in ThreadTaint, Same(x, y)
  PROVE  Picks(c, y)
  BY SaveSame DEF Picks

LEMMA PicksRead ==
  ASSUME NEW c \in Context, NEW x, Picks(c, x), NEW t \in TaintOrNull
  PROVE  Picks(c, TaintStack(x, t))
<1> DEFINE y == SetStackTaint(x, t)
<1>1. x \in ThreadTaint /\ TaintStack(x, t) \in ThreadTaint
  BY TaintStackTyped DEF Picks
<1>2. CASE TaintStack(x, t) = x
  BY <1>2
<1>3. CASE TaintStack(x, t) # x
  <2>1. t \in Taint /\ x.rd /\ TaintStack(x, t) = y
    BY <1>3 DEF TaintStack, TaintOrNull
  <2>2. SaveTaint(y) = [SaveTaint(x) EXCEPT !.stack = t]
    BY <1>1 DEF SaveTaint, SetStackTaint, ThreadTaint
  <2>3. SaveTaint(x).rd
    BY <2>1 DEF SaveTaint
  <2>4. SaveTaint(x) = c \/ (c.rd /\ \E u \in Taint : SaveTaint(x) = [c EXCEPT !.stack = u])
    BY DEF Picks, Abstract!Tainted
  <2>5. c.rd /\ SaveTaint(y) = [c EXCEPT !.stack = t]
    BY <2>2, <2>3, <2>4 DEF Context
  <2>6. SaveTaint(y) \in Abstract!Tainted(c)
    BY <2>1, <2>5 DEF Abstract!Tainted
  <2> QED
    BY <1>1, <2>1, <2>6 DEF Picks
<1> QED
  BY <1>2, <1>3

LEMMA PicksPin ==
  ASSUME NEW c, NEW x, Picks(c, x), NEW p \in TaintOrNull
  PROVE  Picks(c, [x EXCEPT !.fixed = p]) /\ Picks(c, Unpin(x))
<1>1. x \in ThreadTaint
  BY DEF Picks
<1>2. [x EXCEPT !.fixed = p] \in ThreadTaint /\ Unpin(x) \in ThreadTaint
  BY <1>1, UnpinTyped DEF ThreadTaint
<1>3. Same(x, [x EXCEPT !.fixed = p]) /\ Same(x, Unpin(x))
  BY <1>1 DEF Same, Unpin, ThreadTaint
<1> QED
  BY <1>2, <1>3, PicksSame

LEMMA PicksReenter ==
  ASSUME NEW c \in Context, NEW x, Picks(c, x), NEW t \in TaintOrNull
  PROVE  Picks(c, Reenter(x, t))
  BY PicksPin, PicksRead DEF Reenter

LEMMA PicksEntered ==
  ASSUME Typed, NEW c \in Context, NEW x, Picks(c, x), NEW f \in Callee, NEW v \in Value
  PROVE  Picks(c, Entered(x, f, v))
<1>1. v.taint \in TaintOrNull /\ NULL \in TaintOrNull
  BY DEF Value, TaintOrNull
<1>2. CASE f = NULL
  BY <1>1, <1>2, PicksPin DEF Entered
<1>3. CASE f # NULL
  <2>1. clo[f] \in TaintOrNull
    BY <1>3 DEF Typed, Callee
  <2>2. Picks(c, TaintStack(Unpin(x), v.taint))
    BY <1>1, PicksPin, PicksRead
  <2>3. Picks(c, IF f \in Vararg THEN TaintStack(Unpin(x), v.taint) ELSE x)
    BY <2>2
  <2> QED
    BY <1>3, <2>1, <2>3, PicksReenter DEF Entered
<1> QED
  BY <1>2, <1>3

LEMMA PicksLoad ==
  ASSUME NEW x \in ThreadTaint, NEW c \in Context
  PROVE  SaveTaint(LoadTaint(x, c)) = c /\ Picks(c, LoadTaint(x, c))
<1>1. LoadTaint(x, c) \in ThreadTaint
  BY LoadTaintTyped
<1>2. SaveTaint(LoadTaint(x, c)) = c
  BY DEF SaveTaint, LoadTaint, SetStackTaint, SetTaintMode, ThreadTaint, Context
<1> QED
  BY <1>1, <1>2, PicksSelf

LEMMA PicksThread ==
  ASSUME NEW c, NEW x \in ThreadTaint, NEW y, Picks(c, y)
  PROVE  Picks(c, TaintThread(x, y))
<1>1. y \in ThreadTaint /\ SaveTaint(y) \in Context
  BY SaveTaintTyped DEF Picks
<1>2. SaveTaint(TaintThread(x, y)) = SaveTaint(y) /\ TaintThread(x, y) \in ThreadTaint
  BY <1>1, PicksLoad, LoadTaintTyped DEF TaintThread
<1> QED
  BY <1>2 DEF Picks

LEMMA PicksHandOver ==
  ASSUME Typed, NEW c \in Context, NEW x, Picks(c, x), NEW v \in Value,
         NEW to \in Thread, NEW from \in Thread
  PROVE  Picks(c, HandOver(to, from, x, v)[to])
<1>1. v.taint \in TaintOrNull /\ ts[to] \in ThreadTaint
  BY DEF Value, Typed
<1>2. CASE to = from
  <2>1. HandOver(to, from, x, v)[to] = x
    BY <1>2 DEF HandOver, Typed
  <2> QED
    BY <2>1
<1>3. CASE to # from
  <2>1. HandOver(to, from, x, v)[to] = TaintStack(TaintThread(ts[to], x), v.taint)
    BY <1>3 DEF HandOver, Typed
  <2> QED
    BY <1>1, <2>1, PicksThread, PicksRead
<1> QED
  BY <1>2, <1>3
-----------------------------------------------------------------------------
(* Part 11: the steps of the context.                                      *)
Ctx == SaveTaint(now)
Saves == [k \in OpenBarriers |-> cstack[k].saved]
PicksNow(c) == Picks(c, ts'[cur'])

LEMMA CtxTyped ==
  ASSUME Typed
  PROVE  Ctx \in Context /\ Picks(Ctx, now) /\ now \in ThreadTaint
  BY NowTyped, SaveTaintTyped, PicksSelf DEF Ctx

LEMMA BarriersAre ==
  ASSUME Typed
  PROVE  /\ OpenBarriers = {k \in 1 .. Depth : cstack[k].how \in Barriers}
         /\ \A k \in OpenBarriers : cstack[k].saved \in Context
  BY CurIs DEF Typed, OpenBarriers, Activation

(* The steps that no explicit API call makes.                              *)
Automatic == Abstract!Read \/ Abstract!Enter \/ Abstract!Leave \/ Abstract!Raise

LEMMA AsRead ==
  ASSUME Saves' = Saves, PicksNow(Ctx)
  PROVE  Automatic
<1>1. Abstract!Read
  BY DEF Abstract!Read, PicksNow, Picks, Ctx, Saves, now
<1> QED
  BY <1>1 DEF Automatic

LEMMA QuietSaves ==
  ASSUME UNCHANGED cstack
  PROVE  Saves' = Saves /\ cur' = cur
  BY DEF Saves, OpenBarriers, cur

(* The C stack grows by an activation that is no barrier.                  *)
LEMMA CallSaves ==
  ASSUME Typed, NEW a \in Activation, Enters(a), a.how \notin Barriers
  PROVE  Saves' = Saves
<1>1. /\ cstack' \in Seq(Activation) /\ Depth' = Depth + 1 /\ Depth \in Nat
      /\ \A k \in 1 .. Depth : cstack'[k] = cstack[k]
      /\ cstack'[Depth + 1] = a
  BY Appended, ControlTyped DEF Typed
<1>2. OpenBarriers = {k \in 1 .. Depth : cstack[k].how \in Barriers}
  BY BarriersAre
<1>3. DOMAIN cstack' = 1 .. Depth + 1
  BY <1>1 DEF Depth
<1>4. OpenBarriers' = {k \in 1 .. Depth + 1 : cstack'[k].how \in Barriers}
  BY <1>3 DEF OpenBarriers
<1>5. OpenBarriers' = OpenBarriers
  BY <1>1, <1>2, <1>4
<1>6. \A k \in OpenBarriers : cstack'[k] = cstack[k]
  BY <1>1, <1>2
<1> QED
  BY <1>5, <1>6 DEF Saves

LEMMA AsEnter ==
  ASSUME Typed, NEW a \in Activation, Enters(a), a.how \in Barriers, a.saved = Ctx,
         Depth < MaxC, PicksNow(Ctx) \/ PicksNow([Ctx EXCEPT !.stack = NULL])
  PROVE  Automatic
<1>1. /\ cstack' \in Seq(Activation) /\ Depth' = Depth + 1 /\ Depth \in Nat
      /\ \A k \in 1 .. Depth : cstack'[k] = cstack[k]
      /\ cstack'[Depth + 1] = a
  BY Appended, ControlTyped DEF Typed
<1>2. OpenBarriers = {k \in 1 .. Depth : cstack[k].how \in Barriers}
  BY BarriersAre
<1>3. DOMAIN cstack' = 1 .. Depth + 1
  BY <1>1 DEF Depth
<1>4. OpenBarriers' = {k \in 1 .. Depth + 1 : cstack'[k].how \in Barriers}
  BY <1>3 DEF OpenBarriers
<1>5. OpenBarriers' = OpenBarriers \cup {Depth + 1}
  BY <1>1, <1>2, <1>4
<1>6. \A k \in OpenBarriers : cstack'[k] = cstack[k] /\ k < Depth + 1
  BY <1>1, <1>2
<1>7. Saves' = [k \in OpenBarriers \cup {Depth + 1} |-> IF k = Depth + 1 THEN Ctx ELSE Saves[k]]
  BY <1>1, <1>5, <1>6 DEF Saves
<1>8. Depth + 1 \in 1 .. MaxC
  BY <1>1, BoundAssumption
<1>9. Ctx' \in Abstract!Tainted(Ctx) \cup Abstract!Tainted([Ctx EXCEPT !.stack = NULL])
  BY DEF PicksNow, Picks, Ctx, now
<1>10. DOMAIN Saves = OpenBarriers
  BY DEF Saves
<1>11. Abstract!Enter
  BY <1>6, <1>7, <1>8, <1>9, <1>10 DEF Abstract!Enter, Saves, Ctx
<1> QED
  BY <1>11 DEF Automatic

(* The C stack shrinks, by no barrier.                                     *)
LEMMA LeftSaves ==
  ASSUME Typed, NEW n \in 0 .. Depth, Left(n), \A k \in n + 1 .. Depth : cstack[k].how \notin Barriers
  PROVE  Saves' = Saves
<1>1. /\ cstack' \in Seq(Activation) /\ Depth' = n /\ n \in Nat
      /\ \A k \in 1 .. n : cstack'[k] = cstack[k] /\ Depth \in Nat
  BY Unwound, ControlTyped DEF Typed
<1>2. OpenBarriers = {k \in 1 .. Depth : cstack[k].how \in Barriers}
  BY BarriersAre
<1>3. DOMAIN cstack' = 1 .. n
  BY <1>1 DEF Depth
<1>4. OpenBarriers' = {k \in 1 .. n : cstack'[k].how \in Barriers}
  BY <1>3 DEF OpenBarriers
<1>5. \A k \in 1 .. Depth : k \in 1 .. n \/ k \in n + 1 .. Depth
  BY <1>1
<1>6. \A k \in 1 .. n : k \in 1 .. Depth
  BY <1>1
<1>7. OpenBarriers' = OpenBarriers
  BY <1>1, <1>2, <1>4, <1>5, <1>6
<1>8. \A k \in OpenBarriers : cstack'[k] = cstack[k]
  BY <1>1, <1>2, <1>5
<1> QED
  BY <1>7, <1>8 DEF Saves

LEMMA AsLeave ==
  ASSUME Typed, NEW n \in 0 .. Depth, Left(n), NEW r \in OpenBarriers, n < r,
         \A k \in n + 1 .. r - 1 : cstack[k].how \notin Barriers,
         PicksNow(cstack[r].saved)
  PROVE  Automatic
<1>1. /\ cstack' \in Seq(Activation) /\ Depth' = n /\ n \in Nat
      /\ \A k \in 1 .. n : cstack'[k] = cstack[k] /\ Depth \in Nat
  BY Unwound, ControlTyped DEF Typed
<1>2. OpenBarriers = {k \in 1 .. Depth : cstack[k].how \in Barriers}
  BY BarriersAre
<1>3. DOMAIN cstack' = 1 .. n
  BY <1>1 DEF Depth
<1>4. OpenBarriers' = {k \in 1 .. n : cstack'[k].how \in Barriers}
  BY <1>3 DEF OpenBarriers
<1>5. \A k \in 1 .. Depth : k < r <=> k \in 1 .. n \/ k \in n + 1 .. r - 1
  BY <1>1, <1>2
<1>6. \A k \in 1 .. n : k \in 1 .. Depth
  BY <1>1
<1>7. OpenBarriers' = {k \in OpenBarriers : k < r}
  BY <1>1, <1>2, <1>4, <1>5, <1>6
<1>8. \A k \in OpenBarriers' : cstack'[k] = cstack[k] /\ k \in OpenBarriers
  BY <1>1, <1>4, <1>7
<1>9. DOMAIN Saves = OpenBarriers /\ Saves[r] = cstack[r].saved
  BY DEF Saves
<1>10. Saves' = [k \in {i \in DOMAIN Saves : i < r} |-> Saves[k]]
  BY <1>7, <1>8, <1>9 DEF Saves
<1>11. Ctx' \in Abstract!Tainted(Saves[r])
  BY <1>9 DEF PicksNow, Picks, Ctx, now
<1>12. Abstract!Leave
  BY <1>9, <1>10, <1>11 DEF Abstract!Leave, Saves, Ctx
<1> QED
  BY <1>12 DEF Automatic

LEMMA AsSet ==
  ASSUME Typed, ts'[cur] \in ThreadTaint, UNCHANGED cstack,
         Lib \cap {"settaint", "settaintmode", "setnewtaint"} # {}
  PROVE  Abstract!Next
<1>1. Ctx' \in Context /\ Saves' = Saves
  BY QuietSaves, SaveTaintTyped DEF Ctx, now
<1>2. Context = Abstract!Context
  BY DEF Context, Abstract!Context, TaintOrNull, Abstract!TaintOrNull
<1>3. Abstract!Set
  BY <1>1, <1>2 DEF Abstract!Set, Ctx, Saves
<1> QED
  BY <1>3 DEF Abstract!Next

LEMMA AsRaise ==
  ASSUME Typed, UNCHANGED cstack, NEW t \in Taint, ts'[cur] = SetStackTaint(now, t),
         Lib \cap {"forceinsecure", "loadstring"} # {}
  PROVE  Automatic
<1>1. Saves' = Saves /\ now' = SetStackTaint(now, t)
  BY QuietSaves DEF now
<1>2. SaveTaint(SetStackTaint(now, t)) = [Ctx EXCEPT !.stack = t]
  BY DEF Ctx, SaveTaint, SetStackTaint
<1>3. Abstract!Raise
  BY <1>1, <1>2 DEF Abstract!Raise, Ctx, Saves
<1> QED
  BY <1>3 DEF Automatic
-----------------------------------------------------------------------------
(* Part 12: data movement and calls.                                       *)
LEMMA AsQuiet ==
  ASSUME UNCHANGED cstack, Picks(Ctx, ts'[cur])
  PROVE  Automatic
  BY QuietSaves, AsRead DEF PicksNow

LEMMA AsUnchanged ==
  ASSUME Typed, UNCHANGED <<ts, cstack>>
  PROVE  Automatic
  BY CtxTyped, AsQuiet DEF now

LEMMA MoveContext ==
  ASSUME Typed, Move
  PROVE  Automatic
<1>1. ASSUME NEW c \in Cell, Read(c) PROVE Automatic
  <2>1. UNCHANGED cstack /\ Tainted(cur, TaintStack(now, heap[c].taint))
    BY <1>1 DEF Read, Tainted
  <2>2. heap[c].taint \in TaintOrNull /\ cur \in Thread
    BY <1>1, PassedOn, NowTyped
  <2>3. Picks(Ctx, TaintStack(now, heap[c].taint))
    BY <2>2, CtxTyped, PicksRead
  <2>4. ts'[cur] = TaintStack(now, heap[c].taint)
    BY <2>1, <2>2, <2>3, TaintedIs DEF Picks
  <2> QED
    BY <2>1, <2>3, <2>4, AsQuiet
<1>2. CASE ~ \E c \in Cell : Read(c)
  BY <1>2, AsUnchanged DEF Move, Store, Compute, NewClosure
<1> QED
  BY <1>1, <1>2

(* A call of a Lua or C function by a Lua frame.                           *)
LEMMA LuaCallContext ==
  ASSUME Typed, NEW f \in Callee, UNCHANGED cstack,
         Precall(cur, TaintStack(now, top.val.taint), f, Moved(now, top.val))
  PROVE  Automatic
<1>1. /\ TaintStack(now, top.val.taint) \in ThreadTaint /\ Moved(now, top.val) \in Value
      /\ cur \in Thread
  BY PassedOn, NowTyped
<1>2. ts'[cur] = Entered(TaintStack(now, top.val.taint), f, Moved(now, top.val))
  BY <1>1, PrecallIs
<1>3. Picks(Ctx, TaintStack(now, top.val.taint))
  BY CtxTyped, PassedOn, PicksRead
<1> QED
  BY <1>1, <1>2, <1>3, CtxTyped, PicksEntered, AsQuiet

LEMMA TailCallContext ==
  ASSUME Typed, NEW f \in Closure, TailCall(f)
  PROVE  Automatic
<1> DEFINE x == TaintStack(now, top.val.taint)
           v == Moved(now, top.val)
           y == Reenter(TaintStack(Unpin(x), v.taint), clo[f])
<1>1. UNCHANGED cstack /\ Tainted(cur, y)
  BY DEF TailCall, Tainted
<1>2. Picks(Ctx, x) /\ v.taint \in TaintOrNull /\ clo[f] \in TaintOrNull /\ NULL \in TaintOrNull
  BY CtxTyped, PassedOn, PicksRead DEF Value, Typed
<1> HIDE DEF x, v
<1>3. Picks(Ctx, y)
  BY <1>2, CtxTyped, PicksPin, PicksRead, PicksReenter
<1> HIDE DEF y
<1>4. ts'[cur] = y
  BY <1>1, <1>3, NowTyped, TaintedIs DEF Picks
<1> QED
  BY <1>1, <1>3, <1>4, AsQuiet

(* A call through an activation.                                           *)
LEMMA AsCall ==
  ASSUME Typed, NEW a \in Activation, Enters(a), a.saved = SavedBy(a.how), Len(cstack) < MaxC,
         \/ Picks(Ctx, ts'[a.t])
         \/ a.how \in Barriers /\ Picks([Ctx EXCEPT !.stack = NULL], ts'[a.t])
  PROVE  Automatic
<1>1. cur' = a.t
  BY Appended DEF Typed
<1>2. CASE a.how \notin Barriers
  BY <1>1, <1>2, CallSaves, AsRead DEF PicksNow
<1>3. CASE a.how \in Barriers
  BY <1>1, <1>3, SavedByTyped, AsEnter DEF PicksNow, Ctx, Depth
<1> QED
  BY <1>2, <1>3

LEMMA ActivateContext ==
  ASSUME Typed, NEW t \in Thread,
         NEW x \in ThreadTaint, NEW f \in Callee, NEW v \in Value, Precall(t, x, f, v),
         NEW how \in How, NEW fix \in TaintOrNull, Len(cstack) < MaxC,
         Enters([how |-> how, t |-> t, from |-> cur, at |-> Len(ci[t]),
                 saved |-> SavedBy(how), fix |-> fix]),
         Picks(Ctx, x) \/ (how \in Barriers /\ Picks([Ctx EXCEPT !.stack = NULL], x))
  PROVE  Automatic
<1> DEFINE a == [how |-> how, t |-> t, from |-> cur, at |-> Len(ci[t]),
                 saved |-> SavedBy(how), fix |-> fix]
           c0 == [Ctx EXCEPT !.stack = NULL]
<1>1. cur \in Thread /\ Len(ci[t]) \in Nat /\ SavedBy(how) \in Context
  BY NowTyped, ControlTyped, SavedByTyped
<1>2. /\ a \in Activation /\ Enters(a) /\ a.how = how /\ a.t = t /\ a.saved = SavedBy(how)
  BY <1>1 DEF Activation
<1> HIDE DEF a
<1>3. ts'[t] = Entered(x, f, v)
  BY PrecallIs
<1>4. Ctx \in Context /\ c0 \in Context
  BY CtxTyped DEF Context, TaintOrNull
<1>5. CASE Picks(Ctx, x)
  BY <1>2, <1>3, <1>4, <1>5, PicksEntered, AsCall
<1>6. CASE how \in Barriers /\ Picks(c0, x)
  <2>1. Picks(c0, ts'[t])
    <3> HIDE DEF c0
    <3> QED
      BY <1>3, <1>4, <1>6, PicksEntered
  <2> QED
    BY <1>2, <1>6, <2>1, AsCall
<1> QED
  BY <1>5, <1>6

LEMMA OwnCallContext ==
  ASSUME Typed,
         NEW x \in ThreadTaint, NEW f \in Callee, NEW v \in Value, Precall(cur, x, f, v),
         NEW how \in How, NEW fix \in TaintOrNull, Activate(how, fix),
         Picks(Ctx, x) \/ (how \in Barriers /\ Picks([Ctx EXCEPT !.stack = NULL], x))
  PROVE  Automatic
<1>1. Enters([how |-> how, t |-> cur, from |-> cur, at |-> Len(ci[cur]),
              saved |-> SavedBy(how), fix |-> fix]) /\ Len(cstack) < MaxC
  BY DEF Activate, Enters
<1> QED
  BY <1>1, NowTyped, ActivateContext

LEMMA CallContext ==
  ASSUME Typed, CallStep
  PROVE  Automatic
<1>0. /\ {"api", "pcall", "secure", "delegate", "peek", "meta", "gc", "hook"} \subseteq How
      /\ {"secure", "delegate", "peek", "gc"} \subseteq Barriers
      /\ NULL \in TaintOrNull
  BY DEF How, Catchers, Barriers, Rethrowers, TaintOrNull
<1>1. /\ Picks(Ctx, now) /\ now \in ThreadTaint /\ now.fixed \in TaintOrNull
      /\ top.val \in Value /\ Moved(now, top.val) \in Value /\ Secure \in Value
      /\ NULL \in Callee /\ Closure \subseteq Callee
  BY CtxTyped, PassedOn DEF ThreadTaint
<1>2. ASSUME NEW c \in Cell
      PROVE  Picks(Ctx, TaintStack(now, heap[c].taint)) /\ Picks(Ctx, TaintStack(Unpin(now), heap[c].taint))
  BY <1>1, CtxTyped, PassedOn, PicksRead, PicksPin
<1>3. Picks([Ctx EXCEPT !.stack = NULL], SetStackTaint(now, NULL))
  <2>1. SaveTaint(SetStackTaint(now, NULL)) = [Ctx EXCEPT !.stack = NULL]
    BY DEF Ctx, SaveTaint, SetStackTaint
  <2>2. SetStackTaint(now, NULL) \in ThreadTaint
    BY PassedOn
  <2> QED
    BY <2>1, <2>2, PicksSelf
<1>4. [Ctx EXCEPT !.stack = NULL] \in Context
  BY CtxTyped DEF Context, TaintOrNull
<1>5. ASSUME NEW c \in Cell
      PROVE  Picks([Ctx EXCEPT !.stack = NULL], TaintStack(SetStackTaint(now, NULL), heap[c].taint))
  <2> DEFINE c0 == [Ctx EXCEPT !.stack = NULL]
  <2>1. c0 \in Context /\ Picks(c0, SetStackTaint(now, NULL)) /\ heap[c].taint \in TaintOrNull
    BY <1>3, <1>4, PassedOn
  <2> HIDE DEF c0
  <2>2. Picks(c0, TaintStack(SetStackTaint(now, NULL), heap[c].taint))
    BY <2>1, PicksRead
  <2> QED
    BY <2>2 DEF c0
<1>6. ASSUME NEW f \in Closure, LuaCall(f) \/ TailCall(f) PROVE Automatic
  BY <1>1, <1>6, LuaCallContext, TailCallContext DEF LuaCall
<1>7. CASE CallC
  BY <1>1, <1>7, LuaCallContext DEF CallC
<1>8. ASSUME NEW f \in Callee, Call(f) \/ PCall(f) \/ SecureCall(f) PROVE Automatic
  BY <1>0, <1>1, <1>8, OwnCallContext DEF Call, PCall, SecureCall, CallFromC
<1>9. ASSUME NEW f \in Callee, DelegateCall(f) PROVE Automatic
  <2>1. /\ Precall(cur, SetStackTaint(now, NULL), f, Secure) /\ Activate("delegate", NULL)
        /\ SetStackTaint(now, NULL) \in ThreadTaint
    BY <1>9, PassedOn DEF DelegateCall, CallFromC
  <2> QED
    BY <1>0, <1>1, <1>3, <2>1, OwnCallContext
<1>10. ASSUME NEW f \in Callee, NEW c \in Cell, PeekCall(c, f) PROVE Automatic
  <2> DEFINE x == TaintStack(SetStackTaint(now, NULL), heap[c].taint)
  <2>1. /\ Precall(cur, x, f, Moved(x, top.val)) /\ Activate("peek", NULL)
        /\ x \in ThreadTaint /\ Moved(x, top.val) \in Value
    BY <1>10, PassedOn DEF PeekCall, CallFromC
  <2> QED
    BY <1>0, <1>1, <1>5, <2>1, OwnCallContext
<1>11. ASSUME NEW f \in Callee, NEW c \in Cell, MetaCall(c, f) \/ Finalize(c, f) PROVE Automatic
  <2> DEFINE x == TaintStack(now, heap[c].taint)
  <2>1. /\ x \in ThreadTaint /\ Picks(Ctx, x)
        /\ Moved(x, top.val) \in Value /\ Labelled(x.write) \in Value
    BY <1>2, PassedOn
  <2>2. CASE MetaCall(c, f)
    BY <1>0, <1>1, <2>1, <2>2, OwnCallContext DEF MetaCall
  <2>3. CASE Finalize(c, f)
    BY <1>0, <1>1, <2>1, <2>3, OwnCallContext DEF Finalize
  <2> QED
    BY <1>11, <2>2, <2>3
<1>12. ASSUME NEW f \in Callee, NEW c \in Cell, CallHook(c, f) PROVE Automatic
  <2> DEFINE x == TaintStack(Unpin(now), heap[c].taint)
  <2>1. x \in ThreadTaint /\ Picks(Ctx, x) /\ Labelled(x.write) \in Value
    BY <1>2, PassedOn
  <2> QED
    BY <1>0, <1>1, <1>12, <2>1, OwnCallContext DEF CallHook
<1> QED
  BY <1>6, <1>7, <1>8, <1>9, <1>10, <1>11, <1>12 DEF CallStep
-----------------------------------------------------------------------------
(* Part 13: returns.                                                       *)
LEMMA AfterMovePicks ==
  ASSUME Typed, NEW wanted \in BOOLEAN
  PROVE  Picks(Ctx, AfterMove(wanted))
<1>1. Results(wanted, top.val).taint \in TaintOrNull
  BY PassedOn, SecureTyped DEF Results
<1>2. NULL \in TaintOrNull
  BY SecureTyped
<1> QED
  BY <1>1, <1>2, CtxTyped, PicksPin, PicksRead DEF AfterMove

LEMMA ReturnToLuaContext ==
  ASSUME Typed, NEW wanted \in BOOLEAN, ReturnToLua(wanted)
  PROVE  Automatic
<1> DEFINE caller == Last(Front(ci[cur]))
           x == IF top.kind = "lua" THEN Reenter(AfterMove(wanted), clo[caller.fn]) ELSE AfterMove(wanted)
<1>1. Running({"lua", "c"}) /\ caller.kind = "lua" /\ UNCHANGED cstack /\ Tainted(cur, x)
  BY DEF ReturnToLua, Tainted
<1>2. clo[caller.fn] \in TaintOrNull /\ cur \in Thread
  BY <1>1, CallerIs, NowTyped DEF Typed
<1>3. Picks(Ctx, x)
  BY <1>2, CtxTyped, AfterMovePicks, PicksReenter
<1> HIDE DEF x
<1>4. ts'[cur] = x
  BY <1>1, <1>2, <1>3, TaintedIs DEF Picks
<1> QED
  BY <1>1, <1>3, <1>4, AsQuiet

LEMMA CoReturnContext ==
  ASSUME Typed, NEW wanted \in BOOLEAN, CoReturn(wanted)
  PROVE  Automatic
<1>1. UNCHANGED cstack /\ Tainted(cur, AfterMove(wanted))
  BY DEF CoReturn, Tainted
<1>2. ts'[cur] = AfterMove(wanted)
  BY <1>1, NowTyped, AfterMovePicks, TaintedIs DEF Picks
<1> QED
  BY <1>1, <1>2, AfterMovePicks, AsQuiet

(* The innermost activation ends.                                          *)
LEMMA AsPopped ==
  ASSUME Typed, NEW n \in 0 .. Depth, n = Depth - 1, Left(n),
         cstack[Depth].how \notin Barriers, PicksNow(Ctx)
  PROVE  Automatic
<1>1. \A k \in n + 1 .. Depth : k = Depth
  BY ControlTyped
<1> QED
  BY <1>1, LeftSaves, AsRead

(* The thread below an activation.                                         *)
LEMMA ThreadBelow ==
  ASSUME Typed, ControlInv, NEW k \in 1 .. Depth, Left(k - 1)
  PROVE  cur' = cstack[k].from /\ cstack[k].from \in Thread
<1>1. k - 1 \in 0 .. Depth /\ cstack \in Seq(Activation) /\ Depth \in Nat
  BY ControlTyped DEF Typed
<1>2. cur' = IF k - 1 = 0 THEN Main ELSE cstack[k - 1].t
  BY <1>1, Unwound
<1>3. cur' = Below(k)
  BY <1>1, <1>2 DEF Below
<1> QED
  BY <1>1, <1>3, CurIs DEF ControlInv, Linking, Activation

(* Where C code goes on when the function it called returns.               *)
Restores(a) == a.how \in Barriers /\ ~(a.how = "gc" /\ "gctaint" \in Lib)

LEMMA ReturnToCTo ==
  ASSUME Typed, ControlInv, NEW wanted \in BOOLEAN, ReturnToC(wanted)
  PROVE  /\ Depth \in 1 .. Depth /\ Left(Depth - 1)
         /\ Restores(cstack[Depth]) => PicksNow(cstack[Depth].saved)
         /\ ~Restores(cstack[Depth]) => PicksNow(Ctx)
<1> DEFINE a == Last(cstack)
           x == AfterMove(wanted)
<1>1. /\ AtActivation /\ cstack' = Front(cstack) /\ Tainted(cur, Resumed(a, x))
      /\ a.how \notin Switch
  BY DEF ReturnToC, Tainted, Switch
<1>2. /\ Depth \in 1 .. Depth /\ Left(Depth - 1) /\ a \in Activation /\ a = cstack[Depth]
      /\ a.saved \in Context /\ a.fix \in TaintOrNull
  BY <1>1, TopActivation DEF Activation
<1>3. cur' = cur
  BY <1>1, <1>2, ThreadBelow, CurIs DEF ControlInv, Linking, Typed
<1>4. Picks(Ctx, x) /\ x \in ThreadTaint /\ cur \in Thread
  BY AfterMovePicks, NowTyped DEF Picks
<1> HIDE DEF x, a
<1>5. ts'[cur'] = Resumed(a, x)
  BY <1>1, <1>2, <1>3, <1>4, ResumedTyped, TaintedIs
<1>6. ASSUME Restores(a) PROVE PicksNow(a.saved)
  <2>1. Resumed(a, x) = LoadTaint(x, a.saved)
    BY <1>6 DEF Restores, Resumed, Barriers, Rethrowers
  <2> QED
    BY <1>2, <1>4, <1>5, <2>1, PicksLoad DEF PicksNow
<1>7. ASSUME ~Restores(a) PROVE PicksNow(Ctx)
  <2>1. Resumed(a, x) = x \/ Resumed(a, x) = [x EXCEPT !.fixed = a.fix]
    BY <1>7 DEF Restores, Resumed
  <2> QED
    BY <1>2, <1>4, <1>5, <2>1, PicksPin DEF PicksNow
<1> QED
  BY <1>2, <1>6, <1>7

LEMMA ReturnToCContext ==
  ASSUME Typed, ControlInv, "gctaint" \notin Lib, NEW wanted \in BOOLEAN, ReturnToC(wanted)
  PROVE  Automatic
<1>1. Depth \in 1 .. Depth /\ Left(Depth - 1) /\ Depth - 1 \in 0 .. Depth /\ Depth \in Nat
  BY ReturnToCTo, ControlTyped
<1>2. CASE cstack[Depth].how \in Barriers
  <2>1. PicksNow(cstack[Depth].saved)
    BY <1>2, ReturnToCTo DEF Restores
  <2>2. Depth \in OpenBarriers
    BY <1>1, <1>2, BarriersAre
  <2>3. \A k \in Depth - 1 + 1 .. Depth - 1 : FALSE
    BY <1>1
  <2>4. Depth - 1 < Depth
    BY <1>1
  <2> QED
    BY <1>1, <2>1, <2>2, <2>3, <2>4, AsLeave
<1>3. CASE cstack[Depth].how \notin Barriers
  <2>1. PicksNow(Ctx)
    BY <1>3, ReturnToCTo DEF Restores
  <2> QED
    BY <1>1, <1>3, <2>1, AsPopped
<1> QED
  BY <1>2, <1>3

LEMMA CoCallReturnContext ==
  ASSUME Typed, ControlInv, NEW wanted \in BOOLEAN, CoCallReturn(wanted)
  PROVE  Automatic
<1> DEFINE a == Last(cstack)
           x == AfterMove(wanted)
           v == IF wanted THEN Moved(Unpin(now), top.val) ELSE Last(ci[a.from]).val
           w == Results(wanted, v)
<1>1. /\ AtActivation /\ cstack' = Front(cstack) /\ a.how = "cocall"
      /\ ts' = HandOver(a.from, cur, x, w)
  BY DEF CoCallReturn
<1>2. Depth \in 1 .. Depth /\ Left(Depth - 1) /\ a = cstack[Depth] /\ Depth \in Nat
  BY <1>1, TopActivation, ControlTyped
<1>3. cur' = a.from /\ a.from \in Thread /\ cur \in Thread
  BY <1>2, ThreadBelow, NowTyped
<1> HIDE DEF a
<1>4. w \in Value
  <2>1. Last(ci[a.from]).val \in Value
    BY <1>3, TopOf DEF Typed
  <2>2. Moved(Unpin(now), top.val) \in Value /\ Secure \in Value
    BY PassedOn, UnpinTyped, MovedTyped
  <2> QED
    BY <2>1, <2>2 DEF Results
<1>5. Picks(Ctx, x)
  BY AfterMovePicks
<1> HIDE DEF x, w
<1>6. PicksNow(Ctx)
  BY <1>1, <1>3, <1>4, <1>5, CtxTyped, PicksHandOver DEF PicksNow
<1>7. Depth - 1 \in 0 .. Depth /\ cstack[Depth].how \notin Barriers
  BY <1>1, <1>2 DEF Barriers, Rethrowers
<1> QED
  BY <1>2, <1>6, <1>7, AsPopped

-----------------------------------------------------------------------------
(* Part 14: errors.  c is the context that the error brings: that in which *)
(* it was raised, or what the last rethrower it has crossed had saved.     *)
Brings(k, c) ==
  \/ c = Ctx /\ \A j \in k + 1 .. Depth : cstack[j].how \notin Barriers
  \/ \E r \in OpenBarriers :
       /\ k < r /\ c = cstack[r].saved
       /\ \A j \in k + 1 .. r - 1 : cstack[j].how \notin Barriers

LEMMA AsCaught ==
  ASSUME Typed, NEW k \in 1 .. Depth, NEW c, Brings(k, c), PicksNow(c), NEW n \in 0 .. Depth, Left(n),
         n = k \/ (n = k - 1 /\ cstack[k].how \notin Barriers)
  PROVE  Automatic
<1>1. Depth \in Nat
  BY ControlTyped
<1>2. CASE c = Ctx /\ \A j \in k + 1 .. Depth : cstack[j].how \notin Barriers
  <2>1. \A j \in n + 1 .. Depth : j \in k + 1 .. Depth \/ (j = k /\ n = k - 1)
    BY <1>1
  <2> QED
    BY <1>2, <2>1, LeftSaves, AsRead
<1>3. ASSUME NEW r \in OpenBarriers, k < r, c = cstack[r].saved,
             \A j \in k + 1 .. r - 1 : cstack[j].how \notin Barriers
      PROVE  Automatic
  <2>1. r \in Nat
    BY BarriersAre
  <2>2. n < r /\ \A j \in n + 1 .. r - 1 : j \in k + 1 .. r - 1 \/ (j = k /\ n = k - 1)
    BY <1>1, <1>3, <2>1
  <2>3. \A j \in n + 1 .. r - 1 : cstack[j].how \notin Barriers
    BY <1>3, <2>2
  <2> QED
    BY <1>3, <2>2, <2>3, AsLeave
<1> QED
  BY <1>2, <1>3 DEF Brings

(* Where an error is caught, whatever it has crossed.                      *)
LEMMA CatchTo ==
  ASSUME Typed, ControlInv, NEW k \in 1 .. Depth, Innermost(k),
         NEW x, NEW err \in Value, Catch(k, x, err), NEW c \in Context, Picks(c, x)
  PROVE  \/ Left(k) /\ PicksNow(c)
         \/ Left(k - 1) /\ cstack[k].how \notin Barriers /\ PicksNow(c)
         \/ Left(k - 1) /\ k \in OpenBarriers /\ PicksNow(cstack[k].saved)
<1> DEFINE a == cstack[k]
           caught == TaintStack(Unpin(x), err.taint)
           v == Moved(Unpin(x), err)
<1>1. /\ cur \in Thread /\ a \in Activation /\ a.saved \in Context
      /\ Depth \in Nat /\ k - 1 \in 0 .. Depth /\ k \in 0 .. Depth /\ x \in ThreadTaint
  <2>1. cur \in Thread /\ Depth \in Nat
    BY CurIs DEF Typed
  <2>2. k - 1 \in 0 .. Depth /\ k \in 0 .. Depth
    BY <2>1
  <2>3. a \in Activation
    BY CurIs DEF Typed
  <2> HIDE DEF a
  <2>4. a.saved \in Context
    BY <2>3 DEF Activation
  <2>5. x \in ThreadTaint
    BY DEF Picks
  <2> QED
    BY <2>1, <2>2, <2>3, <2>4, <2>5
<1>2. a.t = cur
  <2>1. \A m \in k + 1 .. Depth : cstack[m].how \notin Switch
    BY DEF Innermost, Depth, Catchers, Switch
  <2>2. k \in k .. Depth
    BY <1>1
  <2> QED
    BY <2>1, <2>2, SameThread DEF ControlInv
<1>3. err.taint \in TaintOrNull /\ Unpin(x) \in ThreadTaint /\ v \in Value
  BY <1>1, UnpinTyped, MovedTyped DEF Value
<1>4. Picks(c, caught) /\ caught \in ThreadTaint
  <2>1. Picks(c, Unpin(x))
    BY PicksPin, SecureTyped
  <2> QED
    BY <1>3, <2>1, PicksRead DEF Picks
<1>5. a.how \in {"pcall", "secure"} /\ Left(k - 1) => cur' = cur
  <2>1. a.how \in {"pcall", "secure"} => a.from = cur
    BY <1>2 DEF ControlInv, Linking, Switch
  <2> QED
    BY <2>1, ThreadBelow
<1>6. CASE a.how = "pcall"
  <2>1. Left(k - 1) /\ Tainted(cur, caught)
    BY <1>6 DEF Catch, Left, Tainted
  <2> HIDE DEF caught, a
  <2>2. PicksNow(c)
    BY <1>1, <1>4, <1>5, <1>6, <2>1, TaintedIs DEF PicksNow
  <2>3. cstack[k].how \notin Barriers
    BY <1>6 DEF Barriers, Rethrowers, a
  <2> QED
    BY <2>1, <2>2, <2>3 DEF a
<1>7. CASE a.how = "secure"
  <2>1. Left(k - 1) /\ Tainted(cur, LoadTaint(caught, a.saved))
    BY <1>7 DEF Catch, Left, Tainted
  <2>2. k \in OpenBarriers
    BY <1>1, <1>7, BarriersAre DEF Barriers
  <2> HIDE DEF caught
  <2>3. Picks(a.saved, LoadTaint(caught, a.saved)) /\ LoadTaint(caught, a.saved) \in ThreadTaint
    BY <1>1, <1>4, PicksLoad, LoadTaintTyped
  <2>4. PicksNow(a.saved)
    BY <1>1, <1>5, <1>7, <2>1, <2>3, TaintedIs DEF PicksNow
  <2> QED
    BY <2>1, <2>2, <2>4
<1>8. CASE a.how = "cocall"
  <2>1. Left(k - 1) /\ ts' = HandOver(a.from, cur, caught, v)
    BY <1>8 DEF Catch, Left
  <2>2. cur' = a.from /\ a.from \in Thread
    BY <2>1, ThreadBelow
  <2> HIDE DEF caught, v
  <2>3. PicksNow(c)
    BY <1>1, <1>3, <1>4, <2>1, <2>2, PicksHandOver DEF PicksNow
  <2>4. cstack[k].how \notin Barriers
    BY <1>8 DEF Barriers, Rethrowers
  <2> QED
    BY <2>1, <2>3, <2>4
<1>9. CASE a.how = "resume"
  <2>1. Left(k) /\ Tainted(cur, x)
    BY <1>9 DEF Catch, Left, Tainted
  <2>2. cur' = cur
    <3>1. cur' = IF k = 0 THEN Main ELSE cstack[k].t
      BY <1>1, <2>1, Unwound DEF Typed
    <3> QED
      BY <1>2, <3>1
  <2>3. PicksNow(c)
    BY <1>1, <2>1, <2>2, TaintedIs DEF PicksNow
  <2> QED
    BY <2>1, <2>3
<1> QED
  BY <1>6, <1>7, <1>8, <1>9 DEF Catch

LEMMA CatchContext ==
  ASSUME Typed, ControlInv, NEW k \in 1 .. Depth, Innermost(k),
         NEW x, NEW err \in Value, Catch(k, x, err),
         NEW c \in Context, Picks(c, x), Brings(k, c)
  PROVE  Automatic
<1>1. Depth \in Nat /\ k - 1 \in 0 .. Depth /\ k \in 0 .. Depth
  BY ControlTyped
<1>2. CASE Left(k) /\ PicksNow(c)
  BY <1>1, <1>2, AsCaught
<1>3. CASE Left(k - 1) /\ cstack[k].how \notin Barriers /\ PicksNow(c)
  BY <1>1, <1>3, AsCaught
<1>4. CASE Left(k - 1) /\ k \in OpenBarriers /\ PicksNow(cstack[k].saved)
  <2>1. k - 1 < k /\ \A j \in k - 1 + 1 .. k - 1 : FALSE
    BY <1>1
  <2> QED
    BY <1>1, <1>4, <2>1, AsLeave
<1> QED
  BY <1>2, <1>3, <1>4, CatchTo

LEMMA ThrowContext ==
  ASSUME Typed, ControlInv, "gcerror" \notin Lib, ctl \in {"run", "rethrow"},
         NEW v \in Value, Throw(v)
  PROVE  Automatic
<1>1. /\ DOMAIN cstack = 1 .. Depth /\ Len(cstack) = Depth /\ Depth \in Nat
      /\ \A k \in 1 .. Depth : cstack[k] \in Activation
  BY CurIs DEF Typed, Depth
<1>2. PICK k \in 1 .. Depth :
        LET crossed == {j \in k + 1 .. Depth : cstack[j].how \in Rethrowers}
        IN  /\ Innermost(k)
            /\ \A j \in k + 1 .. Depth : cstack[j].how # "gc"
            /\ \/ crossed = {} /\ Catch(k, now, v)
               \/ \E r \in crossed :
                    /\ \A j \in crossed : r <= j
                    /\ Catch(k, LoadTaint(now, cstack[r].saved),
                             IF cstack[r].how = "peek" THEN Secure
                             ELSE Labelled(cstack[r].saved.stack))
  BY <1>1 DEF Throw
<1> DEFINE crossed == {j \in k + 1 .. Depth : cstack[j].how \in Rethrowers}
<1>3. \A j \in k + 1 .. Depth : cstack[j].how \in Barriers => j \in crossed
  BY <1>1, <1>2 DEF Innermost, Catchers, Barriers
<1>4. CASE crossed = {} /\ Catch(k, now, v)
  <2>1. Brings(k, Ctx)
    BY <1>3, <1>4 DEF Brings
  <2> QED
    BY <1>2, <1>4, <2>1, CtxTyped, CatchContext
<1>5. ASSUME NEW r \in crossed, \A j \in crossed : r <= j,
             Catch(k, LoadTaint(now, cstack[r].saved),
                   IF cstack[r].how = "peek" THEN Secure ELSE Labelled(cstack[r].saved.stack))
      PROVE  Automatic
  <2> DEFINE c == cstack[r].saved
             x == LoadTaint(now, c)
             err == IF cstack[r].how = "peek" THEN Secure ELSE Labelled(c.stack)
  <2>1. r \in 1 .. Depth /\ k < r /\ cstack[r].how \in Barriers
    BY <1>1 DEF Barriers
  <2>2. r \in OpenBarriers /\ c \in Context /\ c.stack \in TaintOrNull
    BY <2>1, BarriersAre DEF Context
  <2>3. err \in Value /\ Picks(c, x)
    BY <2>2, NowTyped, LabelledTyped, SecureTyped, PicksLoad
  <2>4. \A j \in k + 1 .. r - 1 : cstack[j].how \notin Barriers
    <3> SUFFICES ASSUME NEW j \in k + 1 .. r - 1, cstack[j].how \in Barriers PROVE FALSE
      OBVIOUS
    <3>1. j \in k + 1 .. Depth /\ j < r /\ j \in Nat /\ r \in Nat
      BY <1>1, <2>1
    <3>2. r <= j
      BY <1>3, <1>5, <3>1
    <3> QED
      BY <3>1, <3>2
  <2>5. Brings(k, c)
    BY <2>1, <2>2, <2>4 DEF Brings
  <2>6. Catch(k, x, err)
    BY <1>5
  <2> HIDE DEF c, x, err
  <2> QED
    BY <1>2, <2>2, <2>3, <2>5, <2>6, CatchContext
<1> QED
  BY <1>2, <1>4, <1>5

LEMMA ErrorContext ==
  ASSUME Typed, ControlInv, "gcerror" \notin Lib, ErrorStep
  PROVE  Automatic
<1>1. Computed \in Value /\ top.val \in Value
  BY NowTyped, ComputedTyped
<1>2. CASE LuaError
  BY <1>1, <1>2, ThrowContext DEF LuaError, InLua, Running
<1>3. CASE CError
  BY <1>1, <1>3, ThrowContext DEF CError, Running
<1>4. CASE Rethrow
  BY <1>1, <1>4, ThrowContext DEF Rethrow
<1> QED
  BY <1>2, <1>3, <1>4 DEF ErrorStep

-----------------------------------------------------------------------------
(* Part 15: coroutines.                                                    *)
LEMMA ThreadPicks ==
  ASSUME Typed, NEW t \in Thread
  PROVE  Picks(Ctx, TaintThread(ts[t], now)) /\ TaintThread(ts[t], now) \in ThreadTaint
         /\ ts[t] \in ThreadTaint
<1>1. ts[t] \in ThreadTaint
  BY DEF Typed
<1>2. Picks(Ctx, TaintThread(ts[t], now))
  BY <1>1, CtxTyped, PicksThread
<1> QED
  BY <1>1, <1>2 DEF Picks

LEMMA ResumeFreshContext ==
  ASSUME Typed, ControlInv, NEW co \in Thread, ResumeFresh(co)
  PROVE  Automatic
<1> DEFINE x == TaintThread(ts[co], now)
           v == Moved(ts[co], top.val)
           f == ci[co][1].fn
<1>1. /\ st[co] = "fresh" /\ Precall(co, x, f, v) /\ Len(cstack) < MaxC
      /\ Enters([how |-> "resume", t |-> co, from |-> cur, at |-> Len(ci[co]),
                 saved |-> SavedBy("resume"), fix |-> NULL])
  BY DEF ResumeFresh, ActivateOn, Enters
<1>2. v \in Value /\ x \in ThreadTaint /\ Picks(Ctx, x)
  BY NowTyped, MovedTyped, ThreadPicks
<1>3. f \in Callee
  BY <1>1 DEF ControlInv, Statuses, Callee
<1>4. "resume" \in How /\ NULL \in TaintOrNull
  BY DEF How, Catchers, TaintOrNull
<1> HIDE DEF x, v, f
<1> QED
  BY <1>1, <1>2, <1>3, <1>4, ActivateContext

LEMMA CoCallContext ==
  ASSUME Typed, NEW to \in Thread, NEW f \in Callee, CoCall(to, f)
  PROVE  Automatic
<1> DEFINE x == IF to = cur THEN now ELSE TaintStack(TaintThread(ts[to], now), top.val.taint)
           v == Moved(TaintThread(ts[to], now), top.val)
<1>1. /\ Precall(to, x, f, v) /\ Len(cstack) < MaxC
      /\ Enters([how |-> "cocall", t |-> to, from |-> cur, at |-> Len(ci[to]),
                 saved |-> SavedBy("cocall"), fix |-> NULL])
  BY DEF CoCall, ActivateOn, Enters
<1>2. Picks(Ctx, x)
  BY CtxTyped, ThreadPicks, PassedOn, PicksRead
<1>3. v \in Value /\ x \in ThreadTaint
  BY <1>2, PassedOn, ThreadPicks, MovedTyped DEF Picks
<1>4. "cocall" \in How /\ NULL \in TaintOrNull
  BY DEF How, Catchers, TaintOrNull
<1> HIDE DEF x, v
<1> QED
  BY <1>1, <1>2, <1>3, <1>4, ActivateContext

LEMMA ResumeYieldedContext ==
  ASSUME Typed, ControlInv, NEW co \in Thread, NEW given \in BOOLEAN, ResumeYielded(co, given)
  PROVE  Automatic
<1> DEFINE x == TaintThread(ts[co], now)
           v == IF given THEN Moved(ts[co], top.val) ELSE Labelled(x.write)
           caller == Last(Front(ci[co]))
           taint == clo[caller.fn]
           y == Reenter(TaintStack(Unpin(x), v.taint), taint)
           a == [how |-> "resume", t |-> co, from |-> cur, at |-> 1,
                 saved |-> SavedBy("resume"), fix |-> NULL]
<1>1. /\ Tainted(co, y) /\ Enters(a) /\ Len(cstack) < MaxC /\ st[co] = "yield"
  BY DEF ResumeYielded, Tainted, Enters
<1>2. Picks(Ctx, x) /\ x \in ThreadTaint
  BY ThreadPicks
<1>3. v.taint \in TaintOrNull
  <2>1. x.write \in TaintOrNull
    BY <1>2 DEF ThreadTaint
  <2> HIDE DEF x
  <2>2. v \in Value
    BY <2>1, NowTyped, ThreadPicks, MovedTyped, LabelledTyped
  <2> QED
    BY <2>2 DEF Value
<1>4. taint \in TaintOrNull
  <2>1. caller.fn \in Closure
    BY <1>1, YieldedCaller
  <2> QED
    BY <2>1 DEF Typed
<1> HIDE DEF x, v, taint
<1>5. Picks(Ctx, y)
  <2>1. Picks(Ctx, TaintStack(Unpin(x), v.taint))
    BY <1>2, <1>3, CtxTyped, SecureTyped, PicksPin, PicksRead
  <2> QED
    BY <1>4, <2>1, CtxTyped, PicksReenter
<1> HIDE DEF y
<1>6. ts'[co] = y
  BY <1>1, <1>5, TaintedIs DEF Picks
<1>7. /\ a \in Activation /\ a.t = co /\ a.how = "resume" /\ a.saved = SavedBy(a.how)
  BY NowTyped, SavedByTyped, SecureTyped DEF Activation, How, Catchers
<1> HIDE DEF a
<1> QED
  BY <1>1, <1>5, <1>6, <1>7, AsCall

LEMMA FinishResumeContext ==
  ASSUME Typed, ControlInv, FinishResume
  PROVE  Automatic
<1> DEFINE a == Last(cstack)
           v == IF ctl = "failed" THEN Moved(Unpin(now), top.val) ELSE top.val
           z == TaintThread(ts[a.from], now)
           x == TaintStack(z, v.taint)
           y == IF ctl = "failed" THEN TaintStack(Unpin(now), top.val.taint) ELSE now
<1>1. /\ ctl \in {"returned", "yielded", "failed"} /\ cstack' = Front(cstack)
      /\ ts' = [ts EXCEPT ![a.from] = x, ![cur] = y]
  BY DEF FinishResume
<1>2. /\ Depth \in 1 .. Depth /\ Left(Depth - 1) /\ Depth - 1 \in 0 .. Depth
      /\ a = cstack[Depth] /\ a.how = "resume" /\ a.t # a.from /\ cur = a.t
  <2>1. Depth > 0 /\ cstack[Depth].how = "resume" /\ cstack \in Seq(Activation)
    BY <1>1 DEF ControlInv, Statuses, Typed
  <2>2. cstack # <<>>
    BY <2>1 DEF Depth
  <2>3. /\ a = cstack[Depth] /\ Depth \in 1 .. Depth /\ cur = a.t /\ Left(Depth - 1) /\ Depth \in Nat
    BY <1>1, <2>1, <2>2, CurIs, LeftFront
  <2> QED
    BY <2>1, <2>3 DEF ControlInv, Linking
<1>3. cur' = a.from /\ a.from \in Thread
  BY <1>2, ThreadBelow
<1> HIDE DEF a
<1>4. ts'[a.from] = x
  BY <1>1, <1>2, <1>3 DEF Typed
<1>5. v.taint \in TaintOrNull
  <2>1. v \in Value
    BY NowTyped, UnpinTyped, MovedTyped
  <2> HIDE DEF v
  <2> QED
    BY <2>1 DEF Value
<1>6. PicksNow(Ctx)
  <2> HIDE DEF v
  <2> QED
    BY <1>3, <1>4, <1>5, CtxTyped, ThreadPicks, PicksRead DEF PicksNow
<1>7. cstack[Depth].how \notin Barriers
  BY <1>2 DEF Barriers, Rethrowers
<1> QED
  BY <1>2, <1>6, <1>7, AsPopped

LEMMA CoroutineContext ==
  ASSUME Typed, ControlInv, CoroutineStep
  PROVE  Automatic
<1>1. ASSUME NEW co \in Thread, NEW f \in Closure, CoCreate(co, f) PROVE Automatic
  <2> DEFINE x == TaintStack(TaintThread(PreinitTaint, now), top.val.taint)
  <2>1. UNCHANGED cstack /\ Tainted(co, x) /\ st[co] \in {"none", "dead"} /\ ctl = "run"
    BY <1>1 DEF CoCreate, Tainted, Running
  <2>2. co # cur
    BY <2>1, CurAwake
  <2>3. ts'[cur] = now
    BY <2>1, <2>2, NowTyped DEF Tainted, Typed
  <2> QED
    BY <2>1, <2>3, CtxTyped, AsQuiet
<1>2. CASE Yield
  BY <1>2, AsUnchanged DEF Yield
<1> QED
  BY <1>1, <1>2, ResumeFreshContext, ResumeYieldedContext, CoCallContext, FinishResumeContext
     DEF CoroutineStep
-----------------------------------------------------------------------------
(* Part 16: the taint API and the theorem.                                 *)
LEMMA ExplicitContext ==
  ASSUME Typed, Typed', ExplicitStep
  PROVE  Abstract!Next
<1>1. ts'[cur] \in ThreadTaint
  BY NowTyped DEF Typed
<1>2. UNCHANGED cstack
  BY DEF ExplicitStep, Api, ApiSetStackTaint, ApiSetNewGCTaint, ApiSetNewClosureTaint,
     ApiSetTaintMode, ApiSetValueTaint, ApiSetObjectTaint, ApiClearTaint, ApiResetTaint
<1>3. Lib \cap {"settaint", "settaintmode", "setnewtaint"} # {}
  BY DEF ExplicitStep, ApiSetStackTaint, ApiSetNewGCTaint, ApiSetNewClosureTaint,
     ApiSetTaintMode, ApiSetValueTaint, ApiSetObjectTaint, ApiClearTaint, ApiResetTaint
<1> QED
  BY <1>1, <1>2, <1>3, AsSet

LEMMA EnvironmentContext ==
  ASSUME Typed, EnvironmentStep
  PROVE  Automatic
<1>0. cur \in Thread /\ now \in ThreadTaint
  BY NowTyped
<1>1. ASSUME NEW taint \in Taint, ForceInsecure(taint) \/ LoadString(taint) PROVE Automatic
  <2>1. /\ UNCHANGED cstack /\ Tainted(cur, SetStackTaint(now, taint))
        /\ Lib \cap {"forceinsecure", "loadstring"} # {}
    BY <1>1 DEF ForceInsecure, LoadString, Api, Tainted
  <2>2. ts'[cur] = SetStackTaint(now, taint)
    BY <1>0, <2>1, SetStackTaintTyped, TaintedIs DEF TaintOrNull
  <2> QED
    BY <2>1, <2>2, AsRaise
<1>2. ASSUME NEW f \in Closure, GetFenv(f) PROVE Automatic
  <2>1. UNCHANGED cstack /\ Tainted(cur, TaintStack(now, clo[f]))
    BY <1>2 DEF GetFenv, Api, Tainted
  <2>2. Picks(Ctx, TaintStack(now, clo[f]))
    BY CtxTyped, PicksRead DEF Typed
  <2>3. ts'[cur] = TaintStack(now, clo[f])
    BY <1>0, <2>1, <2>2, TaintedIs DEF Picks
  <2> QED
    BY <2>1, <2>2, <2>3, AsQuiet
<1>3. ASSUME NEW f \in Closure, SetFenv(f) PROVE Automatic
  BY <1>3, AsUnchanged DEF SetFenv
<1> QED
  BY <1>1, <1>2, <1>3 DEF EnvironmentStep

LEMMA InitContext == Init => Abstract!Init
<1> SUFFICES ASSUME Init PROVE Abstract!Init
  OBVIOUS
<1>1. PICK rd \in BOOLEAN, wr \in BOOLEAN :
        ts = [t \in Thread |-> SetTaintMode(PreinitTaint, rd /\ t = Main, wr /\ t = Main)]
  BY DEF Init
<1>2. cstack = <<>> /\ cur = Main /\ Main \in Thread
  BY ThreadAssumption DEF Init, cur
<1>3. now = SetTaintMode(PreinitTaint, rd, wr)
  BY <1>1, <1>2 DEF now
<1>4. Ctx = [rd |-> rd, wr |-> wr, stack |-> NULL, newgc |-> NULL, newcl |-> NULL]
  BY <1>3 DEF Ctx, SaveTaint, SetTaintMode, PreinitTaint
<1>5. OpenBarriers = {}
  BY <1>2 DEF OpenBarriers
<1>6. Saves = [k \in {} |-> Ctx]
  BY <1>5 DEF Saves
<1> QED
  BY <1>4, <1>6 DEF Abstract!Init, Ctx, Saves

LEMMA StepContext ==
  ASSUME Typed, ControlInv, Lib \cap {"gctaint", "gcerror"} = {}, [Next]_vars
  PROVE  Abstract!Next
<1>1. Typed' /\ "gctaint" \notin Lib /\ "gcerror" \notin Lib
  BY StepControl
<1>2. CASE UNCHANGED vars
  BY <1>2, AsUnchanged DEF vars, Automatic, Abstract!Next
<1>3. ASSUME NEW wanted \in BOOLEAN,
             ReturnToLua(wanted) \/ ReturnToC(wanted) \/ CoReturn(wanted) \/ CoCallReturn(wanted)
      PROVE  Abstract!Next
  BY <1>1, <1>3, ReturnToLuaContext, ReturnToCContext, CoReturnContext, CoCallReturnContext
     DEF Automatic, Abstract!Next
<1> QED
  BY <1>1, <1>2, <1>3, MoveContext, CallContext, ErrorContext, CoroutineContext, ExplicitContext,
     EnvironmentContext DEF Next, ReturnStep, Automatic, Abstract!Next

(* Execution has one taint context, whichever thread and function runs: it *)
(* picks up what is read, is copied to and from every coroutine, and comes *)
(* back as it was saved when the barrier that saved it is left, by a       *)
(* return or by an error that crosses any number of them.  Not so if an    *)
(* error may leave GCTM, or a build lets finalizers change the taint.      *)
THEOREM MachineKeepsOneContext ==
  Lib \cap {"gctaint", "gcerror"} = {} => (Spec => OneContext)
<1> SUFFICES ASSUME Lib \cap {"gctaint", "gcerror"} = {} PROVE Spec => OneContext
  OBVIOUS
<1>1. Typed /\ ControlInv /\ [Next]_vars => [Abstract!Next]_(Abstract!vars)
  BY StepContext
<1> QED
  BY <1>1, InitContext, StacksAreTyped, PTL DEF Spec, OneContext, Abstract!Spec
-----------------------------------------------------------------------------
(* Part 17: the mode.  A barrier gives back the mode that was its caller's;*)
(* with no library function that sets modes it is the mode already in      *)
(* force, whatever the barrier and however it is left.                     *)
NoModeSetters == Lib \cap {"settaint", "settaintmode"} = {}
Modes == \A k \in OpenBarriers : cstack[k].saved.rd = now.rd

LEMMA TaintedMode ==
  ASSUME NEW c \in Context, NEW d \in Abstract!Tainted(c)
  PROVE  d.rd = c.rd
  BY DEF Abstract!Tainted, Context

LEMMA PicksMode ==
  ASSUME NEW c \in Context, NEW x, Picks(c, x)
  PROVE  x.rd = c.rd
<1>1. SaveTaint(x).rd = c.rd
  BY TaintedMode DEF Picks
<1> QED
  BY <1>1 DEF SaveTaint

LEMMA AutomaticModes ==
  ASSUME Typed, Modes, Automatic
  PROVE  Modes' /\ now'.rd = now.rd
<1>1. /\ Ctx \in Context /\ Ctx.rd = now.rd /\ Ctx'.rd = now'.rd
      /\ \A k \in DOMAIN Saves : Saves[k] \in Context /\ Saves[k].rd = Ctx.rd
  BY CtxTyped, BarriersAre DEF Ctx, SaveTaint, Saves, Modes
<1>2. [Ctx EXCEPT !.stack = NULL] \in Context /\ [Ctx EXCEPT !.stack = NULL].rd = Ctx.rd
  BY <1>1 DEF Context, TaintOrNull
<1>3. Ctx'.rd = Ctx.rd /\ \A k \in DOMAIN Saves' : Saves'[k].rd = Ctx.rd
  <2>1. CASE Abstract!Read
    <3>1. Ctx' \in Abstract!Tainted(Ctx) /\ Saves' = Saves
      BY <2>1 DEF Abstract!Read, Ctx, Saves
    <3> QED
      BY <1>1, <3>1, TaintedMode
  <2>2. CASE Abstract!Enter
    <3>1. PICK l : Saves' = [k \in DOMAIN Saves \cup {l} |-> IF k = l THEN Ctx ELSE Saves[k]]
      BY <2>2 DEF Abstract!Enter, Ctx, Saves
    <3>2. Ctx' \in Abstract!Tainted(Ctx) \cup Abstract!Tainted([Ctx EXCEPT !.stack = NULL])
      BY <2>2 DEF Abstract!Enter, Ctx
    <3>3. Ctx'.rd = Ctx.rd
      BY <1>1, <1>2, <3>2, TaintedMode
    <3> QED
      BY <1>1, <3>1, <3>3
  <2>3. CASE Abstract!Leave
    <3>1. PICK k \in DOMAIN Saves :
            /\ Saves' = [j \in {i \in DOMAIN Saves : i < k} |-> Saves[j]]
            /\ Ctx' \in Abstract!Tainted(Saves[k])
      BY <2>3 DEF Abstract!Leave, Ctx, Saves
    <3>2. Ctx'.rd = Ctx.rd
      BY <1>1, <3>1, TaintedMode
    <3> QED
      BY <1>1, <3>1, <3>2
  <2>4. CASE Abstract!Raise
    <3>1. (\E t \in Taint : Ctx' = [Ctx EXCEPT !.stack = t]) /\ Saves' = Saves
      BY <2>4 DEF Abstract!Raise, Ctx, Saves
    <3>2. Ctx'.rd = Ctx.rd
      BY <1>1, <3>1 DEF Context
    <3> QED
      BY <1>1, <3>1, <3>2
  <2> QED
    BY <2>1, <2>2, <2>3, <2>4 DEF Automatic
<1>4. \A k \in OpenBarriers' : cstack'[k].saved.rd = now'.rd
  BY <1>1, <1>3 DEF Saves
<1> QED
  BY <1>1, <1>3, <1>4 DEF Modes

(* The C stack shrinks, and a context in force or saved goes on.           *)
LEMMA LeftModes ==
  ASSUME Typed, Modes, NEW n \in 0 .. Depth, Left(n),
         PicksNow(Ctx) \/ \E r \in OpenBarriers : PicksNow(cstack[r].saved)
  PROVE  Modes' /\ now'.rd = now.rd
<1>1. /\ cstack' \in Seq(Activation) /\ Depth' = n /\ n \in Nat
      /\ \A k \in 1 .. n : cstack'[k] = cstack[k] /\ Depth \in Nat
  BY Unwound, ControlTyped DEF Typed
<1>2. OpenBarriers = {k \in 1 .. Depth : cstack[k].how \in Barriers}
  BY BarriersAre
<1>3. DOMAIN cstack' = 1 .. n
  BY <1>1 DEF Depth
<1>4. OpenBarriers' = {k \in 1 .. n : cstack'[k].how \in Barriers}
  BY <1>3 DEF OpenBarriers
<1>5. \A k \in 1 .. n : k \in 1 .. Depth
  BY <1>1
<1>6. \A k \in OpenBarriers' : k \in OpenBarriers /\ cstack'[k] = cstack[k]
  BY <1>1, <1>2, <1>4, <1>5
<1>7. now' = ts'[cur']
  BY DEF now
<1>8. now'.rd = now.rd
  <2>1. Ctx \in Context /\ Ctx.rd = now.rd
    BY CtxTyped DEF Ctx, SaveTaint
  <2>2. CASE PicksNow(Ctx)
    BY <1>7, <2>1, <2>2, PicksMode DEF PicksNow
  <2>3. CASE \E r \in OpenBarriers : PicksNow(cstack[r].saved)
    BY <1>7, <2>3, BarriersAre, PicksMode DEF PicksNow, Modes
  <2> QED
    BY <2>2, <2>3
<1> QED
  BY <1>6, <1>8 DEF Modes

LEMMA ReturnToCModes ==
  ASSUME Typed, ControlInv, Modes, NEW wanted \in BOOLEAN, ReturnToC(wanted)
  PROVE  Modes' /\ now'.rd = now.rd
<1>1. Depth \in 1 .. Depth /\ Left(Depth - 1) /\ Depth - 1 \in 0 .. Depth
  BY ReturnToCTo, ControlTyped
<1>2. CASE Restores(cstack[Depth])
  <2>1. Depth \in OpenBarriers
    BY <1>1, <1>2, BarriersAre DEF Restores
  <2> QED
    BY <1>1, <1>2, <2>1, ReturnToCTo, LeftModes
<1>3. CASE ~Restores(cstack[Depth])
  BY <1>1, <1>3, ReturnToCTo, LeftModes
<1> QED
  BY <1>2, <1>3

LEMMA CatchModes ==
  ASSUME Typed, ControlInv, Modes, NEW k \in 1 .. Depth, Innermost(k),
         NEW x, NEW err \in Value, Catch(k, x, err), NEW c \in Context, Picks(c, x),
         c = Ctx \/ \E r \in OpenBarriers : c = cstack[r].saved
  PROVE  Modes' /\ now'.rd = now.rd
<1>1. k - 1 \in 0 .. Depth /\ k \in 0 .. Depth
  BY ControlTyped
<1>2. PICK n \in 0 .. Depth :
        Left(n) /\ (PicksNow(c) \/ \E r \in OpenBarriers : PicksNow(cstack[r].saved))
  BY <1>1, CatchTo
<1> QED
  BY <1>2, LeftModes

LEMMA ErrorModes ==
  ASSUME Typed, ControlInv, Modes, ErrorStep
  PROVE  Modes' /\ now'.rd = now.rd
<1>1. /\ DOMAIN cstack = 1 .. Depth /\ Len(cstack) = Depth /\ Depth \in Nat
      /\ Computed \in Value /\ top.val \in Value
  BY CurIs, NowTyped, ComputedTyped DEF Typed, Depth
<1>2. PICK v \in Value : Throw(v)
  BY <1>1 DEF ErrorStep, LuaError, CError, Rethrow
<1>3. PICK k \in 1 .. Depth :
        /\ Innermost(k)
        /\ \/ Catch(k, now, v)
           \/ \E r \in k + 1 .. Depth :
                /\ cstack[r].how \in Rethrowers
                /\ Catch(k, LoadTaint(now, cstack[r].saved),
                         IF cstack[r].how = "peek" THEN Secure ELSE Labelled(cstack[r].saved.stack))
  BY <1>1, <1>2 DEF Throw
<1>4. CASE Catch(k, now, v)
  BY <1>3, <1>4, CtxTyped, CatchModes
<1>5. ASSUME NEW r \in k + 1 .. Depth, cstack[r].how \in Rethrowers,
             Catch(k, LoadTaint(now, cstack[r].saved),
                   IF cstack[r].how = "peek" THEN Secure ELSE Labelled(cstack[r].saved.stack))
      PROVE  Modes' /\ now'.rd = now.rd
  <2> DEFINE c == cstack[r].saved
             x == LoadTaint(now, c)
             err == IF cstack[r].how = "peek" THEN Secure ELSE Labelled(c.stack)
  <2>1. r \in OpenBarriers
    BY <1>1, <1>5, BarriersAre DEF Barriers
  <2>2. c \in Context /\ c.stack \in TaintOrNull
    BY <2>1, BarriersAre DEF Context
  <2>3. err \in Value /\ Picks(c, x)
    BY <2>2, NowTyped, LabelledTyped, SecureTyped, PicksLoad
  <2>4. Catch(k, x, err)
    BY <1>5
  <2>5. c = cstack[r].saved
    OBVIOUS
  <2> HIDE DEF c, x, err
  <2> QED
    BY <1>3, <2>1, <2>2, <2>3, <2>4, <2>5, CatchModes
<1> QED
  BY <1>3, <1>4, <1>5

LEMMA ExplicitModes ==
  ASSUME Typed, Modes, NoModeSetters, ExplicitStep
  PROVE  Modes' /\ now'.rd = now.rd
<1>1. /\ "settaint" \notin Lib /\ "settaintmode" \notin Lib
      /\ now = ts[cur] /\ cur \in Thread /\ now \in ThreadTaint
  BY NowTyped DEF NoModeSetters
<1>2. PICK t \in Thread, taint \in TaintOrNull :
        ApiSetNewGCTaint(t, taint) \/ ApiSetNewClosureTaint(t, taint)
  BY <1>1 DEF ExplicitStep, ApiSetStackTaint, ApiSetTaintMode, ApiSetValueTaint, ApiSetObjectTaint,
     ApiClearTaint, ApiResetTaint
<1>3. UNCHANGED cstack /\ ts'[cur].rd = ts[cur].rd
  <2>1. ts[t] \in ThreadTaint
    BY DEF Typed
  <2>2. [ts[t] EXCEPT !.newgc = taint].rd = ts[t].rd /\ [ts[t] EXCEPT !.newcl = taint].rd = ts[t].rd
    BY <2>1 DEF ThreadTaint
  <2> QED
    BY <1>1, <1>2, <2>2 DEF ApiSetNewGCTaint, ApiSetNewClosureTaint, Api, Typed
<1>4. cur' = cur /\ now' = ts'[cur']
  BY <1>3 DEF cur, now
<1> QED
  BY <1>1, <1>3, <1>4 DEF Modes, OpenBarriers

LEMMA InitModes == Init => Modes
  BY DEF Init, Modes, OpenBarriers

LEMMA StepModes ==
  ASSUME Typed, ControlInv, Modes, NoModeSetters, [Next]_vars
  PROVE  Modes' /\ now'.rd = now.rd
<1>1. CASE UNCHANGED vars
  BY <1>1, AsUnchanged, AutomaticModes DEF vars
<1>2. ASSUME NEW wanted \in BOOLEAN,
             ReturnToLua(wanted) \/ CoReturn(wanted) \/ CoCallReturn(wanted)
      PROVE  Automatic
  BY <1>2, ReturnToLuaContext, CoReturnContext, CoCallReturnContext
<1>3. CASE \E wanted \in BOOLEAN : ReturnToC(wanted)
  BY <1>3, ReturnToCModes
<1>4. CASE Move \/ CallStep \/ CoroutineStep \/ EnvironmentStep
  BY <1>4, MoveContext, CallContext, CoroutineContext, EnvironmentContext, AutomaticModes
<1> QED
  BY <1>1, <1>2, <1>3, <1>4, ErrorModes, ExplicitModes, AutomaticModes DEF Next, ReturnStep
-----------------------------------------------------------------------------
(* Part 18: finalizers.                                                    *)

(* C frames that an error never has to cross a finalizer to leave.         *)
LEMMA CatchLeavesNoFinalizer ==
  ASSUME Typed, Depth \in Nat, NEW k \in 1 .. Depth, Innermost(k),
         \A j \in k + 1 .. Len(cstack) : cstack[j].how # "gc",
         NEW x, NEW err, Catch(k, x, err),
         NEW i \in 1 .. Depth, cstack[i].how = "gc"
  PROVE  Len(cstack') >= i
<1>1. cstack[k].how # "gc" /\ k \in Nat /\ i \in Nat /\ i # k
  BY DEF Innermost, Catchers
<1>2. i < k
  BY <1>1 DEF Depth
<1>3. Left(k - 1) \/ Left(k)
  BY DEF Catch, Left
<1>4. k - 1 \in 0 .. Depth /\ k \in 0 .. Depth
  BY <1>1
<1>5. Depth' = k - 1 \/ Depth' = k
  BY <1>3, <1>4, Unwound DEF Typed
<1> QED
  BY <1>1, <1>2, <1>5 DEF Depth

LEMMA ThrowLeavesNoFinalizer ==
  ASSUME Typed, "gcerror" \notin Lib, NEW v, Throw(v),
         NEW i \in 1 .. Depth, cstack[i].how = "gc"
  PROVE  Len(cstack') >= i
<1>1. Depth \in Nat /\ DOMAIN cstack = 1 .. Depth
  BY CurIs DEF Typed
<1>2. PICK k \in 1 .. Depth : \E x, err :
        /\ Innermost(k)
        /\ \A j \in k + 1 .. Len(cstack) : cstack[j].how # "gc"
        /\ Catch(k, x, err)
  BY <1>1 DEF Throw
<1> QED
  BY <1>1, <1>2, CatchLeavesNoFinalizer

(* The only activation that an action other than an error closes is the    *)
(* innermost one.                                                          *)
LEMMA PoppedAbove ==
  ASSUME Typed, cstack # <<>>, cstack' = Front(cstack), NEW i \in 1 .. Depth, Len(cstack') < i
  PROVE  i = Depth /\ Last(cstack) = cstack[i]
<1>1. Depth \in 1 .. Depth /\ Left(Depth - 1) /\ Depth \in Nat /\ cstack \in Seq(Activation)
  BY LeftFront, CurIs DEF Typed
<1>2. Depth - 1 \in 0 .. Depth
  BY <1>1
<1>3. Depth' = Depth - 1
  BY <1>1, <1>2, Unwound
<1>4. i = Depth
  BY <1>1, <1>3 DEF Depth
<1> QED
  BY <1>1, <1>4, CurIs

(* C code that called on its own thread goes on on that thread.            *)
LEMMA SameThreadBelow ==
  ASSUME Typed, ControlInv, cstack # <<>>, cstack' = Front(cstack), Last(cstack).how \notin Switch
  PROVE  cur' = cur
<1>1. Depth \in 1 .. Depth /\ Left(Depth - 1) /\ Depth \in Nat /\ cstack \in Seq(Activation)
  BY LeftFront, CurIs DEF Typed
<1>2. Depth - 1 \in 0 .. Depth /\ Depth > 0
  BY <1>1
<1>3. cur' = IF Depth - 1 = 0 THEN Main ELSE cstack[Depth - 1].t
  BY <1>1, <1>2, Unwound
<1>4. cur' = Below(Depth)
  BY <1>1, <1>3 DEF Below
<1>5. Last(cstack) = cstack[Depth] /\ cur = cstack[Depth].t
  BY <1>1, <1>2, CurIs
<1> QED
  BY <1>1, <1>4, <1>5 DEF ControlInv, Linking

LEMMA ReturnRestoresFinalizer ==
  ASSUME Typed, ControlInv, "gctaint" \notin Lib, NEW wanted \in BOOLEAN, ReturnToC(wanted),
         NEW i \in 1 .. Depth, cstack[i].how = "gc", Len(cstack') < i
  PROVE  SaveTaint(ts'[cur']).stack = cstack[i].saved.stack
<1> DEFINE a == Last(cstack)
           x == AfterMove(wanted)
<1>1. AtActivation /\ cstack' = Front(cstack) /\ Tainted(cur, Resumed(a, x))
  BY DEF ReturnToC, Tainted
<1>2. a = cstack[i]
  BY <1>1, PoppedAbove DEF AtActivation
<1>3. a \in Activation /\ a.saved \in Context
  BY <1>1, TopActivation DEF Activation
<1>4. x \in ThreadTaint /\ cur \in Thread
  BY NowTyped, AfterMoveTyped
<1>5. Resumed(a, x) = LoadTaint(x, a.saved)
  BY <1>2 DEF Resumed, Barriers
<1> HIDE DEF x, a
<1>6. /\ LoadTaint(x, a.saved) \in ThreadTaint
      /\ LoadTaint(x, a.saved).stack = a.saved.stack
  BY <1>3, <1>4, LoadTaintTyped
<1>7. ts'[cur] = LoadTaint(x, a.saved)
  BY <1>1, <1>4, <1>5, <1>6, TaintedIs
<1>8. cur' = cur
  <2>1. cstack # <<>> /\ Last(cstack).how \notin Switch
    BY <1>1, <1>2 DEF AtActivation, Switch, a
  <2> QED
    BY <1>1, <2>1, SameThreadBelow
<1> QED
  BY <1>2, <1>6, <1>7, <1>8 DEF SaveTaint

LEMMA StepKeepsFinalizers ==
  ASSUME Typed, ControlInv, Lib \cap {"gctaint", "gcerror"} = {}, [Next]_vars
  PROVE  \A i \in DOMAIN cstack :
           cstack[i].how = "gc" /\ Len(cstack') < i =>
             SaveTaint(ts'[cur']).stack = cstack[i].saved.stack
<1>0. /\ Depth \in Nat /\ DOMAIN cstack = 1 .. Depth /\ cstack \in Seq(Activation)
      /\ "gctaint" \notin Lib /\ "gcerror" \notin Lib
  BY CurIs DEF Typed
<1> SUFFICES ASSUME NEW i \in 1 .. Depth, cstack[i].how = "gc", Len(cstack') < i
             PROVE  SaveTaint(ts'[cur']).stack = cstack[i].saved.stack
  BY <1>0
<1>1. ASSUME UNCHANGED cstack PROVE FALSE
  BY <1>0, <1>1 DEF Depth
<1>2. ASSUME NEW a, cstack' = Append(cstack, a) PROVE FALSE
  <2>1. Len(cstack') = Depth + 1
    BY <1>2 DEF Depth, Typed
  <2> QED
    BY <1>0, <2>1
<1>3. CASE Move \/ ExplicitStep \/ EnvironmentStep \/ UNCHANGED vars
  <2>1. UNCHANGED cstack
    BY <1>3 DEF Move, Read, Store, Compute, NewClosure, ExplicitStep, EnvironmentStep, Api,
       ApiSetStackTaint, ApiSetTaintMode, ApiSetNewGCTaint, ApiSetNewClosureTaint, ApiClearTaint,
       ApiSetValueTaint, ApiSetObjectTaint, ApiResetTaint, ForceInsecure, LoadString, GetFenv,
       SetFenv, vars
  <2> QED
    BY <1>1, <2>1
<1>4. CASE CallStep
  <2>1. UNCHANGED cstack \/ \E a : cstack' = Append(cstack, a)
    BY <1>4 DEF CallStep, LuaCall, TailCall, CallC, Call, PCall, SecureCall, DelegateCall, MetaCall,
       PeekCall, Finalize, CallHook, CallFromC, Activate
  <2> QED
    BY <1>1, <1>2, <2>1
<1>5. ASSUME NEW wanted \in BOOLEAN,
             ReturnToLua(wanted) \/ ReturnToC(wanted) \/ CoReturn(wanted) \/ CoCallReturn(wanted)
      PROVE  SaveTaint(ts'[cur']).stack = cstack[i].saved.stack
  <2>1. CASE ReturnToLua(wanted) \/ CoReturn(wanted)
    BY <1>1, <2>1 DEF ReturnToLua, CoReturn
  <2>2. CASE ReturnToC(wanted)
    BY <1>0, <2>2, ReturnRestoresFinalizer
  <2>3. CASE CoCallReturn(wanted)
    <3>1. cstack # <<>> /\ cstack' = Front(cstack) /\ Last(cstack).how = "cocall"
      BY <2>3 DEF CoCallReturn, AtActivation
    <3> QED
      BY <3>1, PoppedAbove
  <2> QED
    BY <1>5, <2>1, <2>2, <2>3
<1>6. CASE ErrorStep
  <2>1. \E v : Throw(v)
    BY <1>6 DEF ErrorStep, LuaError, CError, Rethrow
  <2>2. Len(cstack') >= i
    BY <1>0, <2>1, ThrowLeavesNoFinalizer
  <2>3. Len(cstack') \in Nat
    BY StepControl DEF Typed
  <2> DEFINE n == Len(cstack')
  <2>4. n \in Nat /\ n >= i /\ n < i
    BY <2>2, <2>3
  <2> HIDE DEF n
  <2> QED
    BY <1>0, <2>4
<1>7. CASE CoroutineStep
  <2>1. CASE FinishResume
    <3>1. Depth > 0 /\ cstack[Depth].how = "resume" /\ cstack' = Front(cstack)
      BY <2>1 DEF FinishResume, ControlInv, Statuses
    <3>2. cstack # <<>>
      BY <3>1 DEF Depth
    <3> QED
      BY <3>1, <3>2, PoppedAbove
  <2>2. CASE ~FinishResume
    <3>1. UNCHANGED cstack \/ \E a : cstack' = Append(cstack, a)
      BY <1>7, <2>2 DEF CoroutineStep, ResumeFresh, ResumeYielded, CoCreate, CoCall, Yield, ActivateOn
    <3> QED
      BY <1>1, <1>2, <3>1
  <2> QED
    BY <2>1, <2>2
<1> QED
  BY <1>3, <1>4, <1>5, <1>6, <1>7 DEF Next, ReturnStep

(* GCTM runs a __gc metamethod with the taint state it interrupted saved,  *)
(* and gives it back: unless the build defines LUA_COMPATGCTAINT           *)
(* ("gctaint") or the metamethod raises an error that reaches past GCTM    *)
(* ("gcerror"), no step leaves a finalizer without that.                   *)
THEOREM FinalizersGiveBackTaint ==
  Lib \cap {"gctaint", "gcerror"} = {} => (Spec => FinalizersAreBarriers)
<1> SUFFICES ASSUME Lib \cap {"gctaint", "gcerror"} = {} PROVE Spec => FinalizersAreBarriers
  OBVIOUS
<1>1. Typed /\ ControlInv /\ [Next]_vars =>
        [\A i \in DOMAIN cstack :
           cstack[i].how = "gc" /\ Len(cstack') < i =>
             SaveTaint(ts'[cur']).stack = cstack[i].saved.stack]_vars
  BY StepKeepsFinalizers
<1> QED
  BY <1>1, StacksAreTyped, PTL DEF Spec, FinalizersAreBarriers
-----------------------------------------------------------------------------
(* Part 19: only the running Lua frame keeps a pin, and while it does the  *)
(* stack taint it reads by is the pinned one.                              *)
Coincides(x) == x.fixed # NULL /\ x.rd => x.stack = x.fixed

(* It is what luaV_execute last gave thread u when it (re)entered a frame. *)
PinIsEntry(u) == ts[u].fixed # NULL /\ ts[u].rd => ci[u][Len(ci[u])].ent = ts[u].fixed

(* Thread u may keep a pin, and no other.                                  *)
PinnedOnly(u) ==
  /\ \A t \in Thread : t # u => ts[t].fixed = NULL
  /\ ci[u][Len(ci[u])].kind = "lua" \/ ts[u].fixed = NULL
  /\ ctl \in {"returned", "yielded"} => ts[u].fixed = NULL
  /\ "hook" \notin Lib /\ ctl # "failed" => Coincides(ts[u])
  /\ NoModeSetters => PinIsEntry(u)

PinInv == PinnedOnly(cur)

(* A hook holds the pin of the frame it interrupted.                       *)
HookEntries ==
  \A k \in 1 .. Depth :
    cstack[k].how = "hook" /\ cstack[k].fix # NULL /\ now.rd =>
      ci[cstack[k].t][cstack[k].at].ent = cstack[k].fix

(* Only a build with hooks calls one.                                      *)
HooksAllowed == \A k \in 1 .. Depth : cstack[k].how = "hook" => "hook" \in Lib

(* Lua code is entered with the pin and the stack taint its closure says.  *)
LEMMA ReenterCoincides ==
  ASSUME NEW x \in ThreadTaint, NEW taint \in TaintOrNull
  PROVE  Coincides(Reenter(x, taint))
  BY ReenterTyped DEF Coincides

LEMMA EnteredCoincides ==
  ASSUME clo \in [Closure -> TaintOrNull],
         NEW x \in ThreadTaint, NEW f \in Callee, NEW v \in Value
  PROVE  Coincides(Entered(x, f, v))
  BY EnteredTyped DEF Coincides

LEMMA LastOfWithTop ==
  ASSUME NEW S, NEW s \in Seq(S), Len(s) >= 1, NEW e
  PROVE  Last(WithTop(s, e)) = e
<1>1. Front(s) \in Seq(S)
  BY FrontOf
<1> DEFINE q == Front(s)
<1> HIDE DEF q
<1>2. Last(Append(q, e)) = e
  BY <1>1 DEF Last, q
<1> QED
  BY <1>2 DEF q, WithTop

(* Steps of a frame that goes on running.                                  *)
LEMMA QuietPin ==
  ASSUME Typed, PinInv, UNCHANGED <<cstack, ctl>>,
         \A t \in Thread : ts'[t].fixed = ts[t].fixed,
         ts'[cur] = ts[cur] \/ ts[cur].fixed = NULL,
         SameShape(ci[cur], ci'[cur]),
         Last(ci'[cur]).ent = Last(ci[cur]).ent \/ ts[cur].fixed = NULL, Typed'
  PROVE  PinInv'
<1>1. cur' = cur /\ cur \in Thread
  BY NowTyped DEF cur
<1>2. ci'[cur][Len(ci'[cur])].kind = ci[cur][Len(ci[cur])].kind
  <2>1. Len(ci[cur]) \in 1 .. Len(ci[cur])
    BY NowTyped
  <2> QED
    BY <2>1 DEF SameShape
<1>3. PinnedOnly(cur)
  BY DEF PinInv
<1>4. "hook" \notin Lib /\ ctl' # "failed" => Coincides(ts'[cur])
  BY <1>1, <1>3 DEF PinnedOnly, Coincides
<1>5. ASSUME NoModeSetters, ts'[cur].fixed # NULL, ts'[cur].rd
      PROVE  ci'[cur][Len(ci'[cur])].ent = ts'[cur].fixed
  <2>1. /\ Last(ci[cur]) = ci[cur][Len(ci[cur])]
        /\ Last(ci'[cur]) = ci'[cur][Len(ci'[cur])]
    BY <1>1, TopOf DEF Typed
  <2>2. ts'[cur] = ts[cur] /\ Last(ci'[cur]).ent = Last(ci[cur]).ent
    BY <1>1, <1>5
  <2> QED
    BY <1>3, <1>5, <2>1, <2>2 DEF PinnedOnly, PinIsEntry
<1> QED
  BY <1>1, <1>2, <1>3, <1>4, <1>5 DEF PinInv, PinnedOnly, PinIsEntry

(* Steps after which nothing is pinned.                                    *)
LEMMA ClearPin ==
  ASSUME Typed', \A t \in Thread : ts'[t].fixed = NULL
  PROVE  PinInv'
<1>1. cur' \in Thread
  <2>1. cstack' \in Seq(Activation)
    BY DEF Typed
  <2>2. cstack' # <<>> => Last(cstack') \in Activation
    BY <2>1, LastOf
  <2> QED
    BY <2>2, ThreadAssumption DEF cur, Activation
<1> QED
  BY <1>1 DEF PinInv, PinnedOnly, Coincides, PinIsEntry

(* Steps that give thread u a new taint state.                             *)
LEMMA SwitchPin ==
  ASSUME NEW u, cur' = u,
         \A t \in Thread : t # u => ts'[t].fixed = NULL,
         ci'[u][Len(ci'[u])].kind = "lua" \/ ts'[u].fixed = NULL,
         ctl' \in {"returned", "yielded"} => ts'[u].fixed = NULL,
         "hook" \notin Lib /\ ctl' # "failed" => Coincides(ts'[u]),
         NoModeSetters /\ ts'[u].fixed # NULL /\ ts'[u].rd =>
             ci'[u][Len(ci'[u])].ent = ts'[u].fixed
  PROVE  PinInv'
  BY DEF PinInv, PinnedOnly, PinIsEntry

LEMMA RevaluedEntry ==
  ASSUME NEW s \in GoodFrames, NEW v \in Value
  PROVE  Last(WithVal(s, v)).ent = Last(s).ent
<1> DEFINE r == WithVal(s, v)
           e == [Last(s) EXCEPT !.val = v]
<1>1. r \in GoodFrames /\ Len(r) = Len(s) /\ r[Len(s)] = e
  BY RevaluedTop
<1>2. e.ent = Last(s).ent
  BY TopOf DEF Frame
<1> HIDE DEF r, e
<1>3. Last(r) = r[Len(r)]
  BY <1>1, TopOf
<1> QED
  BY <1>1, <1>2, <1>3 DEF r

LEMMA UnpinnedThread ==
  ASSUME PinInv
  PROVE  /\ \A t \in Thread : t # cur => ts[t].fixed = NULL
         /\ top.kind # "lua" /\ Typed => now.fixed = NULL
  BY NowTyped DEF PinInv, PinnedOnly

LEMMA MovePin ==
  ASSUME Typed, ControlInv, PinInv, Move
  PROVE  PinInv'
<1>9. Typed'
  BY MovesStep
<1>0. cur \in Thread /\ now \in ThreadTaint /\ now = ts[cur] /\ ci[cur] \in GoodFrames
      /\ top.val \in Value
  BY NowTyped
<1>1. ASSUME NEW c \in Cell, Read(c) PROVE PinInv'
  <2> DEFINE x == TaintStack(now, heap[c].taint)
             r == WithVal(ci[cur], Moved(now, heap[c]))
  <2>1. x \in ThreadTaint /\ x.fixed = now.fixed /\ (now.fixed # NULL => x = now)
    BY <1>0, PassedOn, TaintStackTyped
  <2>2. r \in GoodFrames /\ SameShape(ci[cur], r) /\ Last(r).ent = Last(ci[cur]).ent
    BY <1>0, PassedOn, MovedTyped, RevaluedShape, RevaluedEntry
  <2>3. Tainted(cur, x) /\ Framed(cur, r) /\ UNCHANGED <<cstack, ctl>>
    BY <1>1 DEF Read, Tainted, Framed
  <2> HIDE DEF x, r
  <2>4. ts'[cur] = x /\ \A u \in Thread : u # cur => ts'[u] = ts[u]
    BY <1>0, <2>1, <2>3, TaintedIs
  <2>5. ci'[cur] = r
    BY <1>0, <2>2, <2>3, FramedIs
  <2> QED
    BY <1>0, <1>9, <2>1, <2>2, <2>3, <2>4, <2>5, QuietPin
<1>2. CASE Compute \/ \E f \in Closure : NewClosure(f)
  <2> DEFINE r == WithVal(ci[cur], Computed)
  <2>1. r \in GoodFrames /\ SameShape(ci[cur], r) /\ Last(r).ent = Last(ci[cur]).ent
    BY <1>0, NowTyped, ComputedTyped, RevaluedShape, RevaluedEntry
  <2>2. Framed(cur, r) /\ UNCHANGED <<ts, cstack, ctl>>
    BY <1>2 DEF Compute, NewClosure, Framed
  <2> HIDE DEF r
  <2>3. ci'[cur] = r
    BY <1>0, <2>1, <2>2, FramedIs
  <2> QED
    BY <1>9, <2>1, <2>2, <2>3, QuietPin
<1>3. ASSUME NEW c \in Cell, Store(c) PROVE PinInv'
  BY <1>3, <1>9, QuietPin, SameShapeReflexive DEF Store
<1> QED
  BY <1>1, <1>2, <1>3 DEF Move

-----------------------------------------------------------------------------
(* Calls.                                                                  *)
LEMMA PrecallPin ==
  ASSUME Typed, PinInv, ctl' = "run", NEW t \in Thread, t = cur \/ top.kind # "lua",
         NEW x \in ThreadTaint, NEW f \in Callee, NEW v \in Value,
         Precall(t, x, f, v), cur' = t
  PROVE  PinInv'
<1>1. /\ ts'[t] = Entered(x, f, v) /\ ci' \in [Thread -> GoodFrames]
      /\ \A u \in Thread : u # t => ts'[u] = ts[u]
      /\ Last(ci'[t]).kind = IF f = NULL THEN "c" ELSE "lua"
  BY PrecallIs
<1>2. \A u \in Thread : u # t => ts[u].fixed = NULL
  BY UnpinnedThread, NowTyped
<1>3. /\ Coincides(Entered(x, f, v))
      /\ f = NULL => Entered(x, f, v).fixed = NULL
  BY EnteredCoincides, EnteredTyped DEF Typed
<1>4. Last(ci'[t]) = ci'[t][Len(ci'[t])]
  BY <1>1, TopOf
<1>5. ci'[t][Len(ci'[t])].kind = "lua" \/ ts'[t].fixed = NULL
  BY <1>1, <1>3, <1>4
<1>6. ts'[t].fixed # NULL /\ ts'[t].rd => Last(ci'[t]).ent = ts'[t].fixed
  <2>1. /\ Entered(x, f, v).rd = x.rd
        /\ Entered(x, f, v).fixed = IF f = NULL THEN NULL ELSE clo[f]
    BY EnteredTyped DEF Typed
  <2>2. CallFrame(x, f, v).ent = IF f # NULL /\ x.rd THEN clo[f] ELSE NULL
    BY CallFrameTyped DEF Typed
  <2>3. Last(ci'[t]) = CallFrame(x, f, v)
    <3>1. ci'[t] = Called(ci[t], x, f, v)
      BY PrecallIs
    <3>2. Last(Called(ci[t], x, f, v)) = CallFrame(x, f, v)
      BY CalledFrames DEF Typed
    <3> QED
      BY <3>1, <3>2
  <2> QED
    BY <1>1, <2>1, <2>2, <2>3
<1> QED
  BY <1>1, <1>2, <1>3, <1>4, <1>5, <1>6, SwitchPin

LEMMA CallPin ==
  ASSUME Typed, ControlInv, PinInv, CallStep
  PROVE  PinInv'
<1>0. cur \in Thread /\ now \in ThreadTaint /\ "uninit" \notin TaintOrNull
  BY NowTyped, TaintAssumption
<1>1. ASSUME ctl = "run", UNCHANGED ctl,
             NEW x \in ThreadTaint, NEW f \in Callee, NEW v \in Value,
             Precall(cur, x, f, v), cur' = cur
      PROVE  PinInv'
  BY <1>0, <1>1, PrecallPin
<1>2. ASSUME NEW how, NEW fix, Activate(how, fix) PROVE cur' = cur
  <2>1. cstack \in Seq(Activation)
    BY DEF Typed
  <2> DEFINE a == [how |-> how, t |-> cur, from |-> cur, at |-> Len(ci[cur]),
                   saved |-> SavedBy(how), fix |-> fix]
  <2>2. cstack' = Append(cstack, a) /\ a.t = cur
    BY <1>2 DEF Activate
  <2> HIDE DEF a
  <2>3. cstack' # <<>> /\ Last(cstack') = a
    BY <2>1, <2>2 DEF Last
  <2> QED
    BY <2>2, <2>3 DEF cur
<1>3. ASSUME NEW f \in Closure, LuaCall(f) PROVE PinInv'
  <2>1. cur' = cur
    BY <1>3 DEF LuaCall, cur
  <2> QED
    BY <1>1, <1>3, <2>1, PassedOn DEF LuaCall, InLua, Running
<1>4. CASE CallC
  <2>1. cur' = cur
    BY <1>4 DEF CallC, cur
  <2> QED
    BY <1>1, <1>4, <2>1, PassedOn DEF CallC, InLua, Running
<1>5. ASSUME NEW f \in Closure, TailCall(f) PROVE PinInv'
  <2> DEFINE x == TaintStack(now, top.val.taint)
             v == Moved(now, top.val)
             z == TaintStack(Unpin(x), v.taint)
             y == Reenter(z, clo[f])
             e == CallFrame(x, f, v)
             r == WithTop(ci[cur], e)
  <2>1. /\ x \in ThreadTaint /\ v \in Value /\ v.taint \in TaintOrNull /\ clo[f] \in TaintOrNull
        /\ f \in Callee /\ f # NULL
    BY PassedOn, MovedTyped, ClosureAssumption DEF Typed, Callee
  <2>2. Tainted(cur, y) /\ Framed(cur, r) /\ UNCHANGED <<cstack, ctl>> /\ ctl = "run"
        /\ top.kind = "lua"
    BY <1>5 DEF TailCall, InLua, Running, Tainted, Framed
  <2> HIDE DEF x, v
  <2>3. z \in ThreadTaint /\ z.rd = x.rd
    BY <2>1, UnpinTyped, TaintStackTyped
  <2> HIDE DEF z
  <2>4. y \in ThreadTaint /\ Coincides(y) /\ y.rd = x.rd /\ y.fixed = clo[f]
    BY <2>1, <2>3, ReenterTyped, ReenterCoincides
  <2>5. e \in Frame /\ e.kind = "lua" /\ e.ent = IF x.rd THEN clo[f] ELSE NULL
    BY <2>1, CallFrameTyped DEF Typed
  <2> HIDE DEF y, e
  <2>6. Last(ci'[cur]).kind = "lua" /\ ci'[cur] \in GoodFrames /\ Last(ci'[cur]).ent = e.ent
    <3>1. ci'[cur] = r
      BY <1>0, <2>2 DEF Framed, Typed
    <3>2. ci[cur] \in GoodFrames /\ Len(ci[cur]) >= 1
      BY NowTyped
    <3>3. Last(r) = e
      BY <3>2, LastOfWithTop DEF GoodFrames
    <3>4. ci'[cur] \in GoodFrames
      BY <1>0, <1>5, TailCallStep DEF Typed
    <3> QED
      BY <2>5, <3>1, <3>3, <3>4
  <2>7. ts'[cur] = y /\ \A u \in Thread : u # cur => ts'[u] = ts[u]
    BY <1>0, <2>2, <2>4, TaintedIs
  <2>8. /\ ci'[cur][Len(ci'[cur])].kind = "lua" /\ cur' = cur
        /\ ci'[cur][Len(ci'[cur])].ent = e.ent
    BY <2>2, <2>6, TopOf DEF cur
  <2>9. ts'[cur].rd => ci'[cur][Len(ci'[cur])].ent = ts'[cur].fixed
    BY <2>4, <2>5, <2>7, <2>8
  <2> QED
    BY <2>2, <2>4, <2>7, <2>8, <2>9, UnpinnedThread, SwitchPin
<1>6. ASSUME NEW how, NEW x \in ThreadTaint, NEW f \in Callee, NEW v \in Value,
             CallFromC(how, x, f, v)
      PROVE  PinInv'
  BY <1>1, <1>2, <1>6 DEF CallFromC, InC, Running
<1>7. ASSUME NEW f \in Callee, Call(f) \/ PCall(f) \/ SecureCall(f) \/ DelegateCall(f) PROVE PinInv'
  BY <1>6, <1>7, PassedOn DEF Call, PCall, SecureCall, DelegateCall
<1>8. ASSUME NEW f \in Callee, NEW c \in Cell, PeekCall(c, f) PROVE PinInv'
  BY <1>6, <1>8, PassedOn DEF PeekCall
<1>9. ASSUME NEW f \in Callee, NEW c \in Cell, MetaCall(c, f) \/ Finalize(c, f) \/ CallHook(c, f)
      PROVE  PinInv'
  <2>1. cur' = cur
    BY <1>2, <1>9 DEF MetaCall, Finalize, CallHook
  <2> QED
    BY <1>1, <1>9, <2>1, PassedOn DEF MetaCall, Finalize, CallHook, InLua, Running
<1> QED
  BY <1>3, <1>4, <1>5, <1>7, <1>8, <1>9 DEF CallStep
-----------------------------------------------------------------------------
(* Returns and errors.                                                     *)
LEMMA ReturnToLuaPin ==
  ASSUME Typed, ControlInv, PinInv, NEW wanted \in BOOLEAN, ReturnToLua(wanted)
  PROVE  PinInv'
<1> DEFINE caller == Last(Front(ci[cur]))
           z == AfterMove(wanted)
           x == IF top.kind = "lua" THEN Reenter(z, clo[caller.fn]) ELSE z
<1>1. /\ Running({"lua", "c"}) /\ ~AtActivation /\ caller.kind = "lua"
      /\ UNCHANGED <<cstack, ctl>>
  BY DEF ReturnToLua
<1>2. Tainted(cur, x)
  <2>1. CASE top.kind = "lua"
    BY <2>1 DEF ReturnToLua, Tainted
  <2>2. CASE top.kind # "lua"
    BY <2>2 DEF ReturnToLua, Tainted
  <2> QED
    BY <2>1, <2>2
<1>3. /\ cur \in Thread /\ caller.fn \in Closure /\ z \in ThreadTaint /\ z.fixed = NULL
      /\ z.rd = now.rd
  BY <1>1, CallerIs, NowTyped, AfterMoveTyped
<1>4. clo[caller.fn] \in TaintOrNull
  BY <1>3 DEF Typed
<1> HIDE DEF z
<1>5. /\ x \in ThreadTaint /\ Coincides(x) /\ x.rd = now.rd
      /\ x.fixed = IF top.kind = "lua" THEN clo[caller.fn] ELSE NULL
  <2>1. Coincides(z)
    BY <1>3 DEF Coincides
  <2> QED
    BY <1>3, <1>4, <2>1, ReenterTyped, ReenterCoincides
<1> HIDE DEF x
<1>6. ts'[cur] = x /\ \A u \in Thread : u # cur => ts'[u] = ts[u]
  BY <1>2, <1>3, <1>5, TaintedIs
<1>7. /\ ci'[cur][Len(ci'[cur])].kind = "lua"
      /\ top.kind = "lua" /\ now.rd => ci'[cur][Len(ci'[cur])].ent = clo[caller.fn]
  <2> DEFINE frame == ReceivedBy(caller, wanted)
             e == IF top.kind = "lua" THEN [frame EXCEPT !.ent = Entry(now, frame.fn)] ELSE frame
             r == WithTop(Front(ci[cur]), e)
  <2>1. ci'[cur] = r
    <3>1. ci' = [ci EXCEPT ![cur] = r]
      BY DEF ReturnToLua
    <3> QED
      BY <1>3, <3>1 DEF Typed
  <2>2. frame \in Frame /\ frame.kind = "lua" /\ frame.fn = caller.fn
    BY <1>1, CallerIs, ReceivedTyped
  <2>3. e.kind = "lua" /\ (top.kind = "lua" /\ now.rd => e.ent = clo[caller.fn])
    <3>1. caller.fn # NULL
      BY <1>3, ClosureAssumption
    <3>2. now.rd => Entry(now, frame.fn) = clo[caller.fn]
      BY <2>2, <3>1 DEF Entry
    <3> HIDE DEF frame
    <3> QED
      BY <2>2, <3>2 DEF Frame
  <2>4. ci'[cur] \in GoodFrames
    BY <1>3, ReturnToLuaStep DEF Typed
  <2>5. Last(r) = e
    <3>1. Front(ci[cur]) \in Seq(Frame) /\ Len(Front(ci[cur])) >= 1
      BY <1>1, CallerIs DEF GoodFrames
    <3> QED
      BY <3>1, LastOfWithTop
  <2> QED
    BY <2>1, <2>3, <2>4, <2>5, TopOf
<1>8. cur' = cur /\ ctl' = "run"
  BY <1>1 DEF cur, Running
<1>9. ts'[cur].fixed # NULL /\ ts'[cur].rd => ci'[cur][Len(ci'[cur])].ent = ts'[cur].fixed
  BY <1>5, <1>6, <1>7
<1> QED
  BY <1>5, <1>6, <1>7, <1>8, <1>9, UnpinnedThread, SwitchPin

LEMMA HandOverClear ==
  ASSUME Typed, PinInv, NEW to \in Thread, NEW x \in ThreadTaint, x.fixed = NULL, NEW v \in Value,
         ts' = HandOver(to, cur, x, v)
  PROVE  \A t \in Thread : ts'[t].fixed = NULL
<1>1. cur \in Thread /\ v.taint \in TaintOrNull /\ ts[to] \in ThreadTaint /\ ts \in [Thread -> ThreadTaint]
  BY NowTyped DEF Value, Typed
<1>2. \A t \in Thread : t # cur => ts[t].fixed = NULL
  BY UnpinnedThread
<1> DEFINE z == TaintThread(ts[to], x)
           y == TaintStack(z, v.taint)
<1>3. z \in ThreadTaint /\ z.fixed = ts[to].fixed
  BY <1>1, TaintThreadTyped
<1> HIDE DEF z
<1>4. y.fixed = ts[to].fixed
  BY <1>1, <1>3, TaintStackTyped
<1>5. ts' = IF to = cur THEN [ts EXCEPT ![to] = x] ELSE [ts EXCEPT ![cur] = x, ![to] = y]
  BY DEF HandOver, y, z
<1> HIDE DEF y
<1> QED
  BY <1>1, <1>2, <1>4, <1>5

LEMMA ReturnToCPin ==
  ASSUME Typed, ControlInv, PinInv, HooksAllowed, NoModeSetters => HookEntries,
         NEW wanted \in BOOLEAN, ReturnToC(wanted)
  PROVE  PinInv'
<1> DEFINE a == Last(cstack)
           z == AfterMove(wanted)
           x == Resumed(a, z)
<1>1. /\ Running({"lua", "c"}) /\ AtActivation /\ Tainted(cur, x) /\ cstack' = Front(cstack)
      /\ a.how \notin Switch /\ cstack # <<>> /\ ctl = "run" /\ UNCHANGED ctl
  BY DEF ReturnToC, Tainted, Switch, AtActivation, Running
<1>2. cur \in Thread /\ z \in ThreadTaint /\ z.fixed = NULL /\ z.rd = now.rd
  BY NowTyped, AfterMoveTyped
<1>3. /\ a \in Activation /\ a.saved \in Context /\ a.fix \in TaintOrNull
      /\ a = cstack[Depth] /\ Depth \in 1 .. Depth /\ cstack[Depth].at = Len(ci[cur]) - 1
  BY <1>1, TopActivation DEF Activation
<1> HIDE DEF z
<1>4. x \in ThreadTaint /\ (a.how # "hook" => x.fixed = NULL)
  <2>1. x \in ThreadTaint
    BY <1>2, <1>3, ResumedTyped
  <2>2. LoadTaint(z, a.saved).fixed = NULL
    BY <1>2, <1>3, LoadTaintTyped
  <2>3. CASE a.how = "gc" /\ "gctaint" \in Lib
    BY <1>2, <2>1, <2>3 DEF Resumed
  <2>4. CASE a.how # "hook" /\ ~(a.how = "gc" /\ "gctaint" \in Lib)
    <3>1. x = IF a.how \in Barriers THEN LoadTaint(z, a.saved) ELSE z
      BY <2>4 DEF Resumed
    <3> QED
      BY <1>2, <2>1, <2>2, <3>1
  <2> QED
    BY <2>1, <2>3, <2>4
<1>9. a.how = "hook" => x.fixed = a.fix /\ x.rd = now.rd
  BY <1>2 DEF Resumed, ThreadTaint
<1> HIDE DEF x
<1>5. ts'[cur] = x /\ \A u \in Thread : u # cur => ts'[u] = ts[u]
  BY <1>1, <1>2, <1>4, TaintedIs
<1>6. cur' = cur
  BY <1>1, SameThreadBelow
<1>7. CASE a.how # "hook"
  <2>1. \A t \in Thread : ts'[t].fixed = NULL
    BY <1>4, <1>5, <1>7, UnpinnedThread
  <2> QED
    BY <2>1, ReturnToCStep, ClearPin
<1>8. CASE a.how = "hook"
  <2>1. "hook" \in Lib
    BY <1>3, <1>8 DEF HooksAllowed
  <2>2. ci[cur][Len(ci[cur]) - 1].kind = "lua" /\ cur = cstack[Depth].t
    <3>1. cur = cstack[Depth].t
      BY <1>3, CurIs DEF Typed
    <3>2. ctl # "returned"
      BY <1>1
    <3> QED
      BY <1>3, <1>8, <3>1, <3>2 DEF ControlInv, Heights
  <2>9. NoModeSetters /\ a.fix # NULL /\ now.rd => ci[cur][Len(ci[cur]) - 1].ent = a.fix
    BY <1>3, <1>8, <2>2 DEF HookEntries
  <2>3. Last(Front(ci[cur])) = ci[cur][Len(ci[cur]) - 1] /\ Len(Front(ci[cur])) >= 1
        /\ Front(ci[cur]) \in Seq(Frame) /\ Last(Front(ci[cur])) \in Frame
    BY <1>1, <1>2, NowTyped, CallerIs, PoppedFrames DEF GoodFrames
  <2> DEFINE e == ResumedFrame(a, Last(Front(ci[cur])), wanted)
  <2>4. e.kind = "lua" /\ e.ent = ci[cur][Len(ci[cur]) - 1].ent
    BY <1>3, <2>2, <2>3, ResumedFrameTyped
  <2>5. ci'[cur] = WithTop(Front(ci[cur]), e)
    BY <1>2 DEF ReturnToC, Typed
  <2> HIDE DEF e
  <2>6. Last(ci'[cur]) = e
    BY <2>3, <2>5, LastOfWithTop
  <2>7. ci'[cur] \in GoodFrames
    BY <1>2, ReturnToCStep DEF Typed
  <2>8. /\ ci'[cur][Len(ci'[cur])].kind = "lua"
        /\ ci'[cur][Len(ci'[cur])].ent = ci[cur][Len(ci[cur]) - 1].ent
    BY <2>4, <2>6, <2>7, TopOf
  <2>10. NoModeSetters /\ ts'[cur].fixed # NULL /\ ts'[cur].rd =>
           ci'[cur][Len(ci'[cur])].ent = ts'[cur].fixed
    BY <1>5, <1>8, <1>9, <2>8, <2>9
  <2> QED
    BY <1>1, <1>5, <1>6, <2>1, <2>8, <2>10, UnpinnedThread, SwitchPin
<1> QED
  BY <1>7, <1>8

LEMMA CoReturnPin ==
  ASSUME Typed, ControlInv, PinInv, NEW wanted \in BOOLEAN, CoReturn(wanted)
  PROVE  PinInv'
<1>1. Tainted(cur, AfterMove(wanted))
  BY DEF CoReturn, Tainted
<1>2. cur \in Thread /\ AfterMove(wanted) \in ThreadTaint /\ AfterMove(wanted).fixed = NULL
  BY NowTyped, AfterMoveTyped
<1>3. ts'[cur] = AfterMove(wanted) /\ \A u \in Thread : u # cur => ts'[u] = ts[u]
  BY <1>1, <1>2, TaintedIs
<1>4. \A t \in Thread : ts'[t].fixed = NULL
  BY <1>2, <1>3, UnpinnedThread
<1> QED
  BY <1>4, CoReturnStep, ClearPin

LEMMA CoCallReturnPin ==
  ASSUME Typed, ControlInv, PinInv, NEW wanted \in BOOLEAN, CoCallReturn(wanted)
  PROVE  PinInv'
<1> DEFINE a == Last(cstack)
           x == AfterMove(wanted)
           v == IF wanted THEN Moved(Unpin(now), top.val) ELSE Last(ci[a.from]).val
<1>1. AtActivation /\ ts' = HandOver(a.from, cur, x, Results(wanted, v)) /\ cstack' = Front(cstack)
  BY DEF CoCallReturn
<1>2. a.from \in Thread
  BY <1>1, TopActivation DEF Activation
<1>3. x \in ThreadTaint /\ x.fixed = NULL
  BY NowTyped, AfterMoveTyped
<1>4. Results(wanted, v) \in Value
  <2>1. Last(ci[a.from]).val \in Value
    BY <1>2, TopOf DEF Typed
  <2>2. Moved(Unpin(now), top.val) \in Value
    BY PassedOn, UnpinTyped, MovedTyped
  <2> QED
    BY <2>1, <2>2, SecureTyped DEF Results
<1> HIDE DEF x, v, a
<1>5. \A t \in Thread : ts'[t].fixed = NULL
  BY <1>1, <1>2, <1>3, <1>4, HandOverClear
<1> QED
  BY <1>5, CoCallReturnStep, ClearPin

LEMMA CatchPin ==
  ASSUME Typed, ControlInv, PinInv, ctl \in {"run", "rethrow"}, NEW k \in 1 .. Depth, Innermost(k),
         NEW x \in ThreadTaint, x.fixed = now.fixed, NoModeSetters => x.rd = now.rd,
         NEW err \in Value, Catch(k, x, err), UNCHANGED <<st, clo, heap>>
  PROVE  PinInv'
<1> DEFINE a == cstack[k]
           caught == TaintStack(Unpin(x), err.taint)
<1>1. /\ cur \in Thread /\ a \in Activation /\ a.saved \in Context /\ a.from \in Thread
      /\ cstack \in Seq(Activation) /\ Depth \in Nat /\ now = ts[cur]
      /\ ci[cur] \in GoodFrames
  BY NowTyped, CurIs DEF Typed, Activation
<1>2. caught \in ThreadTaint /\ caught.fixed = NULL
  BY UnpinTyped, TaintStackTyped DEF Value
<1>3. LoadTaint(caught, a.saved) \in ThreadTaint /\ LoadTaint(caught, a.saved).fixed = NULL
  BY <1>1, <1>2, LoadTaintTyped
<1>4. Moved(Unpin(x), err) \in Value
  BY UnpinTyped, MovedTyped
<1>5. Typed' /\ ControlInv'
  BY CatchStep
<1> HIDE DEF caught
<1>6. CASE a.how \in {"pcall", "secure"}
  <2>1. \E y \in ThreadTaint : Tainted(cur, y) /\ y.fixed = NULL
    BY <1>2, <1>3, <1>6 DEF Catch, Tainted, caught
  <2>2. \A t \in Thread : ts'[t].fixed = NULL
    BY <1>1, <2>1, TaintedIs, UnpinnedThread
  <2> QED
    BY <1>5, <2>2, ClearPin
<1>7. CASE a.how = "cocall"
  <2>1. ts' = HandOver(a.from, cur, caught, Moved(Unpin(x), err))
    BY <1>7 DEF Catch, caught
  <2>2. \A t \in Thread : ts'[t].fixed = NULL
    BY <1>1, <1>2, <1>4, <2>1, HandOverClear
  <2> QED
    BY <1>5, <2>2, ClearPin
<1>8. CASE a.how = "resume"
  <2> DEFINE r == WithVal(ci[cur], err)
  <2>1. Tainted(cur, x) /\ Framed(cur, r) /\ Left(k) /\ ctl' = "failed"
    BY <1>8 DEF Catch, Tainted, Framed, Left
  <2>2. r \in GoodFrames /\ SameShape(ci[cur], r) /\ Last(r).ent = Last(ci[cur]).ent
    BY <1>1, RevaluedShape, RevaluedEntry
  <2> HIDE DEF r
  <2>3. ci'[cur] = r
    BY <1>1, <2>1, <2>2, FramedIs
  <2>4. ts'[cur] = x /\ \A u \in Thread : u # cur => ts'[u] = ts[u]
    BY <1>1, <2>1, TaintedIs
  <2>5. cur' = cur
    <3>1. \A m \in k + 1 .. Depth : cstack[m].how \notin Switch
      BY DEF Innermost, Depth, Catchers, Switch
    <3>2. k \in k .. Depth /\ k \in 0 .. Depth /\ k # 0
      BY <1>1
    <3>3. cstack[k].t = cur
      BY <3>1, <3>2, SameThread DEF ControlInv
    <3> QED
      BY <1>1, <2>1, <3>2, <3>3, Unwound
  <2>6. ci'[cur][Len(ci'[cur])].kind = ci[cur][Len(ci[cur])].kind
    <3>1. Len(ci[cur]) \in 1 .. Len(ci[cur])
      BY NowTyped
    <3> QED
      BY <2>2, <2>3, <3>1 DEF SameShape
  <2>7. ci'[cur][Len(ci'[cur])].kind = "lua" \/ ts'[cur].fixed = NULL
    BY <1>1, <2>4, <2>6 DEF PinInv, PinnedOnly
  <2>8. NoModeSetters /\ ts'[cur].fixed # NULL /\ ts'[cur].rd =>
          ci'[cur][Len(ci'[cur])].ent = ts'[cur].fixed
    <3>1. Last(r) = r[Len(r)] /\ Last(ci[cur]) = ci[cur][Len(ci[cur])]
      BY <1>1, <2>2, TopOf
    <3> QED
      BY <1>1, <2>2, <2>3, <2>4, <3>1 DEF PinInv, PinnedOnly, PinIsEntry
  <2> QED
    BY <2>1, <2>4, <2>5, <2>7, <2>8, UnpinnedThread, SwitchPin
<1> QED
  BY <1>6, <1>7, <1>8 DEF Catch

LEMMA ErrorPin ==
  ASSUME Typed, ControlInv, PinInv, NoModeSetters => Modes, ErrorStep
  PROVE  PinInv'
<1>1. now \in ThreadTaint /\ Computed \in Value /\ top.val \in Value /\ DOMAIN cstack = 1 .. Depth
      /\ \A j \in 1 .. Depth : cstack[j] \in Activation
  BY NowTyped, ComputedTyped, CurIs DEF Typed
<1>2. PICK v \in Value : Throw(v) /\ ctl \in {"run", "rethrow"}
  BY <1>1 DEF ErrorStep, LuaError, CError, Rethrow, InLua, Running
<1>3. UNCHANGED <<st, clo, heap>>
  BY <1>2 DEF Throw
<1>4. PICK k \in 1 .. Depth :
        /\ Innermost(k)
        /\ \/ Catch(k, now, v)
           \/ \E r \in k + 1 .. Len(cstack) :
                /\ cstack[r].how \in Rethrowers
                /\ Catch(k, LoadTaint(now, cstack[r].saved),
                         IF cstack[r].how = "peek" THEN Secure ELSE Labelled(cstack[r].saved.stack))
  BY <1>1, <1>2 DEF Throw
<1>5. CASE Catch(k, now, v)
  BY <1>1, <1>2, <1>3, <1>4, <1>5, CatchPin
<1>6. ASSUME NEW r \in k + 1 .. Len(cstack), cstack[r].how \in Rethrowers,
             Catch(k, LoadTaint(now, cstack[r].saved),
                   IF cstack[r].how = "peek" THEN Secure ELSE Labelled(cstack[r].saved.stack))
      PROVE  PinInv'
  <2> DEFINE x == LoadTaint(now, cstack[r].saved)
             err == IF cstack[r].how = "peek" THEN Secure ELSE Labelled(cstack[r].saved.stack)
  <2>1. r \in 1 .. Depth
    BY DEF Depth
  <2>2. cstack[r].saved \in Context /\ cstack[r].saved.stack \in TaintOrNull
    BY <1>1, <2>1 DEF Activation, Context
  <2>3. x \in ThreadTaint /\ x.fixed = now.fixed /\ x.rd = cstack[r].saved.rd /\ err \in Value
    BY <1>1, <2>2, LoadTaintTyped, LabelledTyped, SecureTyped
  <2>5. NoModeSetters => x.rd = now.rd
    <3>1. r \in OpenBarriers
      BY <1>1, <1>6, <2>1 DEF OpenBarriers, Barriers
    <3> QED
      BY <2>3, <3>1 DEF Modes
  <2>4. Catch(k, x, err)
    BY <1>6
  <2> HIDE DEF x, err
  <2> QED
    BY <1>2, <1>3, <1>4, <2>3, <2>4, <2>5, CatchPin
<1> QED
  BY <1>4, <1>5, <1>6
-----------------------------------------------------------------------------
(* Coroutines and the taint API.                                           *)
LEMMA EntersSwitches ==
  ASSUME cstack \in Seq(Activation), NEW a, Enters(a)
  PROVE  cur' = a.t
<1>1. cstack' # <<>> /\ Last(cstack') = a
  BY DEF Last, Enters
<1> QED
  BY <1>1 DEF cur

LEMMA ResumeFreshPin ==
  ASSUME Typed, ControlInv, PinInv, NEW co \in Thread, ResumeFresh(co)
  PROVE  PinInv'
<1> DEFINE v == Moved(ts[co], top.val)
           x == TaintThread(ts[co], now)
           f == ci[co][1].fn
           a == [how |-> "resume", t |-> co, from |-> cur, at |-> Len(ci[co]),
                 saved |-> SavedBy("resume"), fix |-> NULL]
<1>1. /\ ctl = "run" /\ top.kind = "c" /\ st[co] = "fresh" /\ Precall(co, x, f, v)
      /\ UNCHANGED ctl
  BY DEF ResumeFresh, Running
<1>2. Enters(a) /\ a.t = co
  BY DEF ResumeFresh, ActivateOn, Enters
<1>3. v \in Value /\ x \in ThreadTaint
  BY NowTyped, MovedTyped, TaintThreadTyped DEF Typed
<1>4. f \in Callee
  BY <1>1 DEF ControlInv, Statuses, Callee
<1> HIDE DEF v, x, f, a
<1>5. cur' = co
  BY <1>2, EntersSwitches DEF Typed
<1> QED
  BY <1>1, <1>3, <1>4, <1>5, PrecallPin

LEMMA CoCallPin ==
  ASSUME Typed, ControlInv, PinInv, NEW to \in Thread, NEW f \in Callee, CoCall(to, f)
  PROVE  PinInv'
<1> DEFINE y == TaintThread(ts[to], now)
           x == IF to = cur THEN now ELSE TaintStack(y, top.val.taint)
           v == Moved(y, top.val)
           a == [how |-> "cocall", t |-> to, from |-> cur, at |-> Len(ci[to]),
                 saved |-> SavedBy("cocall"), fix |-> NULL]
<1>1. ctl = "run" /\ top.kind = "c" /\ Precall(to, x, f, v) /\ UNCHANGED ctl
  BY DEF CoCall, Running
<1>2. Enters(a) /\ a.t = to
  BY DEF CoCall, ActivateOn, Enters
<1>3. y \in ThreadTaint
  BY NowTyped, TaintThreadTyped DEF Typed
<1> HIDE DEF y
<1>4. x \in ThreadTaint /\ v \in Value
  BY <1>3, PassedOn, MovedTyped, TaintStackTyped
<1> HIDE DEF v, x, a
<1>5. cur' = to
  BY <1>2, EntersSwitches DEF Typed
<1> QED
  BY <1>1, <1>4, <1>5, PrecallPin

LEMMA ResumeYieldedPin ==
  ASSUME Typed, ControlInv, PinInv, NEW co \in Thread, NEW given \in BOOLEAN, ResumeYielded(co, given)
  PROVE  PinInv'
<1> DEFINE x == TaintThread(ts[co], now)
           v == IF given THEN Moved(ts[co], top.val) ELSE Labelled(x.write)
           caller == Last(Front(ci[co]))
           z == TaintStack(Unpin(x), v.taint)
           y == Reenter(z, clo[caller.fn])
           e == [caller EXCEPT !.val = Moved(x, v), !.ent = Entry(x, caller.fn)]
           a == [how |-> "resume", t |-> co, from |-> cur, at |-> 1,
                 saved |-> SavedBy("resume"), fix |-> NULL]
<1>1. /\ ctl = "run" /\ top.kind = "c" /\ st[co] = "yield" /\ Tainted(co, y) /\ Enters(a)
      /\ Framed(co, WithTop(Front(ci[co]), e)) /\ a.t = co /\ UNCHANGED ctl
  BY DEF ResumeYielded, Running, Tainted, Framed, Enters
<1>2. /\ now \in ThreadTaint /\ ts[co] \in ThreadTaint /\ top.val \in Value
      /\ ci[co] \in GoodFrames /\ cstack \in Seq(Activation)
  BY NowTyped DEF Typed
<1>3. caller.kind = "lua" /\ caller.fn \in Closure /\ caller \in Frame
      /\ Front(ci[co]) \in Seq(Frame) /\ Len(Front(ci[co])) >= 1
  BY <1>1, YieldedCaller
<1>4. x \in ThreadTaint
  BY <1>2, TaintThreadTyped
<1>5. v.taint \in TaintOrNull
  <2>1. x.write \in TaintOrNull
    BY <1>4 DEF ThreadTaint
  <2> HIDE DEF x
  <2>2. v \in Value
    BY <1>2, <2>1, MovedTyped, LabelledTyped
  <2> HIDE DEF v
  <2> QED
    BY <2>2 DEF Value
<1> HIDE DEF x, v
<1>6. z \in ThreadTaint /\ clo[caller.fn] \in TaintOrNull /\ z.rd = x.rd
  BY <1>3, <1>4, <1>5, UnpinTyped, TaintStackTyped DEF Typed
<1> HIDE DEF z
<1>7. y \in ThreadTaint /\ Coincides(y) /\ y.rd = x.rd /\ y.fixed = clo[caller.fn]
  BY <1>6, ReenterTyped, ReenterCoincides
<1>8. e.kind = "lua" /\ e.ent = Entry(x, caller.fn)
  BY <1>3 DEF Frame
<1>13. x.rd => e.ent = clo[caller.fn]
  BY <1>3, <1>8, ClosureAssumption DEF Entry
<1> HIDE DEF y, e, a, caller
<1>9. ts'[co] = y /\ \A u \in Thread : u # co => ts'[u] = ts[u]
  BY <1>1, <1>7, TaintedIs
<1>10. cur' = co
  BY <1>1, <1>2, EntersSwitches
<1>11. ci'[co][Len(ci'[co])].kind = "lua" /\ ci'[co][Len(ci'[co])].ent = e.ent
  <2>1. ci'[co] = WithTop(Front(ci[co]), e)
    BY <1>1 DEF Framed, Typed
  <2>2. Last(ci'[co]) = e
    BY <1>3, <2>1, LastOfWithTop
  <2>3. ci'[co] \in GoodFrames
    BY ResumeYieldedStep DEF Typed
  <2> QED
    BY <1>8, <2>2, <2>3, TopOf
<1>12. \A u \in Thread : u # co => ts[u].fixed = NULL
  BY <1>1, <1>2, NowTyped, UnpinnedThread
<1>14. ts'[co].rd => ci'[co][Len(ci'[co])].ent = ts'[co].fixed
  BY <1>7, <1>9, <1>11, <1>13
<1> QED
  BY <1>1, <1>7, <1>9, <1>10, <1>11, <1>12, <1>14, SwitchPin

LEMMA CoCreatePin ==
  ASSUME Typed, ControlInv, PinInv, NEW co \in Thread, NEW f \in Closure, CoCreate(co, f)
  PROVE  PinInv'
<1> DEFINE y == TaintThread(PreinitTaint, now)
           x == TaintStack(y, top.val.taint)
<1>1. top.kind = "c" /\ Tainted(co, x)
  BY DEF CoCreate, Running, Tainted
<1>2. y \in ThreadTaint /\ y.fixed = NULL
  BY NowTyped, PreinitTyped, TaintThreadTyped
<1> HIDE DEF y
<1>3. x \in ThreadTaint /\ x.fixed = NULL
  BY <1>2, PassedOn, TaintStackTyped
<1> HIDE DEF x
<1>4. ts'[co] = x /\ \A u \in Thread : u # co => ts'[u] = ts[u]
  BY <1>1, <1>3, TaintedIs
<1>5. \A t \in Thread : ts'[t].fixed = NULL
  BY <1>1, <1>3, <1>4, NowTyped, UnpinnedThread
<1> QED
  BY <1>5, CoCreateStep, ClearPin

LEMMA YieldPin ==
  ASSUME Typed, ControlInv, PinInv, Yield
  PROVE  PinInv'
<1>1. top.kind = "c" /\ UNCHANGED ts
  BY DEF Yield, Running
<1>2. \A t \in Thread : ts'[t].fixed = NULL
  BY <1>1, NowTyped, UnpinnedThread
<1> QED
  BY <1>2, YieldStep, ClearPin

LEMMA FinishResumePin ==
  ASSUME Typed, ControlInv, PinInv, FinishResume
  PROVE  PinInv'
<1> DEFINE a == Last(cstack)
           v == IF ctl = "failed" THEN Moved(Unpin(now), top.val) ELSE top.val
           z == TaintThread(ts[a.from], now)
           x == TaintStack(z, v.taint)
           y == IF ctl = "failed" THEN TaintStack(Unpin(now), top.val.taint) ELSE now
<1>1. /\ ctl \in {"returned", "yielded", "failed"}
      /\ ts' = [ts EXCEPT ![a.from] = x, ![cur] = y]
  BY DEF FinishResume
<1>2. /\ a \in Activation /\ a = cstack[Depth] /\ a.how = "resume" /\ a.t # a.from /\ cur = a.t
  <2>1. Depth > 0 /\ cstack[Depth].how = "resume" /\ cstack \in Seq(Activation)
    BY <1>1 DEF ControlInv, Statuses, Typed
  <2>2. /\ a = cstack[Depth] /\ Depth \in 1 .. Depth /\ a \in Activation /\ cur = a.t
    BY <2>1, CurIs
  <2> QED
    BY <2>1, <2>2 DEF ControlInv, Linking
<1>3. a.from \in Thread
  BY <1>2 DEF Activation
<1> HIDE DEF a
<1>4. /\ now \in ThreadTaint /\ top.val \in Value /\ cur \in Thread /\ now = ts[cur]
      /\ ts[a.from] \in ThreadTaint /\ ts \in [Thread -> ThreadTaint]
  BY <1>3, NowTyped DEF Typed
<1>5. v.taint \in TaintOrNull /\ z \in ThreadTaint /\ z.fixed = ts[a.from].fixed
  <2>1. v \in Value
    BY <1>4, UnpinTyped, MovedTyped
  <2> HIDE DEF v
  <2> QED
    BY <1>4, <2>1, TaintThreadTyped DEF Value
<1> HIDE DEF v, z
<1>6. x.fixed = ts[a.from].fixed
  BY <1>5, TaintStackTyped
<1>7. ts[a.from].fixed = NULL
  BY <1>2, <1>3, UnpinnedThread
<1>8. y.fixed = NULL
  <2>1. CASE ctl = "failed"
    <3>1. Unpin(now) \in ThreadTaint /\ Unpin(now).fixed = NULL
      BY <1>4, UnpinTyped
    <3>2. TaintStack(Unpin(now), top.val.taint).fixed = NULL
      BY <3>1, PassedOn, TaintStackTyped
    <3> QED
      BY <2>1, <3>2
  <2>2. CASE ctl # "failed"
    BY <1>1, <1>4, <2>2 DEF PinInv, PinnedOnly
  <2> QED
    BY <2>1, <2>2
<1> HIDE DEF x, y
<1>9. \A t \in Thread : ts'[t].fixed = NULL
  BY <1>1, <1>2, <1>3, <1>4, <1>6, <1>7, <1>8, UnpinnedThread
<1> QED
  BY <1>9, FinishResumeStep, ClearPin

(* C functions find no pin, whichever thread they act on, and leave none.  *)
LEMMA ApiPin ==
  ASSUME Typed, Typed', PinInv, NEW t \in Thread, NEW x, x.fixed = ts[t].fixed, Api(t, x)
  PROVE  PinInv'
<1>1. top.kind = "c" /\ ts' = [ts EXCEPT ![t] = x] /\ UNCHANGED <<ci, cstack, ctl>>
  BY DEF Api, Running
<1>2. \A u \in Thread : ts[u].fixed = NULL
  BY <1>1, NowTyped, UnpinnedThread
<1>3. \A u \in Thread : ts'[u].fixed = ts[u].fixed
  BY <1>1 DEF Typed
<1> QED
  BY <1>1, <1>2, <1>3, NowTyped, SameShapeReflexive, QuietPin

LEMMA ExplicitPin ==
  ASSUME Typed, Typed', ControlInv, PinInv, ExplicitStep
  PROVE  PinInv'
<1>0. now \in ThreadTaint /\ now = ts[cur] /\ cur \in Thread /\ ci[cur] \in GoodFrames
      /\ NULL \in TaintOrNull
  BY NowTyped, SecureTyped
<1>1. ASSUME NEW t \in Thread, NEW taint \in TaintOrNull,
             \/ ApiSetStackTaint(t, taint)
             \/ ApiSetNewGCTaint(t, taint)
             \/ ApiSetNewClosureTaint(t, taint)
      PROVE  PinInv'
  <2>1. ts[t] \in ThreadTaint
    BY DEF Typed
  <2>2. /\ SetStackTaint(ts[t], taint).fixed = ts[t].fixed
        /\ [ts[t] EXCEPT !.newgc = taint].fixed = ts[t].fixed
        /\ [ts[t] EXCEPT !.newcl = taint].fixed = ts[t].fixed
    BY <2>1, SetStackTaintTyped DEF ThreadTaint
  <2> QED
    BY <1>1, <2>2, ApiPin DEF ApiSetStackTaint, ApiSetNewGCTaint, ApiSetNewClosureTaint
<1>2. ASSUME NEW rd \in BOOLEAN, NEW wr \in BOOLEAN, ApiSetTaintMode(rd, wr) PROVE PinInv'
  <2>1. SetTaintMode(now, rd, wr).fixed = now.fixed
    BY <1>0, SetTaintModeTyped
  <2> QED
    BY <1>0, <1>2, <2>1, ApiPin DEF ApiSetTaintMode
<1>3. CASE ApiClearTaint
  <2> DEFINE y == SetStackTaint(now, NULL)
  <2>1. y \in ThreadTaint /\ y.fixed = now.fixed
    BY <1>0, SetStackTaintTyped
  <2>2. Api(cur, [y EXCEPT !.newgc = NULL, !.newcl = NULL])
    BY <1>3 DEF ApiClearTaint
  <2> HIDE DEF y
  <2>3. [y EXCEPT !.newgc = NULL, !.newcl = NULL].fixed = now.fixed
    BY <2>1 DEF ThreadTaint
  <2> QED
    BY <1>0, <2>2, <2>3, ApiPin
<1>4. ASSUME NEW taint \in TaintOrNull, ApiSetValueTaint(taint) PROVE PinInv'
  <2> DEFINE r == WithVal(ci[cur], Labelled(taint))
  <2>1. r \in GoodFrames /\ SameShape(ci[cur], r) /\ Last(r).ent = Last(ci[cur]).ent
    BY <1>0, LabelledTyped, RevaluedShape, RevaluedEntry
  <2>2. Framed(cur, r) /\ UNCHANGED <<ts, cstack, ctl>>
    BY <1>4 DEF ApiSetValueTaint, Framed
  <2> HIDE DEF r
  <2>3. ci'[cur] = r
    BY <1>0, <2>1, <2>2, FramedIs
  <2> QED
    BY <2>1, <2>2, <2>3, QuietPin
<1>5. ASSUME NEW f \in Closure, NEW taint \in TaintOrNull, ApiSetObjectTaint(f, taint) PROVE PinInv'
  BY <1>5, QuietPin, SameShapeReflexive DEF ApiSetObjectTaint
<1>6. CASE ApiResetTaint
  <2> DEFINE w == SetTaintMode(now, FALSE, FALSE)
             y == SetStackTaint(w, NULL)
             x == [y EXCEPT !.newgc = NULL, !.newcl = NULL]
  <2>1. w \in ThreadTaint /\ w.fixed = now.fixed
    BY <1>0, SetTaintModeTyped
  <2> HIDE DEF w
  <2>2. y \in ThreadTaint /\ y.fixed = now.fixed
    BY <1>0, <2>1, SetStackTaintTyped
  <2> HIDE DEF y
  <2>3. x.fixed = now.fixed
    BY <2>2 DEF ThreadTaint
  <2>4. top.kind = "c" /\ ts' = [ts EXCEPT ![cur] = x]
    BY <1>6 DEF ApiResetTaint, Running, w, y
  <2> HIDE DEF x
  <2>5. \A t \in Thread : ts'[t].fixed = NULL
    BY <1>0, <2>3, <2>4, UnpinnedThread DEF Typed
  <2> QED
    BY <1>6, <2>5, ApiResetStep, ClearPin
<1> QED
  BY <1>1, <1>2, <1>3, <1>4, <1>5, <1>6 DEF ExplicitStep

LEMMA EnvironmentPin ==
  ASSUME Typed, Typed', ControlInv, PinInv, EnvironmentStep
  PROVE  PinInv'
<1>0. now \in ThreadTaint /\ now = ts[cur] /\ cur \in Thread
  BY NowTyped
<1>1. ASSUME NEW taint \in Taint, ForceInsecure(taint) \/ LoadString(taint) PROVE PinInv'
  <2>1. SetStackTaint(now, taint).fixed = now.fixed
    BY <1>0, SetStackTaintTyped DEF TaintOrNull
  <2> QED
    BY <1>0, <1>1, <2>1, ApiPin DEF ForceInsecure, LoadString
<1>2. ASSUME NEW f \in Closure, GetFenv(f) PROVE PinInv'
  <2>1. TaintStack(now, clo[f]).fixed = now.fixed
    BY <1>0, TaintStackTyped DEF Typed
  <2> QED
    BY <1>0, <1>2, <2>1, ApiPin DEF GetFenv
<1>3. ASSUME NEW f \in Closure, SetFenv(f) PROVE PinInv'
  BY <1>3, QuietPin, SameShapeReflexive DEF SetFenv
<1> QED
  BY <1>1, <1>2, <1>3 DEF EnvironmentStep

-----------------------------------------------------------------------------
(* How the C stack changes: an activation enters, or some leave.           *)
LEMMA CStackMoves ==
  ASSUME Typed, ControlInv, [Next]_vars
  PROVE  \/ UNCHANGED cstack
         \/ \E n \in 0 .. Depth : Left(n)
         \/ \E a : /\ Enters(a) /\ a.from = cur /\ a.saved = SavedBy(a.how)
                   /\ a.how = "hook" => \E f \in Callee, c \in Cell : CallHook(c, f)
<1>0. Depth \in Nat /\ DOMAIN cstack = 1 .. Depth /\ cstack \in Seq(Activation)
  BY CurIs DEF Typed
<1>1. CASE Move \/ ExplicitStep \/ EnvironmentStep \/ UNCHANGED vars
  BY <1>1 DEF Move, Read, Store, Compute, NewClosure, ExplicitStep, EnvironmentStep, Api,
     ApiSetStackTaint, ApiSetTaintMode, ApiSetNewGCTaint, ApiSetNewClosureTaint, ApiClearTaint,
     ApiSetValueTaint, ApiSetObjectTaint, ApiResetTaint, ForceInsecure, LoadString, GetFenv,
     SetFenv, vars
<1>2. ASSUME NEW how, NEW fix, Activate(how, fix)
      PROVE  \E a : Enters(a) /\ a.from = cur /\ a.saved = SavedBy(a.how) /\ a.how = how
  BY <1>2 DEF Activate, Enters
<1>3. ASSUME NEW how, NEW t, ActivateOn(how, t)
      PROVE  \E a : Enters(a) /\ a.from = cur /\ a.saved = SavedBy(a.how) /\ a.how = how
  BY <1>3 DEF ActivateOn, Enters
<1>4. CASE CallStep
  <2>1. CASE CallC \/ \E f \in Closure : LuaCall(f) \/ TailCall(f)
    BY <2>1 DEF CallC, LuaCall, TailCall
  <2>2. CASE \E f \in Callee : Call(f) \/ PCall(f) \/ SecureCall(f) \/ DelegateCall(f)
    BY <1>2, <2>2 DEF Call, PCall, SecureCall, DelegateCall, CallFromC
  <2>3. CASE \E f \in Callee, c \in Cell : MetaCall(c, f) \/ PeekCall(c, f) \/ Finalize(c, f)
    BY <1>2, <2>3 DEF MetaCall, PeekCall, Finalize, CallFromC
  <2>4. CASE \E f \in Callee, c \in Cell : CallHook(c, f)
    <3>1. Activate("hook", now.fixed)
      BY <2>4 DEF CallHook
    <3> QED
      BY <1>2, <2>4, <3>1
  <2> QED
    BY <1>4, <2>1, <2>2, <2>3, <2>4 DEF CallStep
<1>5. ASSUME cstack' = Front(cstack), cstack # <<>> PROVE \E n \in 0 .. Depth : Left(n)
  <2>1. Depth \in 1 .. Depth /\ Left(Depth - 1)
    BY <1>0, <1>5, LeftFront
  <2> QED
    BY <1>0, <2>1
<1>6. CASE ReturnStep
  <2>1. UNCHANGED cstack \/ (cstack' = Front(cstack) /\ cstack # <<>>)
    BY <1>6 DEF ReturnStep, ReturnToLua, ReturnToC, CoReturn, CoCallReturn, AtActivation
  <2> QED
    BY <1>5, <2>1
<1>7. CASE ErrorStep
  <2>1. PICK k \in 1 .. Depth : \E x, err : Catch(k, x, err)
    BY <1>0, <1>7 DEF ErrorStep, LuaError, CError, Rethrow, Throw
  <2>2. Left(k - 1) \/ Left(k)
    BY <2>1 DEF Catch, Left
  <2>3. k - 1 \in 0 .. Depth /\ k \in 0 .. Depth
    BY <1>0
  <2> QED
    BY <2>2, <2>3
<1>8. CASE CoroutineStep
  <2>1. CASE FinishResume
    <3>1. Depth > 0 /\ cstack' = Front(cstack)
      BY <2>1 DEF FinishResume, ControlInv, Statuses
    <3> QED
      BY <1>5, <3>1 DEF Depth
  <2>2. CASE \E co \in Thread, given \in BOOLEAN : ResumeYielded(co, given)
    <3>1. PICK co \in Thread : cstack' = Append(cstack, [how |-> "resume", t |-> co, from |-> cur, at |-> 1,
                                     saved |-> SavedBy("resume"), fix |-> NULL])
      BY <2>2 DEF ResumeYielded
    <3> DEFINE a == [how |-> "resume", t |-> co, from |-> cur, at |-> 1,
                     saved |-> SavedBy("resume"), fix |-> NULL]
    <3>2. Enters(a) /\ a.from = cur /\ a.saved = SavedBy(a.how) /\ a.how = "resume"
      BY <3>1 DEF Enters
    <3> HIDE DEF a
    <3> QED
      BY <3>2
  <2>3. CASE (\E co \in Thread : ResumeFresh(co)) \/ \E to \in Thread, f \in Callee : CoCall(to, f)
    BY <1>3, <2>3 DEF ResumeFresh, CoCall
  <2>4. CASE Yield \/ \E co \in Thread, f \in Closure : CoCreate(co, f)
    BY <2>4 DEF Yield, CoCreate
  <2> QED
    BY <1>8, <2>1, <2>2, <2>3, <2>4 DEF CoroutineStep
<1> QED
  BY <1>1, <1>4, <1>6, <1>7, <1>8 DEF Next

LEMMA StepHooks ==
  ASSUME Typed, ControlInv, HooksAllowed, [Next]_vars
  PROVE  HooksAllowed'
<1>0. Depth \in Nat /\ cstack \in Seq(Activation)
  BY CurIs DEF Typed
<1>1. CASE UNCHANGED cstack
  BY <1>1 DEF HooksAllowed, Depth
<1>2. ASSUME NEW n \in 0 .. Depth, Left(n) PROVE HooksAllowed'
  <2>1. Depth' = n /\ \A k \in 1 .. n : cstack'[k] = cstack[k]
    BY <1>0, <1>2, Unwound
  <2> QED
    BY <1>0, <2>1 DEF HooksAllowed
<1>3. ASSUME NEW a, Enters(a), a.how = "hook" => \E f \in Callee, c \in Cell : CallHook(c, f)
      PROVE HooksAllowed'
  <2>1. /\ Depth' = Depth + 1 /\ \A k \in 1 .. Depth : cstack'[k] = cstack[k]
        /\ cstack'[Depth + 1] = a
    BY <1>0, <1>3 DEF Enters, Depth
  <2>2. a.how = "hook" => "hook" \in Lib
    BY <1>3 DEF CallHook
  <2> QED
    BY <1>0, <2>1, <2>2 DEF HooksAllowed
<1> QED
  BY <1>1, <1>2, <1>3, CStackMoves

-----------------------------------------------------------------------------
(* The frames below the top: what a step does not touch.                   *)
Under(s, r) == \A i \in 1 .. Len(s) - 1 : i < Len(r) => r[i].ent = s[i].ent
Undisturbed == \A t \in Thread : Under(ci[t], ci'[t])

LEMMA UnderTop ==
  ASSUME NEW s \in GoodFrames, NEW e
  PROVE  Under(s, WithTop(s, e)) /\ Len(WithTop(s, e)) = Len(s)
<1> DEFINE q == Front(s)
<1>1. /\ q \in Seq(Frame) /\ Len(q) = Len(s) - 1 /\ Len(s) \in Nat
      /\ \A i \in 1 .. Len(s) - 1 : q[i] = s[i]
  BY TopOf, FrontOf DEF GoodFrames
<1> HIDE DEF q
<1>2. Len(Append(q, e)) = Len(q) + 1 /\ \A i \in 1 .. Len(q) : Append(q, e)[i] = q[i]
  BY <1>1
<1> QED
  BY <1>1, <1>2 DEF Under, WithTop, q

LEMMA UnderCut ==
  ASSUME NEW s \in GoodFrames, NEW n \in 1 .. Len(s), NEW e
  PROVE  Under(s, SubSeq(s, 1, n)) /\ Under(s, WithTop(SubSeq(s, 1, n), e))
<1> DEFINE q == SubSeq(s, 1, n)
           r == WithTop(q, e)
<1>1. q \in GoodFrames /\ Len(q) = n /\ n \in Nat /\ \A i \in 1 .. n : q[i] = s[i]
  BY PrefixFrames, TopOf
<1> HIDE DEF q
<1>2. Under(q, r) /\ Len(r) = n
  BY <1>1, UnderTop
<1> HIDE DEF r
<1>3. Under(s, q) /\ Under(s, r)
  BY <1>1, <1>2, TopOf DEF Under
<1> QED
  BY <1>3 DEF q, r

LEMMA UnderPopped ==
  ASSUME NEW s \in GoodFrames, Last(s).kind # "base", NEW e
  PROVE  Under(s, Front(s)) /\ Under(s, WithTop(Front(s), e))
<1>1. Len(s) - 1 \in 1 .. Len(s)
  BY PoppedFrames, TopOf
<1> QED
  BY <1>1, UnderCut DEF Front

LEMMA UnderCalled ==
  ASSUME Typed, NEW s \in GoodFrames, NEW x \in ThreadTaint, NEW f \in Callee, NEW v \in Value
  PROVE  Under(s, Called(s, x, f, v))
  BY CalledFrames DEF Under, Typed

LEMMA UnderOne ==
  ASSUME Typed, NEW t \in Thread, NEW r, Framed(t, r), Under(ci[t], r)
  PROVE  Undisturbed
<1>1. ci'[t] = r /\ \A u \in Thread : u # t => ci'[u] = ci[u]
  BY DEF Framed, Typed
<1> QED
  BY <1>1 DEF Undisturbed, Under

LEMMA UnderSame ==
  ASSUME UNCHANGED ci
  PROVE  Undisturbed
  BY DEF Undisturbed, Under

LEMMA UnderVal ==
  ASSUME Typed, NEW t \in Thread, NEW v, Framed(t, WithVal(ci[t], v))
  PROVE  Undisturbed
<1>1. Under(ci[t], WithVal(ci[t], v))
  BY UnderTop DEF WithVal, Typed
<1> QED
  BY <1>1, UnderOne

LEMMA UnderPrecall ==
  ASSUME Typed, NEW t \in Thread, NEW x \in ThreadTaint, NEW f \in Callee, NEW v \in Value,
         Precall(t, x, f, v)
  PROVE  Undisturbed
<1>1. ci[t] \in GoodFrames /\ Framed(t, Called(ci[t], x, f, v))
  BY DEF Typed, Precall, Framed
<1> QED
  BY <1>1, UnderCalled, UnderOne

LEMMA UnderDelivered ==
  ASSUME Typed, NEW to \in Thread, NEW from \in Thread, NEW x, NEW v,
         NEW n \in 1 .. Len(ci[from]), Gives(to, from, x, SubSeq(ci[from], 1, n), v)
  PROVE  Undisturbed
<1> DEFINE q == SubSeq(ci[from], 1, n)
           r == WithVal(q, v)
           p == WithVal(ci[to], Moved(TaintThread(ts[to], x), v))
<1>1. ci[from] \in GoodFrames /\ ci[to] \in GoodFrames /\ ci \in [Thread -> GoodFrames]
  BY DEF Typed
<1>2. Under(ci[from], q) /\ Under(ci[from], r)
  BY <1>1, UnderCut DEF WithVal
<1>3. Under(ci[to], p)
  BY <1>1, UnderTop DEF WithVal
<1>4. ci' = IF to = from THEN [ci EXCEPT ![to] = r] ELSE [ci EXCEPT ![from] = q, ![to] = p]
  BY DEF Gives, Delivered
<1> HIDE DEF q, r, p
<1>5. CASE to = from
  BY <1>2, <1>4, <1>5, UnderOne DEF Framed
<1>6. CASE to # from
  <2>1. /\ ci'[from] = q /\ ci'[to] = p
        /\ \A u \in Thread : u \notin {from, to} => ci'[u] = ci[u]
    BY <1>1, <1>4, <1>6
  <2> QED
    BY <1>2, <1>3, <2>1 DEF Undisturbed, Under
<1> QED
  BY <1>5, <1>6

LEMMA CallsUndisturbed ==
  ASSUME Typed, CallStep
  PROVE  Undisturbed
<1>1. cur \in Thread /\ now \in ThreadTaint /\ NULL \in Callee
  BY NowTyped DEF Callee
<1>2. ASSUME NEW x \in ThreadTaint, NEW f \in Callee, NEW v \in Value, Precall(cur, x, f, v)
      PROVE  Undisturbed
  BY <1>1, <1>2, UnderPrecall
<1>3. ASSUME NEW f \in Closure, LuaCall(f) PROVE Undisturbed
  BY <1>2, <1>3, PassedOn DEF LuaCall
<1>4. CASE CallC
  BY <1>2, <1>4, PassedOn DEF CallC
<1>5. ASSUME NEW f \in Closure, TailCall(f) PROVE Undisturbed
  <2>1. PICK e : Framed(cur, WithTop(ci[cur], e))
    BY <1>5 DEF TailCall, Framed
  <2>2. Under(ci[cur], WithTop(ci[cur], e))
    BY <1>1, UnderTop, NowTyped
  <2> QED
    BY <1>1, <2>1, <2>2, UnderOne
<1>6. ASSUME NEW f \in Callee, Call(f) \/ PCall(f) \/ SecureCall(f) \/ DelegateCall(f)
      PROVE  Undisturbed
  BY <1>2, <1>6, PassedOn DEF Call, PCall, SecureCall, DelegateCall, CallFromC
<1>7. ASSUME NEW f \in Callee, NEW c \in Cell,
             MetaCall(c, f) \/ PeekCall(c, f) \/ Finalize(c, f) \/ CallHook(c, f)
      PROVE  Undisturbed
  BY <1>2, <1>7, PassedOn DEF MetaCall, PeekCall, Finalize, CallHook, CallFromC
<1> QED
  BY <1>3, <1>4, <1>5, <1>6, <1>7 DEF CallStep

LEMMA ReturnsUndisturbed ==
  ASSUME Typed, ControlInv, ReturnStep
  PROVE  Undisturbed
<1>1. cur \in Thread /\ ci[cur] \in GoodFrames
  BY NowTyped
<1>2. Last(ci[cur]).kind # "base"
  BY CallerIs DEF ReturnStep, ReturnToLua, ReturnToC, CoReturn, CoCallReturn, Running
<1>3. ASSUME NEW e, Framed(cur, WithTop(Front(ci[cur]), e)) PROVE Undisturbed
  BY <1>1, <1>2, <1>3, UnderPopped, UnderOne
<1>4. ASSUME NEW wanted \in BOOLEAN, ReturnToLua(wanted) PROVE Undisturbed
  <2>1. \E e : Framed(cur, WithTop(Front(ci[cur]), e))
    <3>1. CASE top.kind = "lua"
      BY <1>4, <3>1 DEF ReturnToLua, Framed
    <3>2. CASE top.kind # "lua"
      BY <1>4, <3>2 DEF ReturnToLua, Framed
    <3> QED
      BY <3>1, <3>2
  <2> QED
    BY <1>3, <2>1
<1>5. ASSUME NEW wanted \in BOOLEAN, ReturnToC(wanted) \/ CoReturn(wanted) PROVE Undisturbed
  <2>1. \E e : Framed(cur, WithTop(Front(ci[cur]), e))
    BY <1>5 DEF ReturnToC, CoReturn, Framed
  <2> QED
    BY <1>3, <2>1
<1>6. ASSUME NEW wanted \in BOOLEAN, CoCallReturn(wanted) PROVE Undisturbed
  <2> DEFINE a == Last(cstack)
             x == AfterMove(wanted)
             v == Moved(Unpin(now), top.val)
  <2>1. AtActivation /\ cstack' = Front(cstack)
    BY <1>6 DEF CoCallReturn
  <2>2. a.from \in Thread
    BY <2>1, TopActivation DEF Activation
  <2>3. CASE wanted
    <3>1. Gives(a.from, cur, x, Front(ci[cur]), v)
      BY <1>6, <2>3 DEF CoCallReturn, Gives
    <3>2. Len(ci[cur]) - 1 \in 1 .. Len(ci[cur])
      BY <1>1, <1>2, PoppedFrames, TopOf
    <3> HIDE DEF a, x, v
    <3> QED
      BY <1>1, <2>2, <3>1, <3>2, UnderDelivered DEF Front
  <2>4. CASE ~wanted
    <3>1. Framed(cur, Front(ci[cur]))
      BY <1>6, <2>4 DEF CoCallReturn, Framed
    <3> QED
      BY <1>1, <1>2, <3>1, UnderPopped, UnderOne
  <2> QED
    BY <2>3, <2>4
<1> QED
  BY <1>4, <1>5, <1>6 DEF ReturnStep

LEMMA ErrorsUndisturbed ==
  ASSUME Typed, ControlInv, ErrorStep
  PROVE  Undisturbed
<1>1. cur \in Thread /\ ci[cur] \in GoodFrames /\ Depth \in Nat /\ DOMAIN cstack = 1 .. Depth
      /\ \A j \in 1 .. Depth : cstack[j] \in Activation
  BY NowTyped, CurIs DEF Typed
<1>2. PICK k \in 1 .. Depth : Innermost(k) /\ \E x, err : Catch(k, x, err)
  BY <1>1 DEF ErrorStep, LuaError, CError, Rethrow, Throw
<1>3. PICK x, err : Catch(k, x, err)
  BY <1>2
<1>4. ctl \in {"run", "rethrow"}
  BY DEF ErrorStep, LuaError, CError, Rethrow, InLua, Running
<1> DEFINE a == cstack[k]
           caught == TaintStack(Unpin(x), err.taint)
           v == Moved(Unpin(x), err)
<1>5. a.t = cur /\ a.from \in Thread /\ a.at \in 1 .. Len(ci[cur])
  <2>1. \A m \in k + 1 .. Depth : cstack[m].how \notin Switch
    BY <1>2 DEF Innermost, Depth, Catchers, Switch
  <2>2. k \in k .. Depth
    BY <1>1
  <2>3. cstack[k].t = cur
    BY <2>1, <2>2, SameThread DEF ControlInv
  <2>4. a.at >= 1 /\ a.at < Len(ci[a.t])
    BY <1>4, CurAwake DEF ControlInv, Linking
  <2> QED
    BY <1>1, <2>3, <2>4, TopOf DEF Activation
<1>6. CASE a.how \in {"pcall", "secure"}
  <2>1. \E e : Framed(cur, WithTop(SubSeq(ci[cur], 1, a.at), e))
    BY <1>3, <1>6 DEF Catch, Framed, WithVal
  <2> HIDE DEF a
  <2> QED
    BY <1>1, <1>5, <2>1, UnderCut, UnderOne
<1>7. CASE a.how = "cocall"
  <2>1. Gives(a.from, cur, caught, SubSeq(ci[cur], 1, a.at), v)
    BY <1>3, <1>7 DEF Catch, Gives
  <2> HIDE DEF a, caught, v
  <2> QED
    BY <1>1, <1>5, <2>1, UnderDelivered
<1>8. CASE a.how = "resume"
  BY <1>1, <1>3, <1>8, UnderVal DEF Catch, Framed
<1> QED
  BY <1>3, <1>6, <1>7, <1>8 DEF Catch

LEMMA CoroutinesUndisturbed ==
  ASSUME Typed, ControlInv, CoroutineStep
  PROVE  Undisturbed
<1>1. /\ now \in ThreadTaint /\ top.val \in Value
      /\ \A t \in Thread : ts[t] \in ThreadTaint /\ ci[t] \in GoodFrames
                       /\ TaintThread(ts[t], now) \in ThreadTaint
  BY NowTyped, TaintThreadTyped DEF Typed
<1>2. ASSUME NEW co \in Thread, ResumeFresh(co) PROVE Undisturbed
  <2>1. st[co] = "fresh" /\ Precall(co, TaintThread(ts[co], now), ci[co][1].fn, Moved(ts[co], top.val))
    BY <1>2 DEF ResumeFresh
  <2>2. ci[co][1].fn \in Callee
    BY <2>1 DEF ControlInv, Statuses, Callee
  <2> QED
    BY <1>1, <2>1, <2>2, MovedTyped, UnderPrecall
<1>3. ASSUME NEW co \in Thread, NEW given \in BOOLEAN, ResumeYielded(co, given) PROVE Undisturbed
  <2>1. PICK e : Framed(co, WithTop(Front(ci[co]), e))
    BY <1>3 DEF ResumeYielded, Framed
  <2>2. Last(ci[co]).kind # "base"
    <3>1. ci[co][Len(ci[co])].kind = "c"
      BY <1>3 DEF ResumeYielded, ControlInv, Suspended
    <3> QED
      BY <1>1, <3>1, TopOf
  <2> QED
    BY <1>1, <2>1, <2>2, UnderPopped, UnderOne
<1>4. ASSUME NEW co \in Thread, NEW f \in Closure, CoCreate(co, f) PROVE Undisturbed
  <2>1. Framed(co, <<BaseFrame(f)>>)
    BY <1>4 DEF CoCreate, Framed
  <2>2. Under(ci[co], <<BaseFrame(f)>>)
    BY DEF Under
  <2> QED
    BY <2>1, <2>2, UnderOne
<1>5. ASSUME NEW to \in Thread, NEW f \in Callee, CoCall(to, f) PROVE Undisturbed
  <2> DEFINE x == IF to = cur THEN now ELSE TaintStack(TaintThread(ts[to], now), top.val.taint)
             v == Moved(TaintThread(ts[to], now), top.val)
  <2>1. Precall(to, x, f, v)
    BY <1>5 DEF CoCall
  <2>2. x \in ThreadTaint /\ v \in Value
    BY <1>1, PassedOn, TaintStackTyped, MovedTyped
  <2> HIDE DEF x, v
  <2> QED
    BY <2>1, <2>2, UnderPrecall
<1>6. CASE Yield
  BY <1>6, UnderSame DEF Yield
<1>7. CASE FinishResume
  <2>1. /\ cstack # <<>> /\ Last(cstack).from \in Thread
    <3>1. Depth > 0
      BY <1>7 DEF FinishResume, ControlInv, Statuses
    <3> QED
      BY <3>1, CurIs DEF Typed, Depth, Activation
  <2>2. \E v : Framed(Last(cstack).from, WithVal(ci[Last(cstack).from], v))
    BY <1>7 DEF FinishResume, Framed
  <2> QED
    BY <2>1, <2>2, UnderVal
<1> QED
  BY <1>2, <1>3, <1>4, <1>5, <1>6, <1>7 DEF CoroutineStep

LEMMA StepUndisturbed ==
  ASSUME Typed, ControlInv, NoModeSetters, [Next]_vars
  PROVE  Undisturbed
<1>1. "settaint" \notin Lib /\ cur \in Thread
  BY NowTyped DEF NoModeSetters
<1>2. CASE Move
  <2>1. UNCHANGED ci \/ \E v : Framed(cur, WithVal(ci[cur], v))
    BY <1>2 DEF Move, Read, Store, Compute, NewClosure, Framed
  <2> QED
    BY <1>1, <2>1, UnderSame, UnderVal
<1>3. CASE ExplicitStep \/ EnvironmentStep \/ UNCHANGED vars
  BY <1>1, <1>3, UnderSame DEF ExplicitStep, EnvironmentStep, Api, ApiSetStackTaint, ApiSetTaintMode,
     ApiSetNewGCTaint, ApiSetNewClosureTaint, ApiClearTaint, ApiSetValueTaint, ApiSetObjectTaint,
     ApiResetTaint, ForceInsecure, LoadString, GetFenv, SetFenv, vars
<1> QED
  BY <1>2, <1>3, CallsUndisturbed, ReturnsUndisturbed, ErrorsUndisturbed, CoroutinesUndisturbed
     DEF Next

-----------------------------------------------------------------------------
(* The invariant.                                                          *)
HookInv == HooksAllowed /\ (NoModeSetters => Modes /\ HookEntries)

LEMMA InitPin == Init => PinInv /\ HookInv
<1> SUFFICES ASSUME Init PROVE PinInv /\ HookInv
  OBVIOUS
<1>1. PICK rd, wr \in BOOLEAN :
        ts = [t \in Thread |-> SetTaintMode(PreinitTaint, rd /\ t = Main, wr /\ t = Main)]
  BY DEF Init
<1>2. \A t \in Thread : ts[t].fixed = NULL
  BY <1>1, PreinitTyped, SetTaintModeTyped
<1>3. cstack = <<>> /\ Depth = 0 /\ cur = Main
  BY DEF Init, Depth, cur
<1> QED
  BY <1>2, <1>3, ThreadAssumption, InitModes
     DEF PinInv, PinnedOnly, Coincides, PinIsEntry, HooksAllowed, HookInv, HookEntries

(* The frame that a hook interrupted stays below the top.                  *)
HooksBelow ==
  \A k \in 1 .. Depth : cstack[k].how = "hook" =>
    cstack[k].t \in Thread /\ cstack[k].at \in 1 .. Len(ci[cstack[k].t]) - 1

LEMMA HooksAreBelow == Typed /\ ControlInv => HooksBelow
<1> SUFFICES ASSUME Typed, ControlInv, NEW k \in 1 .. Depth, cstack[k].how = "hook"
             PROVE  cstack[k].t \in Thread /\ cstack[k].at \in 1 .. Len(ci[cstack[k].t]) - 1
  BY DEF HooksBelow
<1>1. cstack[k].t \in Thread /\ cstack[k].at \in Nat /\ cstack[k].at >= 1
  BY CurIs DEF Typed, Activation, ControlInv, Linking
<1>2. cstack[k].at < Len(ci[cstack[k].t])
  <2>1. ~(k = Depth /\ ctl = "returned")
    BY DEF ControlInv, Statuses
  <2> QED
    BY <2>1 DEF ControlInv, Heights
<1>3. Len(ci[cstack[k].t]) \in Nat
  BY <1>1, TopOf DEF Typed
<1> QED
  BY <1>1, <1>2, <1>3

(* A hook is called with the pin of the frame it interrupts in C's hands.  *)
LEMMA HookCalled ==
  ASSUME Typed, PinInv, NoModeSetters, now.rd, NEW f \in Callee, NEW c \in Cell, CallHook(c, f),
         Last(cstack').fix # NULL
  PROVE  /\ Last(cstack').t = cur /\ Last(cstack').at = Len(ci[cur])
         /\ ci'[cur][Len(ci[cur])].ent = Last(cstack').fix
<1> DEFINE a == [how |-> "hook", t |-> cur, from |-> cur, at |-> Len(ci[cur]),
                 saved |-> SavedBy("hook"), fix |-> now.fixed]
           x == TaintStack(Unpin(now), heap[c].taint)
           v == Labelled(x.write)
<1>1. cstack' = Append(cstack, a) /\ Precall(cur, x, f, v)
  BY DEF CallHook, Activate
<1>2. a.t = cur /\ a.at = Len(ci[cur]) /\ a.fix = now.fixed
  OBVIOUS
<1> HIDE DEF a
<1>3. Last(cstack') = a
  BY <1>1 DEF Last, Typed
<1>4. x \in ThreadTaint /\ v \in Value /\ cur \in Thread /\ ci[cur] \in GoodFrames
  BY PassedOn, NowTyped
<1> HIDE DEF x, v
<1>5. ci'[cur][Len(ci[cur])].ent = Last(ci[cur]).ent
  <2>1. ci'[cur] = Called(ci[cur], x, f, v)
    BY <1>1, <1>4, PrecallIs
  <2>2. Called(ci[cur], x, f, v)[Len(ci[cur])].ent = Last(ci[cur]).ent
    BY <1>4, CalledFrames DEF Typed
  <2> QED
    BY <2>1, <2>2
<1>6. Last(ci[cur]).ent = now.fixed
  BY <1>2, <1>3, NowTyped DEF PinInv, PinnedOnly, PinIsEntry, top
<1> QED
  BY <1>2, <1>3, <1>5, <1>6

LEMMA StepHookEntries ==
  ASSUME Typed, ControlInv, PinInv, NoModeSetters, Modes, HookEntries, [Next]_vars
  PROVE  HookEntries'
<1>0. now'.rd = now.rd /\ Undisturbed /\ HooksBelow
  BY StepModes, StepUndisturbed, HooksAreBelow
<1>1. HooksBelow'
  <2>1. Typed' /\ ControlInv'
    BY StepControl
  <2> QED
    BY <2>1, HooksAreBelow, PTL
<1> SUFFICES ASSUME NEW k \in 1 .. Depth', cstack'[k].how = "hook", cstack'[k].fix # NULL, now'.rd
             PROVE  ci'[cstack'[k].t][cstack'[k].at].ent = cstack'[k].fix
  BY DEF HookEntries
<1>2. Depth \in Nat /\ cstack \in Seq(Activation)
  BY CurIs DEF Typed
<1>3. ASSUME k \in 1 .. Depth, cstack'[k] = cstack[k]
      PROVE  ci'[cstack'[k].t][cstack'[k].at].ent = cstack'[k].fix
  <2> DEFINE t == cstack[k].t
             i == cstack[k].at
  <2>1. t \in Thread /\ i \in 1 .. Len(ci[t]) - 1
    BY <1>0, <1>3 DEF HooksBelow
  <2>2. i \in 1 .. Len(ci'[t]) - 1
    BY <1>1, <1>3 DEF HooksBelow
  <2>3. Len(ci'[t]) \in Nat
    BY <2>1, StepControl, TopOf DEF Typed
  <2>4. ci[t][i].ent = cstack[k].fix
    BY <1>0, <1>3 DEF HookEntries
  <2>5. i < Len(ci'[t])
    BY <2>2, <2>3
  <2>6. ci'[t][i].ent = ci[t][i].ent
    BY <1>0, <2>1, <2>5 DEF Undisturbed, Under
  <2> QED
    BY <1>3, <2>4, <2>6
<1>4. CASE UNCHANGED cstack
  BY <1>3, <1>4 DEF Depth
<1>5. ASSUME NEW n \in 0 .. Depth, Left(n)
      PROVE  ci'[cstack'[k].t][cstack'[k].at].ent = cstack'[k].fix
  <2>1. Depth' = n /\ \A j \in 1 .. n : cstack'[j] = cstack[j]
    BY <1>2, <1>5, Unwound
  <2>2. k \in 1 .. Depth
    BY <1>2, <2>1
  <2> QED
    BY <1>3, <2>1, <2>2
<1>6. ASSUME NEW a, Enters(a), a.how = "hook" => \E f \in Callee, c \in Cell : CallHook(c, f)
      PROVE  ci'[cstack'[k].t][cstack'[k].at].ent = cstack'[k].fix
  <2>1. /\ Depth' = Depth + 1 /\ \A j \in 1 .. Depth : cstack'[j] = cstack[j]
        /\ cstack'[Depth + 1] = a /\ Last(cstack') = a
    BY <1>2, <1>6 DEF Enters, Depth, Last
  <2>2. CASE k \in 1 .. Depth
    BY <1>3, <2>1, <2>2
  <2>3. CASE k \notin 1 .. Depth
    <3>1. k = Depth + 1 /\ cstack'[k] = a
      BY <1>2, <2>1, <2>3
    <3> QED
      BY <1>0, <1>6, <2>1, <3>1, HookCalled
  <2> QED
    BY <2>2, <2>3
<1> QED
  BY <1>4, <1>5, <1>6, CStackMoves

LEMMA StepHookInv ==
  ASSUME Typed, ControlInv, PinInv, HookInv, [Next]_vars
  PROVE  HookInv'
<1>1. HooksAllowed'
  BY StepHooks DEF HookInv
<1>2. ASSUME NoModeSetters PROVE Modes' /\ HookEntries'
  BY <1>2, StepModes, StepHookEntries DEF HookInv
<1> QED
  BY <1>1, <1>2 DEF HookInv

LEMMA StepPin ==
  ASSUME Typed, ControlInv, PinInv, HookInv, [Next]_vars
  PROVE  PinInv'
<1>0. Typed' /\ HooksAllowed /\ (NoModeSetters => Modes /\ HookEntries)
  BY StepControl DEF HookInv
<1>1. CASE UNCHANGED vars
  BY <1>0, <1>1, SameShapeReflexive, QuietPin DEF vars
<1>2. CASE ReturnStep
  BY <1>0, <1>2, ReturnToLuaPin, ReturnToCPin, CoReturnPin, CoCallReturnPin DEF ReturnStep
<1>3. CASE CoroutineStep
  BY <1>3, ResumeFreshPin, ResumeYieldedPin, CoCreatePin, CoCallPin, YieldPin, FinishResumePin
     DEF CoroutineStep
<1> QED
  BY <1>0, <1>1, <1>2, <1>3, MovePin, CallPin, ErrorPin, ExplicitPin, EnvironmentPin DEF Next

(* The pin, L->fixedtaint, is set only in the running thread while it runs *)
(* a Lua frame: luaD_precall, luaD_poscall and every switch of threads     *)
(* clear it, and a hook holds the one it interrupted in a C local.  While  *)
(* no library sets modes it is the taint of the frame that runs, and the   *)
(* one that a hook holds is that of the frame it interrupted.              *)
THEOREM PinsAreKept == Spec => [](PinInv /\ HookInv)
<1>1. Typed /\ ControlInv /\ PinInv /\ HookInv /\ [Next]_vars => (PinInv /\ HookInv)'
  BY StepPin, StepHookInv
<1> QED
  BY <1>1, InitPin, StacksAreTyped, PTL DEF Spec

LEMMA PinInvEntry == Typed /\ PinInv /\ NoModeSetters => FixedOnlyWhileRunningLua
<1> SUFFICES ASSUME Typed, PinInv, NoModeSetters, NEW t \in Thread, ts[t].fixed # NULL
             PROVE  t = cur /\ top.kind = "lua" /\ (now.rd => now.fixed = top.ent)
  BY DEF FixedOnlyWhileRunningLua
<1>1. t = cur
  BY UnpinnedThread
<1> QED
  BY <1>1, NowTyped DEF PinInv, PinnedOnly, PinIsEntry

(* A pin is the taint of the closure that runs, as it was when the frame   *)
(* was last entered: luaV_execute sets it there, and every call, return,   *)
(* switch of threads and error either ends the pinning or goes back to the *)
(* frame, also under a hook, which keeps it in a C local.  debug's         *)
(* resettaint and settaintmode can change the mode in the meantime.        *)
THEOREM PinIsOfRunningClosure ==
  Lib \cap {"settaint", "settaintmode"} = {} => (Spec => []FixedOnlyWhileRunningLua)
<1> SUFFICES ASSUME NoModeSetters PROVE Spec => []FixedOnlyWhileRunningLua
  BY DEF NoModeSetters
<1>1. Typed /\ ControlInv /\ PinInv => FixedOnlyWhileRunningLua
  BY PinInvEntry
<1> QED
  BY <1>1, StacksAreTyped, PinsAreKept, PTL

LEMMA PinInvStack == Typed /\ PinInv /\ "hook" \notin Lib => PinnedStack
<1> SUFFICES ASSUME Typed, PinInv, "hook" \notin Lib, ctl = "run", NEW t \in Thread,
                    ts[t].fixed # NULL, ts[t].rd
             PROVE  ts[t].stack = ts[t].fixed
  BY DEF PinnedStack
<1> QED
  BY DEF PinInv, PinnedOnly, Coincides

(* L->fixedtaint is the taint that luaV_execute last gave to the stack,    *)
(* in every build without debug hooks: what reads its pin is told by it.   *)
THEOREM StackTaintIsPinned == "hook" \notin Lib => (Spec => []PinnedStack)
<1> SUFFICES ASSUME "hook" \notin Lib PROVE Spec => []PinnedStack
  OBVIOUS
<1>1. Typed /\ ControlInv /\ PinInv => PinnedStack
  BY PinInvStack
<1> QED
  BY <1>1, StacksAreTyped, PinsAreKept, PTL

(* luaF_newLclosure under tainted code gives the closure newgctaint,       *)
(* writetaint or newcltaint (luaR_taintalloc): with the stack taint pinned *)
(* and the cache coherent, writetaint is that of the running closure.      *)
LEMMA TaintedCodeTaints ==
  ASSUME Typed, WriteTaintCoherent, PinnedStack, now.rd, now.wr, now.fixed # NULL,
         NEW f \in Closure, NewClosure(f)
  PROVE  clo'[f] # NULL
<1>1. /\ now = ts[cur] /\ cur \in Thread /\ ctl = "run"
      /\ clo' = [clo EXCEPT ![f] = TaintAllocFunction(now)]
  BY NowTyped DEF NewClosure, InLua, Running
<1>2. now.stack = now.fixed /\ now.write = now.stack
  BY <1>1 DEF PinnedStack, WriteTaintCoherent
<1>3. TaintAllocFunction(now) # NULL
  BY <1>2 DEF TaintAllocFunction
<1> QED
  BY <1>1, <1>3 DEF Typed

(* OP_CLOSURE in pinned, tainted code gives the closure an object taint,   *)
(* in every build without debug hooks, whatever newgctaint is set to.      *)
THEOREM TaintedCodeMakesTaintedClosures ==
  "hook" \notin Lib => (Spec => ClosuresOfTaintedCodeAreTainted)
<1> SUFFICES ASSUME "hook" \notin Lib PROVE Spec => ClosuresOfTaintedCodeAreTainted
  OBVIOUS
<1>1. Typed /\ ControlInv /\ WriteTaintCoherent /\ PinnedStack /\ [Next]_vars =>
        [TaintsNewClosures]_vars
  BY TaintedCodeTaints DEF TaintsNewClosures
<1> QED
  BY <1>1, StacksAreTyped, StackTaintIsPinned, WriteTaintIsCoherent, PTL
     DEF Spec, ClosuresOfTaintedCodeAreTainted
-----------------------------------------------------------------------------
(* Part 20: the invariant.                                                 *)

(* Nothing above frame i of thread t has been called by that frame: it is  *)
(* on top, or an activation was made from it.                              *)
Resting(t, i) == i = Len(ci[t]) \/ Active(t, i)

(* luaV_execute entered the frame with a tainted closure and its reads     *)
(* tracked, and has not left it since but to a C function.                 *)
Direct(t, i) ==
  /\ ci[t][i].ent # NULL
  /\ \/ Resting(t, i)
     \/ i < Len(ci[t]) /\ ci[t][i + 1].kind = "c" /\ Resting(t, i + 1)

(* Frame i of thread t is above activation j, and under every later one.   *)
Runs(j) == IF j = 0 THEN Main ELSE cstack[j].t
From(j) == IF j = 0 THEN 0 ELSE cstack[j].at
Segment(t, i, j) ==
  /\ t = Runs(j) /\ From(j) < i
  /\ \A k \in j + 1 .. Depth : cstack[k].t = t => i <= cstack[k].at

(* The activations that run their callee with a taint state of its own.    *)
(* A finalizer starts with what it interrupts.                             *)
Resets == Barriers \ {"gc"}
Unbroken(j, k) == \A m \in j + 1 .. k - 1 : cstack[m].how \notin Resets

(* What ran above activation j was tainted: so is what has been saved      *)
(* since, up to the first barrier, and the running thread if there is none.*)
Carried(j) ==
  /\ \A k \in j + 1 .. Depth :
       cstack[k].how \in Barriers /\ Unbroken(j, k) => cstack[k].saved.stack # NULL
  /\ Unbroken(j, Depth + 1) => now.stack # NULL

(* The frames of a coroutine that has failed are about to be discarded.    *)
Told(t, i, j) == ~(ctl = "failed" /\ t = cur) /\ Segment(t, i, j) /\ Direct(t, i)

TaintInv ==
  \A t \in Thread, j \in 0 .. Depth : \A i \in 1 .. Len(ci[t]) : Told(t, i, j) => Carried(j)

-----------------------------------------------------------------------------
(* Part 21: what a step must keep.                                         *)
LEMMA TaintKept ==
  ASSUME Typed, Typed', TaintInv,
         \A j \in 0 .. Depth : j <= Depth' /\ Carried(j) => Carried(j)',
         \A t \in Thread, j \in 0 .. Depth' : \A i \in 1 .. Len(ci'[t]) :
           Told(t, i, j)' =>
             \/ j <= Depth /\ i <= Len(ci[t]) /\ Told(t, i, j)
             \/ Carried(j)'
  PROVE  TaintInv'
<1> SUFFICES ASSUME NEW t \in Thread, NEW j \in 0 .. Depth', NEW i \in 1 .. Len(ci'[t]),
                    Told(t, i, j)'
             PROVE  Carried(j)'
  BY DEF TaintInv
<1>1. CASE Carried(j)'
  BY <1>1
<1>2. CASE j <= Depth /\ i <= Len(ci[t]) /\ Told(t, i, j)
  <2>1. Depth \in Nat /\ Depth' \in Nat /\ Len(ci[t]) \in Nat /\ Len(ci'[t]) \in Nat
    BY ControlTyped DEF Typed, GoodFrames, Depth
  <2>2. j \in 0 .. Depth /\ i \in 1 .. Len(ci[t]) /\ j <= Depth'
    BY <1>2, <2>1
  <2>3. Carried(j)
    BY <1>2, <2>2 DEF TaintInv
  <2> QED
    BY <2>2, <2>3
<1> QED
  BY <1>1, <1>2

(* The activations stay.                                                   *)
LEMMA CarriedOn ==
  ASSUME UNCHANGED cstack, now.stack # NULL => ts'[cur].stack # NULL, NEW j, Carried(j)
  PROVE  Carried(j)'
<1>1. cur' = cur /\ now' = ts'[cur'] /\ Depth' = Depth
  BY DEF cur, now, Depth
<1>2. \A k : Unbroken(j, k)' <=> Unbroken(j, k)
  BY DEF Unbroken
<1> QED
  BY <1>1, <1>2 DEF Carried

(* One is added.                                                           *)
LEMMA CarriedIn ==
  ASSUME Typed, NEW a \in Activation, Enters(a), a.saved = SavedBy(a.how),
         a.how \notin Resets /\ now.stack # NULL => ts'[a.t].stack # NULL,
         NEW j \in 0 .. Depth, Carried(j)
  PROVE  Carried(j)'
<1>1. /\ Depth' = Depth + 1 /\ cur' = a.t /\ now' = ts'[a.t] /\ Depth \in Nat
      /\ \A k \in 1 .. Depth : cstack'[k] = cstack[k]
      /\ cstack'[Depth + 1] = a
  BY Appended, CurIs DEF Typed, now
<1>2. \A k \in j + 1 .. Depth + 1 : Unbroken(j, k)' <=> Unbroken(j, k)
  BY <1>1 DEF Unbroken
<1>3. Unbroken(j, Depth + 1)' => Unbroken(j, Depth + 1) /\ a.how \notin Resets
  BY <1>1 DEF Unbroken
<1>4. a.how \in Barriers => a.saved.stack = now.stack
  BY NowTyped, SavedByTyped, SaveTaintTyped
<1>5. ASSUME NEW k \in j + 1 .. Depth + 1, cstack'[k].how \in Barriers, Unbroken(j, k)'
      PROVE  cstack'[k].saved.stack # NULL
  <2>1. CASE k = Depth + 1
    BY <1>1, <1>2, <1>4, <1>5, <2>1 DEF Carried
  <2>2. CASE k # Depth + 1
    <3>1. k \in j + 1 .. Depth /\ k \in 1 .. Depth
      BY <1>1, <2>2
    <3> QED
      BY <1>1, <1>2, <1>5, <3>1 DEF Carried
  <2> QED
    BY <2>1, <2>2
<1>6. Unbroken(j, Depth + 1)' => ts'[a.t].stack # NULL
  BY <1>3 DEF Carried
<1>7. \A k \in j + 1 .. Depth' : cstack'[k].how \in Barriers /\ Unbroken(j, k)' => cstack'[k].saved.stack # NULL
  BY <1>1, <1>5
<1>8. Unbroken(j, Depth + 1)' => now'.stack # NULL
  BY <1>1, <1>6
<1> QED
  BY <1>7, <1>8 DEF Carried

(* Some are left.                                                          *)
LEMMA CarriedOut ==
  ASSUME Typed, NEW n \in 0 .. Depth, Left(n), NEW j \in 0 .. n, Carried(j),
         Unbroken(j, n + 1) => ts'[cur'].stack # NULL
  PROVE  Carried(j)'
<1>1. /\ Depth' = n /\ now' = ts'[cur'] /\ Depth \in Nat
      /\ \A k \in 1 .. n : cstack'[k] = cstack[k]
  BY Unwound, CurIs DEF Typed, now
<1>2. \A k \in j + 1 .. n + 1 : Unbroken(j, k)' <=> Unbroken(j, k)
  BY <1>1 DEF Unbroken
<1>3. ASSUME NEW k \in j + 1 .. n, cstack'[k].how \in Barriers, Unbroken(j, k)'
      PROVE  cstack'[k].saved.stack # NULL
  <2>1. k \in j + 1 .. Depth /\ k \in 1 .. n /\ k \in j + 1 .. n + 1
    BY <1>1
  <2> QED
    BY <1>1, <1>2, <1>3, <2>1 DEF Carried
<1>4. n + 1 \in j + 1 .. n + 1
  BY <1>1
<1> QED
  BY <1>1, <1>2, <1>3, <1>4 DEF Carried

(* A frame that is entered directly by what runs now is tainted now.       *)
LEMMA DirectNow ==
  ASSUME Typed, TaintInv, ctl # "failed", NEW i \in 1 .. Len(ci[cur]), From(Depth) < i, Direct(cur, i)
  PROVE  now.stack # NULL
<1>1. Depth \in Nat /\ cur \in Thread /\ cur = Runs(Depth)
  BY CurIs DEF Typed, Runs
<1>2. Segment(cur, i, Depth) /\ Unbroken(Depth, Depth + 1)
  BY <1>1 DEF Segment, Unbroken
<1>3. Told(cur, i, Depth) /\ Depth \in 0 .. Depth
  BY <1>1, <1>2 DEF Told
<1> QED
  BY <1>1, <1>2, <1>3 DEF TaintInv, Carried
-----------------------------------------------------------------------------
(* Part 22: the frames that a step leaves, and what is told of them.       *)
Alike(s, r, n) == \A i \in 1 .. n : r[i].kind = s[i].kind /\ r[i].ent = s[i].ent

(* The frames of a thread are those it had, with other values, or none was *)
(* entered by luaV_execute.                                                *)
Resembles(s, r) ==
  \/ Len(r) = Len(s) /\ Alike(s, r, Len(s))
  \/ \A i \in 1 .. Len(r) : r[i].ent = NULL

(* Nothing is called.                                                      *)
LEMMA QuietTaint ==
  ASSUME Typed, TaintInv, Typed', UNCHANGED cstack, ctl # "failed",
         \A t \in Thread : Resembles(ci[t], ci'[t]),
         now.stack # NULL => ts'[cur].stack # NULL
  PROVE  TaintInv'
<1>1. Depth' = Depth /\ cur' = cur /\ Depth \in Nat
  BY CurIs DEF cur, Depth, Typed
<1>2. ASSUME NEW j \in 0 .. Depth, Carried(j) PROVE Carried(j)'
  BY <1>2, CarriedOn
<1>3. ASSUME NEW t \in Thread, NEW j \in 0 .. Depth, NEW i \in 1 .. Len(ci'[t]), Told(t, i, j)'
      PROVE  i <= Len(ci[t]) /\ Told(t, i, j)
  <2>1. ci'[t][i].ent # NULL
    BY <1>3 DEF Told, Direct
  <2>2. Len(ci'[t]) = Len(ci[t]) /\ Alike(ci[t], ci'[t], Len(ci[t])) /\ Len(ci[t]) \in Nat
    BY <2>1, ControlTyped DEF Resembles
  <2>3. Segment(t, i, j)
    BY <1>1, <1>3 DEF Told, Segment, Runs, From
  <2>4. \A k : Resting(t, k)' => Resting(t, k)
    BY <1>1, <2>2 DEF Resting, Active
  <2>5. Direct(t, i)
    <3>1. ci[t][i].ent # NULL
      BY <1>3, <2>1, <2>2 DEF Alike
    <3>2. CASE Resting(t, i)'
      BY <2>4, <3>1, <3>2 DEF Direct
    <3>3. CASE ~Resting(t, i)'
      <4>1. i < Len(ci[t]) /\ ci'[t][i + 1].kind = "c" /\ Resting(t, i + 1)
        BY <1>3, <2>2, <2>4, <3>3 DEF Told, Direct
      <4>2. ci[t][i + 1].kind = "c"
        BY <1>3, <2>2, <4>1 DEF Alike
      <4> QED
        BY <3>1, <4>1, <4>2 DEF Direct
    <3> QED
      BY <3>2, <3>3
  <2> QED
    BY <1>3, <2>2, <2>3, <2>5 DEF Told
<1> QED
  BY <1>1, <1>2, <1>3, TaintKept

(* A frame is entered in the running thread, on top of n others.           *)
LEMMA TopTaint ==
  ASSUME Typed, ControlInv, TaintInv, Typed', ControlInv', UNCHANGED <<cstack, ctl>>, ctl = "run",
         NEW n \in 0 .. Len(ci[cur]), Len(ci'[cur]) = n + 1, Alike(ci[cur], ci'[cur], n),
         \A t \in Thread : t # cur => ci'[t] = ci[t],
         ci'[cur][n + 1].kind = "c" => n = Len(ci[cur]),
         ci'[cur][n + 1].ent # NULL => ts'[cur].stack # NULL,
         now.stack # NULL => ts'[cur].stack # NULL
  PROVE  TaintInv'
<1>1. /\ Depth' = Depth /\ cur' = cur /\ cur \in Thread /\ Depth \in Nat /\ now' = ts'[cur]
      /\ \A k \in 1 .. Depth : cstack[k].t \in Thread /\ cstack[k].at \in Nat
      /\ \A t \in Thread : Len(ci[t]) \in Nat
  BY CurIs, ControlTyped DEF cur, now, Depth, Typed
<1>2. ASSUME NEW j \in 0 .. Depth, Carried(j) PROVE Carried(j)'
  BY <1>2, CarriedOn
<1>3. \A k \in 1 .. Depth : cstack[k].t = cur => cstack[k].at < n + 1
  <2>1. ctl' # "returned"
    OBVIOUS
  <2>2. \A k \in 1 .. Depth : cstack[k].at < Len(ci'[cstack[k].t])
    BY <1>1, <2>1 DEF ControlInv, Heights
  <2> QED
    BY <2>2
<1>4. ASSUME NEW t \in Thread, NEW j \in 0 .. Depth, NEW i \in 1 .. Len(ci'[t]), Told(t, i, j)'
      PROVE  (i <= Len(ci[t]) /\ Told(t, i, j)) \/ Carried(j)'
  <2>1. Segment(t, i, j) /\ Direct(t, i)' /\ ctl # "failed"
    BY <1>1, <1>4 DEF Told, Segment, Runs, From
  <2>2. \A k : Active(t, k)' <=> Active(t, k)
    BY <1>1 DEF Active
  <2>3. CASE t # cur
    <3>1. ci'[t] = ci[t] /\ \A k : Resting(t, k)' <=> Resting(t, k)
      BY <2>2, <2>3 DEF Resting
    <3> QED
      BY <1>4, <2>1, <3>1 DEF Told, Direct
  <2>4. CASE t = cur /\ i = n + 1
    <3>1. j = Depth
      <4> SUFFICES ASSUME j # Depth PROVE FALSE
        OBVIOUS
      <4>2. Depth \in j + 1 .. Depth /\ Depth \in 1 .. Depth /\ cstack[Depth].t = cur
        BY <1>1, CurIs DEF Typed
      <4>3. i <= cstack[Depth].at
        BY <2>1, <2>4, <4>2 DEF Segment
      <4> QED
        BY <1>1, <1>3, <2>4, <4>2, <4>3
    <3>2. ts'[cur].stack # NULL
      BY <2>1, <2>4 DEF Direct
    <3> QED
      BY <1>1, <3>1, <3>2 DEF Carried
  <2>5. CASE t = cur /\ i # n + 1
    <3>1. i \in 1 .. n /\ i <= Len(ci[cur])
      BY <1>1, <1>4, <2>5
    <3>2. ci[cur][i].ent # NULL
      BY <2>1, <2>5, <3>1 DEF Direct, Alike
    <3>3. CASE Active(cur, i)
      BY <2>1, <2>5, <3>1, <3>2, <3>3 DEF Told, Direct, Resting
    <3>4. CASE ~Active(cur, i)
      <4>1. ci'[cur][i + 1].kind = "c" /\ Resting(cur, i + 1)'
        BY <1>1, <2>1, <2>2, <2>5, <3>1, <3>4 DEF Direct, Resting
      <4>2. CASE i = n
        <5>1. n = Len(ci[cur])
          BY <4>1, <4>2
        <5> QED
          BY <2>1, <2>5, <3>1, <3>2, <4>2, <5>1 DEF Told, Direct, Resting
      <4>3. CASE i # n
        <5>1. i + 1 \in 1 .. n /\ i < Len(ci[cur]) /\ i + 1 # n + 1
          BY <1>1, <3>1, <4>3
        <5>2. Resting(cur, i + 1) /\ ci[cur][i + 1].kind = "c"
          BY <1>1, <2>2, <2>5, <4>1, <5>1 DEF Resting, Alike
        <5> QED
          BY <2>1, <2>5, <3>1, <3>2, <5>1, <5>2 DEF Told, Direct
      <4> QED
        BY <4>2, <4>3
    <3> QED
      BY <3>3, <3>4
  <2> QED
    BY <2>3, <2>4, <2>5
<1> QED
  BY <1>1, <1>2, <1>4, TaintKept
(* C code enters the interpreter, on the same thread or on another.        *)
LEMMA PushTaint ==
  ASSUME Typed, TaintInv, Typed', ctl = "run",
         NEW a \in Activation, Enters(a), a.saved = SavedBy(a.how), a.at = Len(ci[a.t]),
         \A t \in Thread : t # a.t => ci'[t] = ci[t],
         Len(ci'[a.t]) = Len(ci[a.t]) + 1, Alike(ci[a.t], ci'[a.t], Len(ci[a.t])),
         ci'[a.t][Len(ci[a.t]) + 1].ent # NULL => ts'[a.t].stack # NULL,
         a.how \notin Resets /\ now.stack # NULL => ts'[a.t].stack # NULL
  PROVE  TaintInv'
<1>1. /\ Depth' = Depth + 1 /\ cur' = a.t /\ now' = ts'[a.t] /\ Depth \in Nat /\ a.t \in Thread
      /\ \A k \in 1 .. Depth : cstack'[k] = cstack[k]
      /\ cstack'[Depth + 1] = a
      /\ \A t \in Thread : Len(ci[t]) \in Nat
  BY Appended, CurIs, ControlTyped DEF Typed, now, Activation
<1>2. ASSUME NEW j \in 0 .. Depth, Carried(j) PROVE Carried(j)'
  BY <1>2, CarriedIn
<1> DEFINE n == Len(ci[a.t])
<1>3. n \in Nat /\ a.at = n /\ Len(ci'[a.t]) = n + 1
  BY <1>1
<1>4. ASSUME NEW t \in Thread, NEW i, Active(t, i)' PROVE Active(t, i) \/ (t = a.t /\ i = n)
  BY <1>1, <1>3, <1>4 DEF Active
<1>5. Alike(ci[a.t], ci'[a.t], n)
  OBVIOUS
<1>6. ci'[a.t][n + 1].ent # NULL => ts'[a.t].stack # NULL
  OBVIOUS
<1>7. \A t \in Thread : t = a.t => Len(ci[t]) = n
  OBVIOUS
<1> HIDE DEF n
<1>8. ASSUME NEW t \in Thread, NEW j \in 0 .. Depth + 1, NEW i \in 1 .. Len(ci'[t]), Told(t, i, j)'
      PROVE  (j <= Depth /\ i <= Len(ci[t]) /\ Told(t, i, j)) \/ Carried(j)'
  <2>1. Segment(t, i, j)' /\ Direct(t, i)'
    BY <1>8 DEF Told
  <2>2. CASE j = Depth + 1
    <3>1. t = a.t /\ n < i
      BY <1>1, <1>3, <2>1, <2>2 DEF Segment, Runs, From
    <3>2. i = n + 1
      BY <1>3, <1>8, <3>1
    <3>3. now'.stack # NULL
      BY <1>1, <1>6, <2>1, <3>1, <3>2 DEF Direct
    <3> QED
      BY <1>1, <2>2, <3>3 DEF Carried
  <2>3. CASE j # Depth + 1
    <3>0. j \in 0 .. Depth
      BY <1>1, <2>3
    <3>1. Segment(t, i, j) /\ (t = a.t => i <= n)
      <4>1. Runs(j)' = Runs(j) /\ From(j)' = From(j)
        BY <1>1, <3>0 DEF Runs, From
      <4>2. \A k \in j + 1 .. Depth + 1 : cstack'[k].t = t => i <= cstack'[k].at
        BY <1>1, <2>1 DEF Segment
      <4>3. Depth + 1 \in j + 1 .. Depth + 1
        BY <1>1, <3>0
      <4>4. \A k \in j + 1 .. Depth : k \in j + 1 .. Depth + 1 /\ k \in 1 .. Depth
        BY <1>1, <3>0
      <4>5. \A k \in j + 1 .. Depth : cstack[k].t = t => i <= cstack[k].at
        BY <1>1, <4>2, <4>4
      <4> QED
        BY <1>1, <1>3, <2>1, <4>1, <4>2, <4>3, <4>5 DEF Segment
    <3>2. CASE t # a.t
      <4>1. ci'[t] = ci[t] /\ \A k : Resting(t, k)' => Resting(t, k)
        BY <1>4, <3>2 DEF Resting
      <4> QED
        BY <1>8, <2>1, <3>0, <3>1, <4>1 DEF Told, Direct
    <3>3. CASE t = a.t
      <4>1. i \in 1 .. n /\ i <= Len(ci[t]) /\ Len(ci[t]) = n
        BY <1>1, <1>3, <1>7, <1>8, <3>1, <3>3
      <4>2. ci[t][i].ent # NULL
        BY <1>5, <2>1, <3>3, <4>1 DEF Direct, Alike
      <4>3. \A k : Active(t, k)' => Resting(t, k)
        BY <1>4, <3>3, <4>1 DEF Resting
      <4>4. CASE Active(t, i)' \/ i = n
        BY <3>0, <3>1, <4>1, <4>2, <4>3, <4>4 DEF Told, Direct, Resting
      <4>5. CASE ~Active(t, i)' /\ i # n
        <5>1. i # n + 1 /\ i + 1 # n + 1 /\ i + 1 \in 1 .. n /\ i < n
          BY <1>3, <4>1, <4>5
        <5>2. Active(t, i + 1)' /\ ci'[t][i + 1].kind = "c"
          BY <1>3, <2>1, <3>3, <4>5, <5>1 DEF Direct, Resting
        <5>3. Resting(t, i + 1) /\ ci[t][i + 1].kind = "c"
          BY <1>5, <3>3, <4>3, <5>1, <5>2 DEF Alike
        <5> QED
          BY <3>0, <3>1, <4>1, <4>2, <5>1, <5>3 DEF Told, Direct
      <4> QED
        BY <4>4, <4>5
    <3> QED
      BY <3>2, <3>3
  <2> QED
    BY <2>2, <2>3
<1> QED
  BY <1>1, <1>2, <1>8, TaintKept

(* A suspended coroutine goes on, in the Lua function that called yield.   *)
LEMMA ContinueTaint ==
  ASSUME Typed, ControlInv, TaintInv, Typed', ctl = "run",
         NEW a \in Activation, Enters(a), a.saved = SavedBy(a.how), a.at = 1, st[a.t] = "yield",
         \A t \in Thread : t # a.t => ci'[t] = ci[t],
         ci'[a.t][Len(ci'[a.t])].kind = "lua",
         ci'[a.t][Len(ci'[a.t])].ent # NULL => ts'[a.t].stack # NULL,
         a.how \notin Resets /\ now.stack # NULL => ts'[a.t].stack # NULL
  PROVE  TaintInv'
<1>1. /\ Depth' = Depth + 1 /\ cur' = a.t /\ now' = ts'[a.t] /\ Depth \in Nat /\ a.t \in Thread
      /\ \A k \in 1 .. Depth : cstack'[k] = cstack[k]
      /\ cstack'[Depth + 1] = a
      /\ \A t \in Thread : Len(ci[t]) \in Nat
  BY Appended, CurIs, ControlTyped DEF Typed, now, Activation
<1>0. \A t \in Thread : Len(ci'[t]) \in Nat
  BY DEF Typed, GoodFrames
<1>2. ASSUME NEW j \in 0 .. Depth, Carried(j) PROVE Carried(j)'
  BY <1>2, CarriedIn
<1>3. a.t # Main /\ \A k \in 1 .. Depth : cstack[k].t # a.t
  BY CurAwake DEF ControlInv, Statuses
<1>4. ASSUME NEW t \in Thread, NEW j \in 0 .. Depth + 1, NEW i \in 1 .. Len(ci'[t]), Told(t, i, j)'
      PROVE  (j <= Depth /\ i <= Len(ci[t]) /\ Told(t, i, j)) \/ Carried(j)'
  <2>1. Segment(t, i, j)' /\ Direct(t, i)'
    BY <1>4 DEF Told
  <2>2. CASE j = Depth + 1
    <3>1. t = a.t /\ 1 < i
      BY <1>1, <2>1, <2>2 DEF Segment, Runs, From
    <3>2. \A k : Active(a.t, k)' => k = 1
      BY <1>1, <1>3 DEF Active
    <3>3. i = Len(ci'[a.t])
      <4>1. CASE Resting(a.t, i)'
        BY <3>1, <3>2, <4>1 DEF Resting
      <4>2. CASE ~Resting(a.t, i)'
        <5>1. ci'[a.t][i + 1].kind = "c" /\ Resting(a.t, i + 1)' /\ i + 1 # 1
          BY <1>0, <1>1, <1>4, <2>1, <3>1, <4>2 DEF Direct
        <5> QED
          BY <3>2, <5>1 DEF Resting
      <4> QED
        BY <4>1, <4>2
    <3>4. now'.stack # NULL
      BY <1>1, <2>1, <3>1, <3>3 DEF Direct
    <3> QED
      BY <1>1, <2>2, <3>4 DEF Carried
  <2>3. CASE j # Depth + 1
    <3>0. j \in 0 .. Depth
      BY <1>1, <2>3
    <3>1. Runs(j)' = Runs(j) /\ From(j)' = From(j) /\ t = Runs(j)'
      BY <1>1, <2>1, <3>0 DEF Runs, From, Segment
    <3>2. t # a.t
      BY <1>3, <3>0, <3>1 DEF Runs
    <3>3. ci'[t] = ci[t] /\ \A k : Active(t, k)' => Active(t, k)
      BY <1>1, <3>2 DEF Active
    <3>4. Segment(t, i, j)
      <4>1. \A k \in j + 1 .. Depth : k \in j + 1 .. Depth + 1 /\ k \in 1 .. Depth
        BY <1>1, <3>0
      <4>2. \A k \in j + 1 .. Depth + 1 : cstack'[k].t = t => i <= cstack'[k].at
        BY <1>1, <2>1 DEF Segment
      <4>3. \A k \in j + 1 .. Depth : cstack[k].t = t => i <= cstack[k].at
        BY <1>1, <4>1, <4>2
      <4> QED
        BY <2>1, <3>1, <4>3 DEF Segment
    <3>5. \A k : Resting(t, k)' => Resting(t, k)
      BY <3>3 DEF Resting
    <3>6. Direct(t, i)
      BY <2>1, <3>3, <3>5 DEF Direct
    <3> QED
      BY <1>4, <3>0, <3>3, <3>4, <3>6 DEF Told
  <2> QED
    BY <2>2, <2>3
<1> QED
  BY <1>1, <1>2, <1>4, TaintKept

(* C code is left, by a return or by an error: the first n activations     *)
(* stay, and the frames of thread t that rest below the others.            *)
Stays(t, n) ==
  /\ Len(ci'[t]) <= Len(ci[t]) /\ Alike(ci[t], ci'[t], Len(ci'[t]))
  /\ Resting(t, Len(ci'[t]))
  /\ \A k \in n + 1 .. Depth : cstack[k].t = t => Len(ci'[t]) <= cstack[k].at

LEMMA LeaveTaint ==
  ASSUME Typed, TaintInv, Typed', NEW n \in 0 .. Depth, Left(n),
         \A t \in Thread :
           \/ Stays(t, n) /\ ~(ctl = "failed" /\ t = cur)
           \/ ctl' = "failed" /\ t = cur'
           \/ \A j \in 0 .. n : t # Runs(j),
         \A j \in 0 .. n : Carried(j) /\ Unbroken(j, n + 1) => ts'[cur'].stack # NULL
  PROVE  TaintInv'
<1>1. /\ Depth' = n /\ Depth \in Nat
      /\ \A k \in 1 .. n : cstack'[k] = cstack[k]
      /\ \A t \in Thread : Len(ci[t]) \in Nat /\ Len(ci'[t]) \in Nat
  BY Unwound, CurIs, ControlTyped DEF Typed, GoodFrames
<1>2. ASSUME NEW j \in 0 .. Depth, j <= n, Carried(j) PROVE Carried(j)'
  BY <1>1, <1>2, CarriedOut
<1>3. ASSUME NEW t \in Thread, NEW j \in 0 .. n, NEW i \in 1 .. Len(ci'[t]), Told(t, i, j)'
      PROVE  j <= Depth /\ i <= Len(ci[t]) /\ Told(t, i, j)
  <2>1. Segment(t, i, j)' /\ Direct(t, i)'
    BY <1>3 DEF Told
  <2>2. Runs(j)' = Runs(j) /\ From(j)' = From(j) /\ t = Runs(j)
    BY <1>1, <2>1 DEF Runs, From, Segment
  <2>3. Stays(t, n) /\ ~(ctl = "failed" /\ t = cur)
    BY <1>3, <2>2 DEF Told
  <2>4. i <= Len(ci[t]) /\ j <= Depth
    BY <1>1, <2>3 DEF Stays
  <2>5. Segment(t, i, j)
    <3>1. ASSUME NEW k \in j + 1 .. Depth, cstack[k].t = t PROVE i <= cstack[k].at
      <4>1. CASE k <= n
        BY <1>1, <2>1, <3>1, <4>1 DEF Segment
      <4>2. CASE ~(k <= n)
        <5>1. k \in n + 1 .. Depth /\ cstack[k].at \in Nat
          BY <1>1, <4>2, ControlTyped
        <5> QED
          BY <1>1, <2>3, <3>1, <5>1 DEF Stays
      <4> QED
        BY <4>1, <4>2
    <3> QED
      BY <2>1, <2>2, <3>1 DEF Segment
  <2>6. \A k : Resting(t, k)' => Resting(t, k)
    <3>1. \A k : Active(t, k)' => Active(t, k)
      BY <1>1 DEF Active
    <3> QED
      BY <2>3, <3>1 DEF Resting, Stays
  <2>7. Direct(t, i)
    <3>1. ci[t][i].ent # NULL
      BY <1>3, <2>1, <2>3 DEF Direct, Stays, Alike
    <3>2. CASE Resting(t, i)'
      BY <2>6, <3>1, <3>2 DEF Direct
    <3>3. CASE ~Resting(t, i)'
      <4>1. i < Len(ci'[t]) /\ ci'[t][i + 1].kind = "c" /\ Resting(t, i + 1)
        BY <2>1, <2>6, <3>3 DEF Direct
      <4>2. i + 1 \in 1 .. Len(ci'[t]) /\ i < Len(ci[t])
        BY <1>1, <2>3, <4>1 DEF Stays
      <4>3. ci[t][i + 1].kind = "c"
        BY <2>3, <4>1, <4>2 DEF Stays, Alike
      <4> QED
        BY <3>1, <4>1, <4>2, <4>3 DEF Direct
    <3> QED
      BY <3>2, <3>3
  <2> QED
    BY <2>3, <2>4, <2>5, <2>7 DEF Told
<1> QED
  BY <1>1, <1>2, <1>3, TaintKept
(* Activation k and those above it are left, all of them on one thread.    *)
LEMMA UnwindTaint ==
  ASSUME Typed, ControlInv, TaintInv, Typed', ctl \in {"run", "rethrow"},
         NEW k \in 1 .. Depth, Left(k - 1),
         \A m \in k + 1 .. Depth : cstack[m].how \notin Switch,
         Len(ci'[cur]) = cstack[k].at, Alike(ci[cur], ci'[cur], cstack[k].at),
         \A t \in Thread : t # cur => Len(ci'[t]) = Len(ci[t]) /\ Alike(ci[t], ci'[t], Len(ci[t])),
         \A j \in 0 .. k - 1 : Carried(j) /\ Unbroken(j, k) => ts'[cur'].stack # NULL
  PROVE  TaintInv'
<1>1. /\ Depth \in Nat /\ k - 1 \in 0 .. Depth /\ (k - 1) + 1 = k
      /\ \A m \in 1 .. Depth : cstack[m].t \in Thread /\ cstack[m].at \in Nat
      /\ \A t \in Thread : Len(ci[t]) \in Nat
  BY ControlTyped
<1>2. \A m \in k .. Depth : cstack[m].t = cur
  BY SameThread DEF ControlInv
<1>3. Stays(cur, k - 1)
  <2>1. cstack[k].t = cur /\ cstack[k].at < Len(ci[cur])
    BY <1>1, <1>2, CurAwake
  <2>2. \A m \in k .. Depth : cstack[k].at <= cstack[m].at
    BY <1>1, <1>2 DEF ControlInv, Ordering
  <2>3. Active(cur, cstack[k].at)
    BY <2>1 DEF Active
  <2> QED
    BY <1>1, <2>1, <2>2, <2>3 DEF Stays, Resting
<1>4. ASSUME NEW t \in Thread, t # cur PROVE Stays(t, k - 1)
  BY <1>1, <1>2, <1>4 DEF Stays, Resting
<1> QED
  BY <1>1, <1>3, <1>4, LeaveTaint

(* An error reaches lua_resume.                                            *)
LEMMA FailedTaint ==
  ASSUME Typed, ControlInv, TaintInv, Typed', ctl \in {"run", "rethrow"}, ctl' = "failed",
         NEW k \in 1 .. Depth, Left(k),
         \A m \in k + 1 .. Depth : cstack[m].how \notin Switch,
         \A t \in Thread : t # cur => ci'[t] = ci[t],
         \A j \in 0 .. k : Carried(j) /\ Unbroken(j, k + 1) => ts'[cur'].stack # NULL
  PROVE  TaintInv'
<1>1. /\ Depth \in Nat /\ k \in 0 .. Depth
      /\ \A t \in Thread : Len(ci[t]) \in Nat
  BY ControlTyped
<1>2. \A m \in k .. Depth : cstack[m].t = cur
  BY SameThread DEF ControlInv
<1>3. cur' = cur
  <2>1. cstack \in Seq(Activation) /\ k \in k .. Depth /\ k # 0
    BY <1>1 DEF Typed
  <2>2. cur' = cstack[k].t
    BY <1>1, <2>1, Unwound
  <2> QED
    BY <1>2, <2>1, <2>2
<1>4. ASSUME NEW t \in Thread, t # cur PROVE Stays(t, k)
  BY <1>1, <1>2, <1>4 DEF Stays, Resting, Alike
<1> QED
  BY <1>1, <1>3, <1>4, LeaveTaint

(* lua_resume returns.                                                     *)
LEMMA FinishTaint ==
  ASSUME Typed, ControlInv, TaintInv, Typed', Depth > 0, cstack[Depth].how = "resume",
         Left(Depth - 1),
         \A t \in Thread : t # cur => Len(ci'[t]) = Len(ci[t]) /\ Alike(ci[t], ci'[t], Len(ci[t])),
         \A j \in 0 .. Depth - 1 : Carried(j) /\ Unbroken(j, Depth) => ts'[cur'].stack # NULL
  PROVE  TaintInv'
<1>1. /\ Depth \in Nat /\ Depth - 1 \in 0 .. Depth /\ (Depth - 1) + 1 = Depth
      /\ \A t \in Thread : Len(ci[t]) \in Nat
  BY ControlTyped
<1>2. /\ cur # Main /\ cstack[Depth].t = cur
      /\ \A k \in 1 .. Depth : k # Depth => cstack[k].t # cur
  BY SoleActivation
<1>3. \A j \in 0 .. Depth - 1 : cur # Runs(j)
  BY <1>1, <1>2 DEF Runs
<1>4. ASSUME NEW t \in Thread, t # cur PROVE Stays(t, Depth - 1)
  BY <1>1, <1>2, <1>4 DEF Stays, Resting
<1> QED
  BY <1>1, <1>3, <1>4, LeaveTaint

-----------------------------------------------------------------------------
(* Part 23: values.  No one but a closure that tracks writes computes one  *)
(* that is not tainted.                                                    *)
Honest(v) == v.by # NULL => v.taint # NULL
HonestFrames(s) == \A i \in 1 .. Len(s) : Honest(s[i].val)
Values == /\ \A t \in Thread : HonestFrames(ci[t])
          /\ \A c \in Cell : Honest(heap[c])

LEMMA MovedHonest ==
  ASSUME NEW x \in ThreadTaint, NEW v \in Value, Honest(v)
  PROVE  Moved(x, v) \in Value /\ Honest(Moved(x, v))
  BY MovedTyped DEF Honest

LEMMA LabelledHonest ==
  ASSUME NEW taint \in TaintOrNull
  PROVE  Labelled(taint) \in Value /\ Honest(Labelled(taint))
  BY LabelledTyped DEF Honest

LEMMA SecureHonest == Secure \in Value /\ Honest(Secure)
  BY SecureTyped DEF Honest

LEMMA TopHonest ==
  ASSUME NEW s \in GoodFrames, HonestFrames(s)
  PROVE  Last(s).val \in Value /\ Honest(Last(s).val)
<1>1. Last(s) = s[Len(s)] /\ Len(s) \in 1 .. Len(s) /\ Last(s).val \in Value
  BY TopOf
<1> QED
  BY <1>1 DEF HonestFrames

(* The running frame is the last one entered, so the write taint is that   *)
(* of its closure.                                                         *)
LEMMA ComputedHonest ==
  ASSUME Typed, ControlInv, TaintInv, WriteTaintCoherent, ctl = "run"
  PROVE  Computed \in Value /\ Honest(Computed)
<1>1. /\ now \in ThreadTaint /\ top \in Frame /\ now = ts[cur] /\ cur \in Thread
      /\ top = ci[cur][Len(ci[cur])] /\ Len(ci[cur]) \in 1 .. Len(ci[cur])
  BY NowTyped
<1>2. From(Depth) < Len(ci[cur])
  BY <1>1, CurIs, CurAwake DEF Typed, From
<1>3. ASSUME now.rd, now.wr, top.ent # NULL PROVE now.write # NULL
  <2>1. Direct(cur, Len(ci[cur]))
    BY <1>1, <1>3 DEF Direct, Resting
  <2>2. now.stack # NULL
    BY <1>1, <1>2, <2>1, DirectNow
  <2> QED
    BY <1>1, <1>3, <2>2 DEF WriteTaintCoherent
<1>4. Computed.taint = now.write /\ Computed.by = IF now.rd /\ now.wr THEN top.ent ELSE NULL
  BY DEF Computed
<1>5. Computed \in Value
  BY <1>1, ComputedTyped
<1> QED
  BY <1>3, <1>4, <1>5 DEF Honest
(* What the operators of the model do to the frames of a thread.           *)
LEMMA RevaluedKept ==
  ASSUME NEW s \in GoodFrames, HonestFrames(s), NEW v \in Value, Honest(v)
  PROVE  /\ WithVal(s, v) \in GoodFrames /\ Len(WithVal(s, v)) = Len(s)
         /\ Alike(s, WithVal(s, v), Len(s)) /\ HonestFrames(WithVal(s, v))
<1> DEFINE r == WithVal(s, v)
           e == [Last(s) EXCEPT !.val = v]
<1>1. /\ r \in GoodFrames /\ Len(r) = Len(s) /\ r[Len(s)] = e
      /\ \A i \in 1 .. Len(s) - 1 : r[i] = s[i]
  BY RevaluedTop
<1>2. /\ Last(s) = s[Len(s)] /\ Last(s) \in Frame /\ Len(s) \in Nat /\ Len(s) >= 1
  BY TopOf
<1>3. e.kind = Last(s).kind /\ e.ent = Last(s).ent /\ e.val = v
  BY <1>2 DEF Frame
<1> HIDE DEF r, e
<1>4. ASSUME NEW i \in 1 .. Len(s)
      PROVE  r[i].kind = s[i].kind /\ r[i].ent = s[i].ent /\ Honest(r[i].val)
  <2>1. CASE i = Len(s)
    BY <1>1, <1>2, <1>3, <2>1
  <2>2. CASE i # Len(s)
    BY <1>1, <1>2, <2>2 DEF HonestFrames
  <2> QED
    BY <2>1, <2>2
<1>5. Alike(s, r, Len(s)) /\ HonestFrames(r)
  BY <1>1, <1>4 DEF Alike, HonestFrames
<1> QED
  BY <1>1, <1>5 DEF r

LEMMA CutKept ==
  ASSUME NEW s \in GoodFrames, HonestFrames(s), NEW n \in 1 .. Len(s), NEW v \in Value, Honest(v)
  PROVE  /\ SubSeq(s, 1, n) \in GoodFrames /\ Len(SubSeq(s, 1, n)) = n
         /\ Alike(s, SubSeq(s, 1, n), n) /\ HonestFrames(SubSeq(s, 1, n))
         /\ WithVal(SubSeq(s, 1, n), v) \in GoodFrames /\ Len(WithVal(SubSeq(s, 1, n), v)) = n
         /\ Alike(s, WithVal(SubSeq(s, 1, n), v), n) /\ HonestFrames(WithVal(SubSeq(s, 1, n), v))
<1> DEFINE r == SubSeq(s, 1, n)
<1>1. r \in GoodFrames /\ Len(r) = n /\ \A i \in 1 .. n : r[i] = s[i]
  BY PrefixFrames
<1>2. Len(s) \in Nat
  BY TopOf
<1> HIDE DEF r
<1>3. Alike(s, r, n) /\ HonestFrames(r)
  BY <1>1, <1>2 DEF Alike, HonestFrames
<1>4. /\ WithVal(r, v) \in GoodFrames /\ Len(WithVal(r, v)) = n
      /\ Alike(r, WithVal(r, v), n) /\ HonestFrames(WithVal(r, v))
  BY <1>1, <1>3, RevaluedKept
<1>5. Alike(s, WithVal(r, v), n)
  BY <1>3, <1>4 DEF Alike
<1> QED
  BY <1>1, <1>3, <1>4, <1>5 DEF r

LEMMA CalledKept ==
  ASSUME clo \in [Closure -> TaintOrNull], NEW s \in GoodFrames, HonestFrames(s),
         NEW x \in ThreadTaint, NEW f \in Callee, NEW v \in Value, Honest(v)
  PROVE  /\ Len(Called(s, x, f, v)) = Len(s) + 1
         /\ Alike(s, Called(s, x, f, v), Len(s)) /\ HonestFrames(Called(s, x, f, v))
         /\ Called(s, x, f, v)[Len(s) + 1].kind = IF f = NULL THEN "c" ELSE "lua"
         /\ Called(s, x, f, v)[Len(s) + 1].ent = IF f # NULL /\ x.rd THEN clo[f] ELSE NULL
<1> DEFINE r == Called(s, x, f, v)
           e == CallFrame(x, f, v)
<1>1. /\ Len(r) = Len(s) + 1 /\ r[Len(s) + 1] = e
      /\ \A g \in {"kind", "fn", "val", "ent"} : r[Len(s)][g] = Last(s)[g]
      /\ \A i \in 1 .. Len(s) - 1 : r[i] = s[i]
  BY CalledFrames
<1>2. e.val = v /\ e.kind = (IF f = NULL THEN "c" ELSE "lua")
      /\ e.ent = (IF f # NULL /\ x.rd THEN clo[f] ELSE NULL)
  BY CallFrameTyped
<1>3. Last(s) = s[Len(s)] /\ Len(s) \in Nat /\ Len(s) >= 1
  BY TopOf
<1> HIDE DEF r, e
<1>4. /\ r[Len(s)].kind = s[Len(s)].kind /\ r[Len(s)].ent = s[Len(s)].ent
      /\ r[Len(s)].val = s[Len(s)].val
  BY <1>1, <1>3
<1>5. \A i \in 1 .. Len(s) : r[i].kind = s[i].kind /\ r[i].ent = s[i].ent /\ r[i].val = s[i].val
  BY <1>1, <1>3, <1>4
<1>6. ASSUME NEW i \in 1 .. Len(r) PROVE Honest(r[i].val)
  <2>1. CASE i = Len(s) + 1
    BY <1>1, <1>2, <2>1
  <2>2. CASE i # Len(s) + 1
    <3>1. i \in 1 .. Len(s)
      BY <1>1, <1>3, <2>2
    <3> QED
      BY <1>5, <3>1 DEF HonestFrames
  <2> QED
    BY <2>1, <2>2
<1> QED
  BY <1>1, <1>2, <1>5, <1>6 DEF Alike, HonestFrames, r

(* The frame on top is taken off, and the one below it becomes e.          *)
LEMMA ReturnedKept ==
  ASSUME NEW s \in GoodFrames, HonestFrames(s), Last(s).kind # "base",
         NEW e \in Frame, e.kind = Last(Front(s)).kind, Honest(e.val),
         e.kind = "lua" => e.fn \in Closure, e.kind # "lua" => e.ent = NULL
  PROVE  LET r == WithTop(Front(s), e)
         IN  /\ Len(r) = Len(s) - 1 /\ Len(s) >= 2 /\ r[Len(s) - 1] = e /\ HonestFrames(r)
             /\ Alike(s, r, Len(s) - 2)
             /\ e.ent = Last(Front(s)).ent => Alike(s, r, Len(s) - 1)
<1> DEFINE q == Front(s)
           r == WithTop(q, e)
<1>1. /\ q \in GoodFrames /\ Len(q) = Len(s) - 1 /\ Len(s) >= 2
      /\ \A i \in 1 .. Len(s) - 1 : q[i] = s[i]
      /\ Last(q) = s[Len(s) - 1]
  BY PoppedFrames
<1>2. Len(s) \in Nat
  BY TopOf
<1> HIDE DEF q
<1>3. /\ Len(r) = Len(q) /\ r[Len(q)] = e
      /\ \A i \in 1 .. Len(q) - 1 : r[i] = q[i]
  <2>1. e.kind = Last(q).kind
    BY DEF q
  <2> QED
    BY <1>1, <2>1, ReplacedTop
<1> HIDE DEF r
<1>4. \A i \in 1 .. Len(s) - 2 : r[i] = s[i]
  BY <1>1, <1>2, <1>3
<1>5. r[Len(s) - 1] = e /\ Len(r) = Len(s) - 1
  BY <1>1, <1>3
<1>6. HonestFrames(r)
  BY <1>1, <1>2, <1>4, <1>5 DEF HonestFrames
<1>7. Alike(s, r, Len(s) - 2)
  BY <1>4 DEF Alike
<1>8. ASSUME e.ent = Last(q).ent PROVE Alike(s, r, Len(s) - 1)
  <2>1. e.ent = s[Len(s) - 1].ent /\ e.kind = s[Len(s) - 1].kind
    BY <1>1, <1>8 DEF q
  <2> QED
    BY <1>1, <1>2, <1>4, <1>5, <2>1 DEF Alike
<1> QED
  BY <1>1, <1>5, <1>6, <1>7, <1>8 DEF r, q
-----------------------------------------------------------------------------
(* Part 24: every action.                                                  *)
LEMMA ValuesFramed ==
  ASSUME Typed, Values, UNCHANGED heap, NEW t \in Thread, NEW r \in GoodFrames, HonestFrames(r),
         ci'[t] = r, \A u \in Thread : u # t => ci'[u] = ci[u]
  PROVE  Values'
<1>1. \A u \in Thread : HonestFrames(ci'[u])
  BY DEF Values
<1> QED
  BY <1>1 DEF Values, HonestFrames

(* Steps that move values.                                                 *)
LEMMA MovesTaint ==
  ASSUME Typed, ControlInv, TaintInv, Values, Typed', UNCHANGED cstack, ctl # "failed",
         now.stack # NULL => ts'[cur].stack # NULL,
         \A c \in Cell : Honest(heap'[c]),
         ci' = ci \/ \E v \in Value : Honest(v) /\ Framed(cur, WithVal(ci[cur], v))
  PROVE  TaintInv' /\ Values'
<1>0. cur \in Thread /\ ci[cur] \in GoodFrames /\ HonestFrames(ci[cur])
  BY NowTyped DEF Values
<1>1. CASE ci' = ci
  <2>1. \A t \in Thread : Resembles(ci[t], ci'[t])
    BY <1>1 DEF Resembles, Alike
  <2>2. Values'
    BY <1>1 DEF Values, HonestFrames
  <2> QED
    BY <2>1, <2>2, QuietTaint
<1>2. ASSUME NEW v \in Value, Honest(v), Framed(cur, WithVal(ci[cur], v))
      PROVE  TaintInv' /\ Values'
  <2> DEFINE r == WithVal(ci[cur], v)
  <2>1. /\ r \in GoodFrames /\ Len(r) = Len(ci[cur]) /\ Alike(ci[cur], r, Len(ci[cur]))
        /\ HonestFrames(r) /\ Framed(cur, r)
    BY <1>0, <1>2, RevaluedKept
  <2> HIDE DEF r
  <2>2. ci'[cur] = r /\ \A u \in Thread : u # cur => ci'[u] = ci[u]
    BY <1>0, <2>1, FramedIs
  <2>3. \A t \in Thread : Resembles(ci[t], ci'[t])
    BY <2>1, <2>2 DEF Resembles, Alike
  <2>4. Values'
    BY <2>1, <2>2 DEF Values, HonestFrames
  <2> QED
    BY <2>3, <2>4, QuietTaint
<1> QED
  BY <1>1, <1>2
(* What a frame passes on is as honest as what it holds.                   *)
LEMMA PassedHonest ==
  ASSUME Typed, Values
  PROVE  /\ Honest(top.val) /\ Honest(Moved(now, top.val)) /\ Honest(Secure)
         /\ \A c \in Cell : Honest(heap[c]) /\ Honest(Moved(now, heap[c])) /\ Moved(now, heap[c]) \in Value
         /\ \A x \in ThreadTaint : Honest(Moved(x, top.val)) /\ Honest(Labelled(x.write))
         /\ \A taint \in TaintOrNull : now.stack # NULL =>
              /\ TaintStack(now, taint).stack # NULL
              /\ TaintStack(Unpin(now), taint).stack # NULL
<1>1. /\ now \in ThreadTaint /\ top.val \in Value /\ top = ci[cur][Len(ci[cur])]
      /\ Len(ci[cur]) \in 1 .. Len(ci[cur]) /\ cur \in Thread
  BY NowTyped
<1>2. Honest(top.val)
  BY <1>1 DEF Values, HonestFrames
<1>3. \A c \in Cell : Honest(heap[c]) /\ heap[c] \in Value
  BY DEF Values, Typed
<1>4. Unpin(now) \in ThreadTaint /\ Unpin(now).stack = now.stack
  BY <1>1, UnpinTyped
<1>5. \A taint \in TaintOrNull : now.stack # NULL =>
              /\ TaintStack(now, taint).stack # NULL
              /\ TaintStack(Unpin(now), taint).stack # NULL
  BY <1>1, <1>4, TaintStackTyped
<1>6. ASSUME NEW x \in ThreadTaint PROVE Honest(Moved(x, top.val)) /\ Honest(Labelled(x.write))
  <2>1. x.write \in TaintOrNull
    BY DEF ThreadTaint
  <2> QED
    BY <1>1, <1>2, <2>1, MovedHonest, LabelledHonest
<1> QED
  BY <1>1, <1>2, <1>3, <1>5, <1>6, MovedHonest, SecureHonest

LEMMA MoveTaint ==
  ASSUME Typed, ControlInv, TaintInv, Values, WriteTaintCoherent, Typed', Move
  PROVE  TaintInv' /\ Values'
<1>0. cur \in Thread /\ now \in ThreadTaint /\ now = ts[cur] /\ ts \in [Thread -> ThreadTaint]
  BY NowTyped DEF Typed
<1>1. ASSUME NEW c \in Cell, Read(c) PROVE TaintInv' /\ Values'
  <2> DEFINE x == TaintStack(now, heap[c].taint)
             v == Moved(now, heap[c])
  <2>1. x \in ThreadTaint /\ (now.stack # NULL => x.stack # NULL)
    BY <1>0, PassedOn, PassedHonest
  <2>2. v \in Value /\ Honest(v)
    BY PassedHonest
  <2>3. /\ Tainted(cur, x) /\ Framed(cur, WithVal(ci[cur], v)) /\ UNCHANGED <<cstack, ctl, heap>>
        /\ ctl # "failed"
    BY <1>1 DEF Read, Tainted, Framed
  <2> HIDE DEF x, v
  <2>4. ts'[cur] = x
    BY <1>0, <2>1, <2>3, TaintedIs
  <2> QED
    BY <2>1, <2>2, <2>3, <2>4, MovesTaint, PassedHonest
<1>2. CASE Compute \/ \E f \in Closure : NewClosure(f)
  <2> DEFINE v == Computed
  <2>1. Framed(cur, WithVal(ci[cur], v)) /\ UNCHANGED <<ts, cstack, ctl, heap>> /\ ctl = "run"
    BY <1>2 DEF Compute, NewClosure, Framed, InLua, Running
  <2>2. v \in Value /\ Honest(v)
    BY <2>1, ComputedHonest
  <2> HIDE DEF v
  <2> QED
    BY <1>0, <2>1, <2>2, MovesTaint, PassedHonest
<1>3. ASSUME NEW c \in Cell, Store(c) PROVE TaintInv' /\ Values'
  <2>1. \A d \in Cell : Honest(heap'[d])
    BY <1>3, PassedHonest DEF Store, Typed
  <2> QED
    BY <1>0, <1>3, <2>1, MovesTaint DEF Store
<1> QED
  BY <1>1, <1>2, <1>3 DEF Move

-----------------------------------------------------------------------------
(* Calls.                                                                  *)
LEMMA PrecallKept ==
  ASSUME Typed, Values, UNCHANGED heap, NEW t \in Thread, NEW x \in ThreadTaint, NEW f \in Callee,
         NEW v \in Value, Honest(v), Precall(t, x, f, v)
  PROVE  /\ Values'
         /\ \A u \in Thread : u # t => ci'[u] = ci[u]
         /\ Len(ci'[t]) = Len(ci[t]) + 1 /\ Alike(ci[t], ci'[t], Len(ci[t]))
         /\ ci'[t][Len(ci[t]) + 1].ent # NULL => ts'[t].stack # NULL
         /\ x.stack # NULL => ts'[t].stack # NULL
<1>1. /\ ts'[t] = Entered(x, f, v) /\ ci'[t] = Called(ci[t], x, f, v)
      /\ ci' \in [Thread -> GoodFrames]
      /\ \A u \in Thread : u # t => ci'[u] = ci[u]
  BY PrecallIs
<1>2. clo \in [Closure -> TaintOrNull] /\ ci[t] \in GoodFrames /\ HonestFrames(ci[t])
  BY DEF Typed, Values
<1> DEFINE r == Called(ci[t], x, f, v)
           y == Entered(x, f, v)
<1>3. /\ Len(r) = Len(ci[t]) + 1 /\ Alike(ci[t], r, Len(ci[t])) /\ HonestFrames(r)
      /\ r[Len(ci[t]) + 1].ent = IF f # NULL /\ x.rd THEN clo[f] ELSE NULL
  BY <1>2, CalledKept
<1>4. /\ x.stack # NULL => y.stack # NULL
      /\ f # NULL /\ clo[f] # NULL /\ x.rd => y.stack = clo[f]
  BY <1>2, EnteredTyped
<1>5. ci'[t] = r /\ ts'[t] = y /\ r \in GoodFrames
  BY <1>1
<1> HIDE DEF r, y
<1>6. Values'
  BY <1>1, <1>3, <1>5, ValuesFramed
<1> QED
  BY <1>1, <1>3, <1>4, <1>5, <1>6

LEMMA LuaCallsTaint ==
  ASSUME Typed, ControlInv, TaintInv, Values, Typed', ControlInv',
         CallC \/ \E f \in Closure : LuaCall(f)
  PROVE  TaintInv' /\ Values'
<1> DEFINE x == TaintStack(now, top.val.taint)
           v == Moved(now, top.val)
<1>1. PICK f \in Callee : Precall(cur, x, f, v)
  BY ClosureAssumption DEF CallC, LuaCall, Callee
<1>2. UNCHANGED <<cstack, ctl, heap>> /\ ctl = "run"
  BY DEF CallC, LuaCall, InLua, Running
<1>3. x \in ThreadTaint /\ v \in Value /\ Honest(v) /\ (now.stack # NULL => x.stack # NULL)
  BY PassedOn, PassedHonest
<1> HIDE DEF x, v
<1>4. /\ Values' /\ cur \in Thread
      /\ \A u \in Thread : u # cur => ci'[u] = ci[u]
      /\ Len(ci'[cur]) = Len(ci[cur]) + 1 /\ Alike(ci[cur], ci'[cur], Len(ci[cur]))
      /\ ci'[cur][Len(ci[cur]) + 1].ent # NULL => ts'[cur].stack # NULL
      /\ x.stack # NULL => ts'[cur].stack # NULL
  BY <1>1, <1>2, <1>3, PrecallKept, NowTyped
<1>5. Len(ci[cur]) \in 0 .. Len(ci[cur])
  BY NowTyped
<1>6. TaintInv'
  BY <1>2, <1>3, <1>4, <1>5, TopTaint
<1> QED
  BY <1>4, <1>6

LEMMA TailCallTaint ==
  ASSUME Typed, ControlInv, TaintInv, Values, Typed', ControlInv', NEW f \in Closure, TailCall(f)
  PROVE  TaintInv' /\ Values'
<1> DEFINE x == TaintStack(now, top.val.taint)
           v == Moved(now, top.val)
           z == TaintStack(Unpin(x), v.taint)
           y == Reenter(z, clo[f])
           e == CallFrame(x, f, v)
           s == ci[cur]
           r == WithTop(s, e)
<1>1. /\ x \in ThreadTaint /\ v \in Value /\ v.taint \in TaintOrNull /\ clo[f] \in TaintOrNull
      /\ f \in Callee /\ f # NULL /\ Honest(v) /\ (now.stack # NULL => x.stack # NULL)
  BY PassedOn, MovedTyped, PassedHonest, ClosureAssumption DEF Typed, Callee
<1>2. Tainted(cur, y) /\ Framed(cur, r) /\ UNCHANGED <<cstack, ctl, heap>> /\ ctl = "run"
      /\ top.kind = "lua"
  BY DEF TailCall, InLua, Running, Tainted, Framed
<1>3. /\ e \in Frame /\ e.kind = "lua" /\ e.fn = f /\ e.val = v
      /\ e.ent = IF x.rd THEN clo[f] ELSE NULL
  BY <1>1, CallFrameTyped DEF Typed
<1> HIDE DEF x, v
<1>4. z \in ThreadTaint /\ z.rd = x.rd /\ (x.stack # NULL => z.stack # NULL)
  BY <1>1, UnpinTyped, TaintStackTyped
<1> HIDE DEF z
<1>5. /\ y \in ThreadTaint /\ (z.stack # NULL => y.stack # NULL)
      /\ clo[f] # NULL /\ z.rd => y.stack = clo[f]
  BY <1>1, <1>4, ReenterTyped
<1> HIDE DEF y, e
<1>6. s \in GoodFrames /\ cur \in Thread /\ Last(s) = top /\ HonestFrames(s) /\ Len(s) \in Nat /\ Len(s) >= 1
  BY NowTyped, TopOf DEF Values
<1> HIDE DEF s
<1>7. /\ r \in GoodFrames /\ Len(r) = Len(s) /\ r[Len(s)] = e
      /\ \A i \in 1 .. Len(s) - 1 : r[i] = s[i]
  BY <1>2, <1>3, <1>6, ReplacedTop
<1> HIDE DEF r
<1>8. Alike(s, r, Len(s) - 1) /\ HonestFrames(r)
  BY <1>1, <1>3, <1>6, <1>7 DEF Alike, HonestFrames
<1>9. /\ ts'[cur] = y /\ ci'[cur] = r /\ \A u \in Thread : u # cur => ci'[u] = ci[u]
  BY <1>2, <1>5, <1>6, <1>7, TaintedIs, FramedIs
<1>10. Values'
  BY <1>2, <1>6, <1>7, <1>8, <1>9, ValuesFramed
<1>11. TaintInv'
  <2> DEFINE n == Len(s) - 1
  <2>1. /\ n \in 0 .. Len(ci[cur]) /\ Len(ci'[cur]) = n + 1 /\ Alike(ci[cur], ci'[cur], n)
        /\ ci'[cur][n + 1] = e
    BY <1>6, <1>7, <1>8, <1>9 DEF s
  <2>2. e.ent # NULL => y.stack # NULL
    BY <1>3, <1>4, <1>5
  <2>3. now.stack # NULL => y.stack # NULL
    BY <1>1, <1>4, <1>5
  <2> HIDE DEF n
  <2> QED
    BY <1>2, <1>3, <1>9, <2>1, <2>2, <2>3, TopTaint
<1> QED
  BY <1>10, <1>11

(* A call that leaves an activation on the C stack.                        *)
LEMMA ActivateTaint ==
  ASSUME Typed, ControlInv, TaintInv, Values, Typed', ctl = "run", UNCHANGED heap, NEW t \in Thread,
         NEW x \in ThreadTaint, NEW f \in Callee, NEW v \in Value, Honest(v), Precall(t, x, f, v),
         NEW how \in How, NEW fix \in TaintOrNull,
         Enters([how |-> how, t |-> t, from |-> cur, at |-> Len(ci[t]),
                 saved |-> SavedBy(how), fix |-> fix]),
         how \notin Resets /\ now.stack # NULL => x.stack # NULL
  PROVE  TaintInv' /\ Values'
<1> DEFINE a == [how |-> how, t |-> t, from |-> cur, at |-> Len(ci[t]),
                 saved |-> SavedBy(how), fix |-> fix]
<1>1. a \in Activation
  <2>1. SavedBy(how) \in Context /\ cur \in Thread /\ Len(ci[t]) \in Nat
    BY SavedByTyped, NowTyped, ControlTyped
  <2> QED
    BY <2>1 DEF Activation
<1>2. /\ a.how = how /\ a.t = t /\ a.at = Len(ci[t]) /\ a.saved = SavedBy(how) /\ Enters(a)
  OBVIOUS
<1> HIDE DEF a
<1>3. /\ Values'
      /\ \A u \in Thread : u # t => ci'[u] = ci[u]
      /\ Len(ci'[t]) = Len(ci[t]) + 1 /\ Alike(ci[t], ci'[t], Len(ci[t]))
      /\ ci'[t][Len(ci[t]) + 1].ent # NULL => ts'[t].stack # NULL
      /\ x.stack # NULL => ts'[t].stack # NULL
  BY PrecallKept
<1>4. TaintInv'
  BY <1>1, <1>2, <1>3, PushTaint
<1> QED
  BY <1>3, <1>4
LEMMA CallTaint ==
  ASSUME Typed, ControlInv, TaintInv, Values, Typed', ControlInv', CallStep
  PROVE  TaintInv' /\ Values'
<1>0. cur \in Thread /\ now \in ThreadTaint /\ NULL \in TaintOrNull
  BY NowTyped, PassedOn
<1>1. ASSUME ctl = "run", UNCHANGED heap,
             NEW x \in ThreadTaint, NEW f \in Callee, NEW v \in Value, Honest(v), Precall(cur, x, f, v),
             NEW how \in How, NEW fix \in TaintOrNull, Activate(how, fix),
             how \notin Resets /\ now.stack # NULL => x.stack # NULL
      PROVE  TaintInv' /\ Values'
  BY <1>0, <1>1, ActivateTaint DEF Activate, Enters
<1>2. ASSUME NEW how \in How, NEW x \in ThreadTaint, NEW f \in Callee, NEW v \in Value, Honest(v),
             CallFromC(how, x, f, v), how \notin Resets /\ now.stack # NULL => x.stack # NULL
      PROVE  TaintInv' /\ Values'
  BY <1>0, <1>1, <1>2 DEF CallFromC, InC, Running
<1>3. ASSUME NEW f \in Callee, Call(f) \/ PCall(f) \/ SecureCall(f) PROVE TaintInv' /\ Values'
  <2>1. {"api", "pcall", "secure"} \subseteq How
    BY DEF How, Catchers, Barriers
  <2> QED
    BY <1>0, <1>2, <1>3, <2>1, PassedOn, PassedHonest DEF Call, PCall, SecureCall
<1>4. ASSUME NEW f \in Callee, DelegateCall(f) PROVE TaintInv' /\ Values'
  <2>1. "delegate" \in How /\ "delegate" \in Resets
    BY DEF How, Barriers, Rethrowers, Resets
  <2> QED
    BY <1>2, <1>4, <2>1, PassedOn, SecureHonest DEF DelegateCall
<1>5. ASSUME NEW f \in Callee, NEW c \in Cell, PeekCall(c, f) PROVE TaintInv' /\ Values'
  <2>1. "peek" \in How /\ "peek" \in Resets
    BY DEF How, Barriers, Rethrowers, Resets
  <2> QED
    BY <1>2, <1>5, <2>1, PassedOn, PassedHonest DEF PeekCall
<1>6. ASSUME NEW f \in Callee, NEW c \in Cell, MetaCall(c, f) PROVE TaintInv' /\ Values'
  <2>1. "meta" \in How
    BY DEF How
  <2>2. heap[c].taint \in TaintOrNull
    BY PassedOn
  <2> QED
    BY <1>0, <1>1, <1>6, <2>1, <2>2, PassedOn, PassedHonest DEF MetaCall, InLua, Running
<1>7. ASSUME NEW f \in Callee, NEW c \in Cell, Finalize(c, f) PROVE TaintInv' /\ Values'
  <2>1. "gc" \in How
    BY DEF How, Barriers
  <2>2. heap[c].taint \in TaintOrNull
    BY PassedOn
  <2> QED
    BY <1>0, <1>1, <1>7, <2>1, <2>2, PassedOn, PassedHonest DEF Finalize, Running
<1>8. ASSUME NEW f \in Callee, NEW c \in Cell, CallHook(c, f) PROVE TaintInv' /\ Values'
  <2>1. "hook" \in How
    BY DEF How
  <2>2. heap[c].taint \in TaintOrNull /\ now.fixed \in TaintOrNull
    BY <1>0, PassedOn DEF ThreadTaint
  <2> QED
    BY <1>0, <1>1, <1>8, <2>1, <2>2, PassedOn, PassedHonest DEF CallHook, InLua, Running
<1> QED
  BY <1>3, <1>4, <1>5, <1>6, <1>7, <1>8, LuaCallsTaint, TailCallTaint DEF CallStep
-----------------------------------------------------------------------------
(* Returns.                                                                *)
LEMMA ReceivedHonest ==
  ASSUME Typed, Values, NEW frame \in Frame, Honest(frame.val), NEW wanted \in BOOLEAN
  PROVE  Honest(ReceivedBy(frame, wanted).val)
<1>1. Unpin(now) \in ThreadTaint /\ top.val \in Value /\ Honest(top.val)
  BY NowTyped, UnpinTyped, PassedHonest
<1>2. Moved(Unpin(now), top.val) \in Value /\ Honest(Moved(Unpin(now), top.val))
  BY <1>1, MovedHonest
<1> DEFINE v == Moved(Unpin(now), top.val)
<1>3. ReceivedBy(frame, wanted).val = IF wanted THEN v ELSE frame.val
  <2>1. ReceivedBy(frame, wanted) = IF wanted THEN [frame EXCEPT !.val = v] ELSE frame
    BY DEF ReceivedBy
  <2> HIDE DEF v
  <2> QED
    BY <2>1 DEF Frame
<1> QED
  BY <1>2, <1>3

LEMMA CallerHonest ==
  ASSUME Typed, Values, Running({"lua", "c"})
  PROVE  /\ Honest(Last(Front(ci[cur])).val) /\ HonestFrames(ci[cur])
         /\ Last(Front(ci[cur])) = ci[cur][Len(ci[cur]) - 1] /\ Len(ci[cur]) - 1 \in 1 .. Len(ci[cur])
         /\ ci[cur] \in GoodFrames /\ Last(ci[cur]).kind # "base" /\ Last(ci[cur]) = top
<1>1. /\ ci[cur] \in GoodFrames /\ cur \in Thread /\ Len(ci[cur]) \in Nat /\ Last(ci[cur]).kind # "base"
  BY NowTyped, CallerIs
<1>2. Last(Front(ci[cur])) = ci[cur][Len(ci[cur]) - 1] /\ Len(ci[cur]) >= 2
  BY <1>1, PoppedFrames
<1>3. HonestFrames(ci[cur])
  BY <1>1 DEF Values
<1> QED
  BY <1>1, <1>2, <1>3 DEF HonestFrames, top

LEMMA ReturnToLuaTaint ==
  ASSUME Typed, ControlInv, TaintInv, Values, Typed', ControlInv', NEW wanted \in BOOLEAN, ReturnToLua(wanted)
  PROVE  TaintInv' /\ Values'
<1> DEFINE s == ci[cur]
           caller == Last(Front(s))
           frame == ReceivedBy(caller, wanted)
           z == AfterMove(wanted)
           x == IF top.kind = "lua" THEN Reenter(z, clo[caller.fn]) ELSE z
           e == IF top.kind = "lua" THEN [frame EXCEPT !.ent = Entry(now, frame.fn)] ELSE frame
           r == WithTop(Front(s), e)
<1>1. /\ Running({"lua", "c"}) /\ ~AtActivation /\ caller.kind = "lua"
      /\ UNCHANGED <<cstack, ctl, heap>> /\ ctl = "run" /\ top.kind \in {"lua", "c"}
  BY DEF ReturnToLua, Running
<1>2. Tainted(cur, x) /\ Framed(cur, r)
  <2>1. CASE top.kind = "lua"
    BY <2>1 DEF ReturnToLua, Tainted, Framed
  <2>2. CASE top.kind # "lua"
    BY <2>2 DEF ReturnToLua, Tainted, Framed
  <2> QED
    BY <2>1, <2>2
<1>3. /\ cur \in Thread /\ caller \in Frame /\ caller.fn \in Closure /\ clo[caller.fn] \in TaintOrNull
      /\ now \in ThreadTaint /\ top \in Frame
  BY <1>1, CallerIs, NowTyped DEF Typed
<1>4. /\ z \in ThreadTaint /\ z.rd = now.rd /\ (now.stack # NULL => z.stack # NULL)
  BY <1>3, AfterMoveTyped
<1>5. /\ Honest(caller.val) /\ HonestFrames(s) /\ caller = s[Len(s) - 1] /\ s \in GoodFrames
      /\ Last(s).kind # "base" /\ Last(s) = top
  BY <1>1, CallerHonest
<1>6. /\ frame \in Frame /\ frame.kind = "lua" /\ frame.fn = caller.fn /\ frame.ent = caller.ent
      /\ Honest(frame.val)
  BY <1>1, <1>3, <1>5, ReceivedTyped, ReceivedHonest
<1>7. Entry(now, frame.fn) = (IF now.rd THEN clo[caller.fn] ELSE NULL) /\ NULL \in TaintOrNull
  BY <1>3, <1>6, ClosureAssumption DEF Entry, TaintOrNull
<1> HIDE DEF frame, z
<1>8. /\ e \in Frame /\ e.kind = "lua" /\ e.fn = caller.fn /\ Honest(e.val)
      /\ e.ent = IF top.kind = "lua" THEN (IF now.rd THEN clo[caller.fn] ELSE NULL) ELSE caller.ent
  BY <1>3, <1>6, <1>7 DEF Frame
<1>9. /\ Reenter(z, clo[caller.fn]) \in ThreadTaint
      /\ z.stack # NULL => Reenter(z, clo[caller.fn]).stack # NULL
      /\ clo[caller.fn] # NULL /\ z.rd => Reenter(z, clo[caller.fn]).stack = clo[caller.fn]
  BY <1>3, <1>4, ReenterTyped
<1>10. x \in ThreadTaint /\ (now.stack # NULL => x.stack # NULL)
  BY <1>4, <1>9
<1>11. Len(s) \in Nat /\ Len(s) >= 2
  BY <1>1, <1>3, CallerIs, NowTyped
<1>12. e.ent # NULL => x.stack # NULL
  <2>1. CASE top.kind = "lua"
    BY <1>4, <1>8, <1>9, <2>1
  <2>2. CASE top.kind # "lua"
    <3> SUFFICES ASSUME caller.ent # NULL PROVE x.stack # NULL
      BY <1>8, <2>2
    <3> DEFINE i == Len(s) - 1
    <3>1. /\ i \in 1 .. Len(ci[cur]) /\ i < Len(ci[cur]) /\ ci[cur][i + 1].kind = "c"
          /\ Resting(cur, i + 1) /\ ci[cur][i].ent # NULL
      BY <1>1, <1>3, <1>5, <1>11, <2>2, NowTyped DEF Resting
    <3>2. Direct(cur, i)
      BY <3>1 DEF Direct
    <3>3. From(Depth) < i
      <4>1. CASE Depth = 0
        BY <3>1, <4>1 DEF From
      <4>2. CASE Depth # 0
        <5>1. Depth \in 1 .. Depth /\ cstack[Depth].t = cur /\ Last(cstack) = cstack[Depth] /\ cstack # <<>>
          BY <4>2, CurIs DEF Typed, Depth
        <5>2. cstack[Depth].at < Len(s) /\ cstack[Depth].at \in Nat
          BY <1>1, <5>1, CurAwake, ControlTyped
        <5>3. Len(s) # cstack[Depth].at + 1
          BY <1>1, <5>1 DEF AtActivation
        <5> QED
          BY <1>11, <4>2, <5>2, <5>3 DEF From
      <4> QED
        BY <4>1, <4>2
    <3>4. now.stack # NULL
      BY <1>1, <3>1, <3>2, <3>3, DirectNow
    <3> QED
      BY <1>10, <3>4
  <2> QED
    BY <2>1, <2>2
<1> HIDE DEF x, e
<1>13. r \in GoodFrames
  <2>1. Front(s) \in GoodFrames /\ e.kind = Last(Front(s)).kind
    BY <1>1, <1>8, CallerIs
  <2> QED
    BY <1>3, <1>8, <2>1, ReplacedTop
<1>14. /\ Len(r) = Len(s) - 1 /\ r[Len(s) - 1] = e /\ HonestFrames(r) /\ Alike(s, r, Len(s) - 2)
  <2>1. e.kind = Last(Front(s)).kind /\ e.fn \in Closure
    BY <1>1, <1>3, <1>8
  <2> QED
    BY <1>5, <1>8, <2>1, ReturnedKept
<1> HIDE DEF r, caller
<1>15. /\ ts'[cur] = x /\ ci'[cur] = r /\ \A u \in Thread : u # cur => ci'[u] = ci[u]
  BY <1>2, <1>3, <1>10, <1>13, TaintedIs, FramedIs
<1>16. Values'
  BY <1>1, <1>3, <1>13, <1>14, <1>15, ValuesFramed
<1>17. TaintInv'
  <2> DEFINE n == Len(s) - 2
  <2>1. /\ n \in 0 .. Len(ci[cur]) /\ Len(ci'[cur]) = n + 1 /\ Alike(ci[cur], ci'[cur], n)
        /\ ci'[cur][n + 1] = e
    BY <1>11, <1>14, <1>15
  <2> HIDE DEF n
  <2> QED
    BY <1>1, <1>8, <1>10, <1>12, <1>15, <2>1, TopTaint
<1> QED
  BY <1>16, <1>17
(* No barrier is left: the running thread carries the taint.               *)
LEMMA CarriedNow ==
  ASSUME Typed, NEW n \in 0 .. Depth, NEW j \in 0 .. n, Carried(j), Unbroken(j, n + 1),
         \A m \in n + 1 .. Depth : cstack[m].how \notin Resets
  PROVE  now.stack # NULL
<1>1. Depth \in Nat
  BY CurIs DEF Typed
<1>2. Unbroken(j, Depth + 1)
  <2> SUFFICES ASSUME NEW m \in j + 1 .. Depth PROVE cstack[m].how \notin Resets
    BY <1>1 DEF Unbroken
  <2>1. m \in j + 1 .. (n + 1) - 1 \/ m \in n + 1 .. Depth
    BY <1>1
  <2> QED
    BY <2>1 DEF Unbroken
<1> QED
  BY <1>2 DEF Carried

(* The innermost activations from k on are left, for the thread below.     *)
LEMMA LeftFor ==
  ASSUME Typed, ControlInv, NEW k \in 1 .. Depth, Left(k - 1)
  PROVE  cur' = cstack[k].from
<1>1. Depth \in Nat /\ k - 1 \in 0 .. Depth /\ cstack \in Seq(Activation)
  BY CurIs DEF Typed
<1>2. cur' = IF k - 1 = 0 THEN Main ELSE cstack[k - 1].t
  BY <1>1, Unwound
<1>3. cstack[k].from = Below(k)
  BY DEF ControlInv, Linking
<1> QED
  BY <1>1, <1>2, <1>3 DEF Below

LEMMA ResumedFrameHonest ==
  ASSUME Typed, Values, NEW a \in Activation, NEW frame \in Frame, Honest(frame.val), NEW wanted \in BOOLEAN
  PROVE  Honest(ResumedFrame(a, frame, wanted).val)
<1>1. a.saved.stack \in TaintOrNull
  BY DEF Activation, Context
<1>2. Honest(Labelled(a.saved.stack))
  BY <1>1, LabelledHonest
<1>3. [frame EXCEPT !.val = Labelled(a.saved.stack)].val = Labelled(a.saved.stack)
  BY DEF Frame
<1>4. Honest(ReceivedBy(frame, wanted).val)
  BY ReceivedHonest
<1> QED
  BY <1>2, <1>3, <1>4 DEF ResumedFrame

(* A barrier gives back what it had saved, anything else what it was given.*)
LEMMA ResumedStack ==
  ASSUME NEW a \in Activation, NEW x \in ThreadTaint
  PROVE  \/ a.how \in Barriers /\ Resumed(a, x).stack = a.saved.stack
         \/ a.how \notin Resets /\ Resumed(a, x).stack = x.stack
<1>1. /\ LoadTaint(x, a.saved).stack = a.saved.stack
      /\ [x EXCEPT !.fixed = a.fix].stack = x.stack
  <2>1. a.saved \in Context
    BY DEF Activation
  <2> QED
    BY <2>1, LoadTaintTyped DEF ThreadTaint
<1>2. CASE a.how = "gc" /\ "gctaint" \in Lib
  BY <1>2 DEF Resumed, Resets
<1>3. CASE a.how = "hook"
  BY <1>1, <1>3 DEF Resumed, Resets, Barriers, Rethrowers
<1>4. CASE a.how # "hook" /\ ~(a.how = "gc" /\ "gctaint" \in Lib)
  <2>1. Resumed(a, x) = IF a.how \in Barriers THEN LoadTaint(x, a.saved) ELSE x
    BY <1>4 DEF Resumed
  <2> QED
    BY <1>1, <2>1 DEF Resets
<1> QED
  BY <1>2, <1>3, <1>4

LEMMA ReturnToCTaint ==
  ASSUME Typed, ControlInv, TaintInv, Values, Typed', NEW wanted \in BOOLEAN, ReturnToC(wanted)
  PROVE  TaintInv' /\ Values'
<1> DEFINE a == Last(cstack)
           s == ci[cur]
           caller == Last(Front(s))
           z == AfterMove(wanted)
           x == Resumed(a, z)
           e == ResumedFrame(a, caller, wanted)
           r == WithTop(Front(s), e)
<1>1. /\ Running({"lua", "c"}) /\ AtActivation /\ cstack # <<>> /\ a.how \notin Switch
      /\ Tainted(cur, x) /\ Framed(cur, r) /\ cstack' = Front(cstack)
      /\ UNCHANGED <<ctl, heap>> /\ ctl = "run"
  BY DEF ReturnToC, Tainted, Framed, AtActivation, Running, Switch
<1>2. /\ Depth \in 1 .. Depth /\ Left(Depth - 1) /\ a \in Activation /\ a = cstack[Depth]
      /\ cstack[Depth].at = Len(s) - 1
      /\ \A m \in Depth + 1 .. Depth : cstack[m].how \notin Switch
  BY <1>1, TopActivation
<1>3. /\ caller \in Frame /\ (caller.kind = "lua" => caller.fn \in Closure)
      /\ (caller.kind # "lua" => caller.ent = NULL) /\ cur \in Thread
  BY <1>1, CallerIs, NowTyped
<1>4. Honest(caller.val) /\ HonestFrames(s) /\ s \in GoodFrames /\ Last(s).kind # "base" /\ Front(s) \in GoodFrames
  BY <1>1, CallerHonest, CallerIs
<1>5. /\ e \in Frame /\ e.kind = caller.kind /\ e.fn = caller.fn /\ e.ent = caller.ent /\ Honest(e.val)
  BY <1>2, <1>3, <1>4, ResumedFrameTyped, ResumedFrameHonest
<1>6. z \in ThreadTaint /\ (now.stack # NULL => z.stack # NULL)
  BY NowTyped, AfterMoveTyped
<1> HIDE DEF z, e
<1>7. /\ x \in ThreadTaint
      /\ \/ a.how \in Barriers /\ x.stack = a.saved.stack
         \/ a.how \notin Resets /\ x.stack = z.stack
  BY <1>2, <1>6, ResumedTyped, ResumedStack
<1> HIDE DEF x, a
<1>8. /\ r \in GoodFrames
      /\ Len(r) = Len(s) - 1 /\ HonestFrames(r) /\ Alike(s, r, Len(s) - 1)
  <2>1. r \in GoodFrames
    BY <1>3, <1>4, <1>5, ReplacedTop
  <2> QED
    BY <1>3, <1>4, <1>5, <2>1, ReturnedKept
<1> HIDE DEF r, caller
<1>9. /\ ts'[cur] = x /\ ci'[cur] = r /\ \A u \in Thread : u # cur => ci'[u] = ci[u]
  BY <1>1, <1>3, <1>7, <1>8, TaintedIs, FramedIs
<1>10. Values'
  BY <1>1, <1>3, <1>8, <1>9, ValuesFramed
<1>11. cur' = cur
  BY <1>1, SameThreadBelow DEF a
<1>12. ASSUME NEW j \in 0 .. Depth - 1, Carried(j), Unbroken(j, Depth) PROVE ts'[cur'].stack # NULL
  <2>0. Depth \in Nat /\ Depth - 1 \in 0 .. Depth /\ (Depth - 1) + 1 = Depth /\ Depth \in j + 1 .. Depth
    BY <1>2, ControlTyped
  <2>1. CASE a.how \in Barriers /\ x.stack = a.saved.stack
    BY <1>2, <1>9, <1>11, <1>12, <2>0, <2>1 DEF Carried
  <2>2. CASE a.how \notin Resets /\ x.stack = z.stack
    <3>1. \A m \in Depth .. Depth : cstack[m].how \notin Resets
      BY <1>2, <2>0, <2>2
    <3>2. now.stack # NULL
      BY <1>12, <2>0, <3>1, CarriedNow
    <3> QED
      BY <1>6, <1>9, <1>11, <2>2, <3>2
  <2> QED
    BY <1>7, <2>1, <2>2
<1>13. /\ Len(ci'[cur]) = cstack[Depth].at /\ Alike(ci[cur], ci'[cur], cstack[Depth].at)
  BY <1>2, <1>8, <1>9
<1>14. \A t \in Thread : t # cur => Len(ci'[t]) = Len(ci[t]) /\ Alike(ci[t], ci'[t], Len(ci[t]))
  BY <1>9 DEF Alike
<1>15. TaintInv'
  BY <1>1, <1>2, <1>12, <1>13, <1>14, UnwindTaint
<1> QED
  BY <1>10, <1>15

(* What a thread leaves to another.                                        *)
LEMMA HandOverKept ==
  ASSUME Typed, NEW to \in Thread, NEW from \in Thread, NEW x \in ThreadTaint, NEW v \in Value,
         x.stack # NULL, ts' = HandOver(to, from, x, v)
  PROVE  ts'[to].stack # NULL
<1>1. v.taint \in TaintOrNull /\ ts[to] \in ThreadTaint /\ ts \in [Thread -> ThreadTaint]
  BY DEF Value, Typed
<1> DEFINE z == TaintThread(ts[to], x)
           y == TaintStack(z, v.taint)
<1>2. z \in ThreadTaint /\ z.stack = x.stack
  BY <1>1, TaintThreadTyped
<1> HIDE DEF z
<1>3. y.stack # NULL
  BY <1>1, <1>2, TaintStackTyped
<1>4. ts' = IF to = from THEN [ts EXCEPT ![to] = x] ELSE [ts EXCEPT ![from] = x, ![to] = y]
  BY DEF HandOver, y, z
<1> HIDE DEF y
<1> QED
  BY <1>1, <1>3, <1>4

LEMMA DeliveredKept ==
  ASSUME Typed, Values, UNCHANGED heap,
         NEW to \in Thread, NEW from \in Thread, NEW x \in ThreadTaint, NEW v \in Value, Honest(v),
         NEW n \in 1 .. Len(ci[from]), Gives(to, from, x, SubSeq(ci[from], 1, n), v)
  PROVE  /\ Values'
         /\ Len(ci'[from]) = n /\ Alike(ci[from], ci'[from], n)
         /\ \A t \in Thread : t # from => Len(ci'[t]) = Len(ci[t]) /\ Alike(ci[t], ci'[t], Len(ci[t]))
<1> DEFINE w == Moved(TaintThread(ts[to], x), v)
           q == SubSeq(ci[from], 1, n)
           r == WithVal(q, v)
           p == WithVal(ci[to], w)
<1>1. ci \in [Thread -> GoodFrames] /\ ci[to] \in GoodFrames /\ ci[from] \in GoodFrames
      /\ HonestFrames(ci[to]) /\ HonestFrames(ci[from])
  BY DEF Typed, Values
<1>2. w \in Value /\ Honest(w)
  <2>1. TaintThread(ts[to], x) \in ThreadTaint
    BY TaintThreadTyped DEF Typed
  <2> QED
    BY <2>1, MovedHonest
<1>3. /\ Len(q) = n /\ Alike(ci[from], q, n) /\ HonestFrames(q)
      /\ Len(r) = n /\ Alike(ci[from], r, n) /\ HonestFrames(r)
  BY <1>1, CutKept
<1> HIDE DEF w
<1>4. /\ Len(p) = Len(ci[to]) /\ Alike(ci[to], p, Len(ci[to])) /\ HonestFrames(p)
  BY <1>1, <1>2, RevaluedKept
<1>5. ci' = IF to = from THEN [ci EXCEPT ![to] = r] ELSE [ci EXCEPT ![from] = q, ![to] = p]
  BY DEF Gives, Delivered, w
<1> HIDE DEF q, r, p
<1>6. CASE to = from
  <2>1. /\ ci'[from] = r /\ \A t \in Thread : t # from => ci'[t] = ci[t]
    BY <1>1, <1>5, <1>6
  <2>2. \A t \in Thread : HonestFrames(ci'[t])
    BY <1>3, <2>1 DEF Values
  <2>3. Values'
    BY <2>2 DEF Values, HonestFrames
  <2> QED
    BY <1>3, <2>1, <2>3 DEF Alike
<1>7. CASE to # from
  <2>1. /\ ci'[from] = q /\ ci'[to] = p
        /\ \A t \in Thread : t \notin {from, to} => ci'[t] = ci[t]
    BY <1>1, <1>5, <1>7
  <2>2. \A t \in Thread : HonestFrames(ci'[t])
    BY <1>3, <1>4, <2>1 DEF Values
  <2>3. Values'
    BY <2>2 DEF Values, HonestFrames
  <2>4. ASSUME NEW t \in Thread, t # from
        PROVE  Len(ci'[t]) = Len(ci[t]) /\ Alike(ci[t], ci'[t], Len(ci[t]))
    BY <1>4, <2>1, <2>4 DEF Alike
  <2> QED
    BY <1>3, <2>1, <2>3, <2>4
<1> QED
  BY <1>6, <1>7

LEMMA CoCallReturnTaint ==
  ASSUME Typed, ControlInv, TaintInv, Values, Typed', NEW wanted \in BOOLEAN, CoCallReturn(wanted)
  PROVE  TaintInv' /\ Values'
<1> DEFINE a == Last(cstack)
           x == AfterMove(wanted)
           v == IF wanted THEN Moved(Unpin(now), top.val) ELSE Last(ci[a.from]).val
           n == Len(ci[cur]) - 1
<1>1. /\ Running({"lua", "c"}) /\ AtActivation /\ cstack' = Front(cstack) /\ a.how = "cocall"
      /\ ts' = HandOver(a.from, cur, x, Results(wanted, v))
      /\ IF wanted THEN Gives(a.from, cur, x, Front(ci[cur]), v) ELSE Framed(cur, Front(ci[cur]))
      /\ UNCHANGED <<heap, ctl>>
  BY DEF CoCallReturn, Gives, Framed
<1>2. /\ ctl = "run" /\ cur \in Thread /\ ci[cur] \in GoodFrames /\ n \in 1 .. Len(ci[cur])
      /\ HonestFrames(ci[cur])
  BY <1>1, CallerHonest, NowTyped DEF Running
<1>3. /\ Depth \in 1 .. Depth /\ Left(Depth - 1) /\ a \in Activation /\ a = cstack[Depth]
      /\ cstack[Depth].at = n
      /\ \A m \in Depth + 1 .. Depth : cstack[m].how \notin Switch
  BY <1>1, TopActivation
<1>4. a.from \in Thread /\ cur' = a.from
  BY <1>3, LeftFor DEF Activation
<1> HIDE DEF a
<1>5. x \in ThreadTaint /\ (now.stack # NULL => x.stack # NULL)
  BY NowTyped, AfterMoveTyped
<1>6. v \in Value /\ Honest(v) /\ Results(wanted, v) \in Value
  <2>1. Last(ci[a.from]).val \in Value /\ Honest(Last(ci[a.from]).val)
    BY <1>4, TopHonest DEF Typed, Values
  <2>2. Moved(Unpin(now), top.val) \in Value /\ Honest(Moved(Unpin(now), top.val))
    BY PassedOn, PassedHonest, NowTyped, UnpinTyped, MovedHonest
  <2>3. Secure \in Value
    BY SecureTyped
  <2> QED
    BY <2>1, <2>2, <2>3 DEF Results
<1>7. Front(ci[cur]) = SubSeq(ci[cur], 1, n)
  BY DEF Front
<1> HIDE DEF x, v, n
<1>8. /\ Values'
      /\ Len(ci'[cur]) = n /\ Alike(ci[cur], ci'[cur], n)
      /\ \A t \in Thread : t # cur => Len(ci'[t]) = Len(ci[t]) /\ Alike(ci[t], ci'[t], Len(ci[t]))
  <2>1. CASE wanted
    <3>1. Gives(a.from, cur, x, SubSeq(ci[cur], 1, n), v)
      BY <1>1, <1>7, <2>1
    <3> QED
      BY <1>1, <1>2, <1>4, <1>5, <1>6, <3>1, DeliveredKept
  <2>2. CASE ~wanted
    <3> DEFINE q == SubSeq(ci[cur], 1, n)
    <3>1. Framed(cur, q)
      BY <1>1, <1>7, <2>2
    <3>2. q \in GoodFrames /\ Len(q) = n /\ Alike(ci[cur], q, n) /\ HonestFrames(q)
      BY <1>2, CutKept, SecureHonest
    <3> HIDE DEF q
    <3>3. ci'[cur] = q /\ \A t \in Thread : t # cur => ci'[t] = ci[t]
      BY <1>2, <3>1, <3>2, FramedIs
    <3>4. Values'
      BY <1>1, <1>2, <3>2, <3>3, ValuesFramed
    <3> QED
      BY <3>2, <3>3, <3>4 DEF Alike
  <2> QED
    BY <2>1, <2>2
<1>9. ASSUME NEW j \in 0 .. Depth - 1, Carried(j), Unbroken(j, Depth) PROVE ts'[cur'].stack # NULL
  <2>1. Depth \in Nat /\ Depth - 1 \in 0 .. Depth /\ (Depth - 1) + 1 = Depth
    BY <1>3, ControlTyped
  <2>2. \A m \in Depth .. Depth : cstack[m].how \notin Resets
    BY <1>1, <1>3, <2>1 DEF Resets, Barriers, Rethrowers
  <2>3. now.stack # NULL
    BY <1>9, <2>1, <2>2, CarriedNow
  <2> QED
    BY <1>1, <1>2, <1>4, <1>5, <1>6, <2>3, HandOverKept
<1>10. TaintInv'
  BY <1>2, <1>3, <1>8, <1>9, UnwindTaint
<1> QED
  BY <1>8, <1>10
-----------------------------------------------------------------------------
(* Errors.  luaD_throw reaches its catcher with the taint of the thread    *)
(* that raised it, or with what the last rethrower it crossed had saved.   *)
LEMMA CatchTaint ==
  ASSUME Typed, ControlInv, TaintInv, Values, Typed', ctl \in {"run", "rethrow"}, UNCHANGED heap,
         NEW k \in 1 .. Depth, Innermost(k),
         NEW x \in ThreadTaint, NEW err \in Value, Honest(err), Catch(k, x, err),
         \A j \in 0 .. k : Carried(j) /\ Unbroken(j, k + 1) => x.stack # NULL
  PROVE  TaintInv' /\ Values'
<1> DEFINE a == cstack[k]
           caught == TaintStack(Unpin(x), err.taint)
           n == a.at
           base == SubSeq(ci[cur], 1, n)
           v == Moved(Unpin(x), err)
<1>1. /\ cur \in Thread /\ ci[cur] \in GoodFrames /\ HonestFrames(ci[cur]) /\ a \in Activation
      /\ a.saved \in Context /\ a.from \in Thread /\ cstack \in Seq(Activation) /\ Depth \in Nat
      /\ ci \in [Thread -> GoodFrames] /\ Len(ci[cur]) \in Nat
  BY NowTyped, CurIs DEF Typed, Activation, Values
<1>2. \A m \in k + 1 .. Depth : cstack[m].how \notin Switch
  BY DEF Innermost, Depth, Catchers, Switch
<1>3. a.t = cur /\ n \in 1 .. Len(ci[cur])
  <2>1. k \in k .. Depth
    BY <1>1
  <2>2. a.t = cur
    BY <1>2, <2>1, SameThread DEF ControlInv
  <2>3. n < Len(ci[cur]) /\ n >= 1 /\ n \in Nat
    BY <2>2, CurAwake, <1>1 DEF ControlInv, Linking, Activation
  <2> QED
    BY <1>1, <2>2, <2>3
<1>4. /\ caught \in ThreadTaint /\ (x.stack # NULL => caught.stack # NULL)
      /\ LoadTaint(caught, a.saved) \in ThreadTaint /\ LoadTaint(caught, a.saved).stack = a.saved.stack
      /\ v \in Value /\ Honest(v) /\ Labelled(a.saved.stack) \in Value /\ Honest(Labelled(a.saved.stack))
  <2>1. err.taint \in TaintOrNull /\ Unpin(x) \in ThreadTaint /\ a.saved.stack \in TaintOrNull
        /\ Unpin(x).stack = x.stack
    BY <1>1, UnpinTyped DEF Value, Context
  <2>2. caught \in ThreadTaint /\ (x.stack # NULL => caught.stack # NULL)
    BY <2>1, TaintStackTyped
  <2>3. LoadTaint(caught, a.saved) \in ThreadTaint /\ LoadTaint(caught, a.saved).stack = a.saved.stack
    BY <1>1, <2>2, LoadTaintTyped
  <2> QED
    BY <2>1, <2>2, <2>3, MovedHonest, LabelledHonest
<1>5. \A j \in 0 .. k - 1 : a.how \notin Resets /\ Carried(j) /\ Unbroken(j, k) => x.stack # NULL
  <2> SUFFICES ASSUME NEW j \in 0 .. k - 1, a.how \notin Resets, Carried(j), Unbroken(j, k)
               PROVE  x.stack # NULL
    OBVIOUS
  <2>1. Unbroken(j, k + 1)
    <3> SUFFICES ASSUME NEW m \in j + 1 .. (k + 1) - 1 PROVE cstack[m].how \notin Resets
      BY DEF Unbroken
    <3>1. m = k \/ m \in j + 1 .. k - 1
      BY <1>1
    <3> QED
      BY <3>1 DEF Unbroken
  <2>2. j \in 0 .. k
    BY <1>1
  <2> QED
    BY <2>1, <2>2
<1>6. CASE a.how # "resume"
  <2>1. Left(k - 1)
    BY <1>6 DEF Catch, Left
  <2>2. cur' = a.from /\ (a.how \notin Switch => a.from = cur)
    BY <1>1, <1>3, <2>1, LeftFor DEF ControlInv, Linking
  <2>3. CASE a.how \in {"pcall", "secure"}
    <3>1. PICK y \in ThreadTaint : /\ Tainted(cur, y)
                                   /\ a.how = "pcall" => y = caught
                                   /\ a.how = "secure" => y.stack = a.saved.stack
      BY <1>4, <2>3 DEF Catch, Tainted
    <3>2. PICK w \in Value : Honest(w) /\ Framed(cur, WithVal(base, w))
      BY <1>4, <2>3 DEF Catch, Framed
    <3> DEFINE r == WithVal(base, w)
    <3>3. r \in GoodFrames /\ Len(r) = n /\ Alike(ci[cur], r, n) /\ HonestFrames(r)
      BY <1>1, <1>3, <3>2, CutKept
    <3>4. Framed(cur, r)
      BY <3>2
    <3> HIDE DEF r
    <3>5. /\ ts'[cur] = y /\ ci'[cur] = r /\ \A t \in Thread : t # cur => ci'[t] = ci[t]
      BY <1>1, <3>1, <3>3, <3>4, TaintedIs, FramedIs
    <3>6. Values'
      BY <1>1, <3>3, <3>5, ValuesFramed
    <3>7. cur' = cur
      BY <2>2, <2>3 DEF Switch
    <3>8. ASSUME NEW j \in 0 .. k - 1, Carried(j), Unbroken(j, k) PROVE ts'[cur'].stack # NULL
      <4>1. CASE a.how = "pcall"
        <5>1. a.how \notin Resets
          BY <4>1 DEF Resets, Barriers, Rethrowers
        <5> QED
          BY <1>4, <1>5, <3>1, <3>5, <3>7, <3>8, <4>1, <5>1
      <4>2. CASE a.how = "secure"
        <5>1. a.how \in Barriers /\ k \in j + 1 .. Depth
          BY <1>1, <4>2 DEF Barriers
        <5>2. a.saved.stack # NULL
          BY <3>8, <5>1 DEF Carried
        <5> QED
          BY <3>1, <3>5, <3>7, <4>2, <5>2
      <4> QED
        BY <2>3, <4>1, <4>2
    <3>9. /\ Len(ci'[cur]) = cstack[k].at /\ Alike(ci[cur], ci'[cur], cstack[k].at)
          /\ \A t \in Thread : t # cur => Len(ci'[t]) = Len(ci[t]) /\ Alike(ci[t], ci'[t], Len(ci[t]))
      BY <3>3, <3>5 DEF Alike
    <3>10. TaintInv'
      BY <1>2, <2>1, <3>8, <3>9, UnwindTaint
    <3> QED
      BY <3>6, <3>10
  <2>4. CASE a.how = "cocall"
    <3>1. ts' = HandOver(a.from, cur, caught, v) /\ Gives(a.from, cur, caught, base, v)
      BY <2>4 DEF Catch, Gives
    <3>2. /\ Values'
          /\ Len(ci'[cur]) = n /\ Alike(ci[cur], ci'[cur], n)
          /\ \A t \in Thread : t # cur => Len(ci'[t]) = Len(ci[t]) /\ Alike(ci[t], ci'[t], Len(ci[t]))
      BY <1>1, <1>3, <1>4, <3>1, DeliveredKept
    <3>3. a.how \notin Resets
      BY <2>4 DEF Resets, Barriers, Rethrowers
    <3>4. ASSUME NEW j \in 0 .. k - 1, Carried(j), Unbroken(j, k) PROVE ts'[cur'].stack # NULL
      <4>1. caught.stack # NULL
        BY <1>4, <1>5, <3>3, <3>4
      <4> QED
        BY <1>1, <1>4, <2>2, <3>1, <4>1, HandOverKept
    <3>5. TaintInv'
      BY <1>2, <2>1, <3>2, <3>4, UnwindTaint
    <3> QED
      BY <3>2, <3>5
  <2> QED
    BY <1>6, <2>3, <2>4 DEF Catch
<1>7. CASE a.how = "resume"
  <2>1. /\ Tainted(cur, x) /\ Framed(cur, WithVal(ci[cur], err)) /\ Left(k) /\ ctl' = "failed"
    BY <1>7 DEF Catch, Tainted, Framed, Left
  <2> DEFINE r == WithVal(ci[cur], err)
  <2>2. r \in GoodFrames /\ HonestFrames(r) /\ Framed(cur, r)
    BY <1>1, <2>1, RevaluedKept
  <2> HIDE DEF r
  <2>3. /\ ts'[cur] = x /\ ci'[cur] = r /\ \A t \in Thread : t # cur => ci'[t] = ci[t]
    BY <1>1, <2>1, <2>2, TaintedIs, FramedIs
  <2>4. Values'
    BY <1>1, <2>2, <2>3, ValuesFramed
  <2>5. cur' = cur
    <3>1. k \in 0 .. Depth /\ k # 0
      BY <1>1
    <3> QED
      BY <1>1, <1>3, <2>1, <3>1, Unwound
  <2>6. TaintInv'
    BY <1>2, <2>1, <2>3, <2>5, FailedTaint
  <2> QED
    BY <2>4, <2>6
<1> QED
  BY <1>6, <1>7

LEMMA ThrowTaint ==
  ASSUME Typed, ControlInv, TaintInv, Values, Typed', ctl \in {"run", "rethrow"},
         NEW v \in Value, Honest(v), Throw(v)
  PROVE  TaintInv' /\ Values'
<1>1. /\ UNCHANGED heap /\ DOMAIN cstack = 1 .. Depth /\ cstack \in Seq(Activation)
      /\ Depth \in Nat /\ Len(cstack) = Depth
  BY CurIs DEF Throw, Typed, Depth
<1>2. PICK k \in 1 .. Depth :
        /\ Innermost(k)
        /\ \/ /\ \A m \in k + 1 .. Depth : cstack[m].how \notin Rethrowers
              /\ Catch(k, now, v)
           \/ \E r \in k + 1 .. Depth :
                /\ cstack[r].how \in Rethrowers
                /\ \A m \in k + 1 .. Depth : cstack[m].how \in Rethrowers => r <= m
                /\ Catch(k, LoadTaint(now, cstack[r].saved),
                         IF cstack[r].how = "peek" THEN Secure ELSE Labelled(cstack[r].saved.stack))
  BY <1>1 DEF Throw
<1>3. \A m \in k + 1 .. Depth : cstack[m].how \in Resets => cstack[m].how \in Rethrowers
  BY <1>1, <1>2 DEF Innermost, Resets, Barriers, Catchers
<1>4. CASE Catch(k, now, v) /\ \A m \in k + 1 .. Depth : cstack[m].how \notin Rethrowers
  <2>1. \A m \in k + 1 .. Depth : cstack[m].how \notin Resets
    BY <1>3, <1>4
  <2>2. k \in 0 .. Depth
    BY <1>1
  <2>3. \A j \in 0 .. k : Carried(j) /\ Unbroken(j, k + 1) => now.stack # NULL
    BY <2>1, <2>2, CarriedNow
  <2> QED
    BY <1>1, <1>2, <1>4, <2>3, NowTyped, CatchTaint
<1>5. ASSUME NEW r \in k + 1 .. Depth, cstack[r].how \in Rethrowers,
             \A m \in k + 1 .. Depth : cstack[m].how \in Rethrowers => r <= m,
             Catch(k, LoadTaint(now, cstack[r].saved),
                   IF cstack[r].how = "peek" THEN Secure ELSE Labelled(cstack[r].saved.stack))
      PROVE  TaintInv' /\ Values'
  <2> DEFINE x == LoadTaint(now, cstack[r].saved)
             err == IF cstack[r].how = "peek" THEN Secure ELSE Labelled(cstack[r].saved.stack)
  <2>1. r \in 1 .. Depth
    BY <1>1
  <2>2. cstack[r].saved \in Context /\ cstack[r].saved.stack \in TaintOrNull
    BY <1>1, <2>1, CurIs DEF Activation, Context
  <2>3. x \in ThreadTaint /\ x.stack = cstack[r].saved.stack /\ err \in Value /\ Honest(err)
    BY <2>2, NowTyped, LoadTaintTyped, LabelledHonest, SecureHonest
  <2>4. Catch(k, x, err)
    BY <1>5
  <2> HIDE DEF x, err
  <2>5. ASSUME NEW j \in 0 .. k, Carried(j), Unbroken(j, k + 1) PROVE x.stack # NULL
    <3>1. Unbroken(j, r)
      <4> SUFFICES ASSUME NEW m \in j + 1 .. r - 1 PROVE cstack[m].how \notin Resets
        BY DEF Unbroken
      <4>1. CASE m \in j + 1 .. (k + 1) - 1
        BY <2>5, <4>1 DEF Unbroken
      <4>2. CASE m \in k + 1 .. Depth /\ ~(r <= m)
        BY <1>3, <1>5, <4>2
      <4> QED
        BY <1>1, <4>1, <4>2
    <3>2. r \in j + 1 .. Depth /\ cstack[r].how \in Barriers
      BY <1>1, <1>5 DEF Barriers
    <3> QED
      BY <2>3, <2>5, <3>1, <3>2 DEF Carried
  <2> QED
    BY <1>1, <1>2, <2>3, <2>4, <2>5, CatchTaint
<1> QED
  BY <1>2, <1>4, <1>5

LEMMA ErrorTaint ==
  ASSUME Typed, ControlInv, TaintInv, Values, WriteTaintCoherent, Typed', ErrorStep
  PROVE  TaintInv' /\ Values'
<1>1. top.val \in Value /\ Honest(top.val)
  BY NowTyped, PassedHonest
<1>2. CASE LuaError
  <2>1. ctl = "run" /\ Throw(Computed)
    BY <1>2 DEF LuaError, InLua, Running
  <2> QED
    BY <2>1, ComputedHonest, ThrowTaint
<1>3. CASE CError
  BY <1>1, <1>3, ThrowTaint DEF CError, Running
<1>4. CASE Rethrow
  BY <1>1, <1>4, ThrowTaint DEF Rethrow
<1> QED
  BY <1>2, <1>3, <1>4 DEF ErrorStep
-----------------------------------------------------------------------------
(* Coroutines.                                                             *)
LEMMA CoReturnTaint ==
  ASSUME Typed, ControlInv, TaintInv, Values, Typed', NEW wanted \in BOOLEAN, CoReturn(wanted)
  PROVE  TaintInv' /\ Values'
<1> DEFINE s == ci[cur]
           caller == Last(Front(s))
           x == AfterMove(wanted)
           e == ReceivedBy(caller, wanted)
           r == WithTop(Front(s), e)
<1>1. /\ Running({"lua", "c"}) /\ AtActivation /\ cstack # <<>> /\ Last(cstack).how = "resume"
      /\ Tainted(cur, x) /\ Framed(cur, r) /\ UNCHANGED <<cstack, heap>> /\ ctl = "run"
  BY DEF CoReturn, Running, AtActivation, Tainted, Framed
<1>2. /\ Depth \in 1 .. Depth /\ Last(cstack) = cstack[Depth]
  <2>1. cstack \in Seq(Activation) /\ Depth > 0
    BY <1>1 DEF Typed, Depth
  <2> QED
    BY <2>1, CurIs
<1>3. Len(s) - 1 = 1
  <2>1. cstack[Depth].how = "resume" /\ Depth \in 1 .. Depth
    BY <1>1, <1>2
  <2>2. cstack[Depth].at = 1
    BY <2>1 DEF ControlInv, Linking
  <2> QED
    BY <1>1, <1>2, <2>2 DEF AtActivation
<1>4. /\ caller \in Frame /\ (caller.kind = "lua" => caller.fn \in Closure)
      /\ (caller.kind # "lua" => caller.ent = NULL) /\ cur \in Thread
      /\ Honest(caller.val) /\ HonestFrames(s) /\ s \in GoodFrames /\ Last(s).kind # "base"
      /\ Front(s) \in GoodFrames
  BY <1>1, CallerIs, CallerHonest, NowTyped
<1>5. e \in Frame /\ e.kind = caller.kind /\ e.fn = caller.fn /\ e.ent = caller.ent /\ Honest(e.val)
  BY <1>4, ReceivedTyped, ReceivedHonest
<1>6. x \in ThreadTaint /\ (now.stack # NULL => x.stack # NULL)
  BY NowTyped, AfterMoveTyped
<1> HIDE DEF x, e
<1>7. r \in GoodFrames /\ Len(r) = Len(s) - 1 /\ HonestFrames(r)
  <2>1. r \in GoodFrames
    BY <1>4, <1>5, ReplacedTop
  <2> QED
    BY <1>4, <1>5, <2>1, ReturnedKept
<1> HIDE DEF r, caller
<1>8. /\ ts'[cur] = x /\ ci'[cur] = r /\ \A u \in Thread : u # cur => ci'[u] = ci[u]
  BY <1>1, <1>4, <1>6, <1>7, TaintedIs, FramedIs
<1>9. Values'
  BY <1>1, <1>4, <1>7, <1>8, ValuesFramed
<1>10. r[1].ent = NULL /\ Len(r) = 1
  <2>1. GoodFrame(r, 1)
    BY <1>3, <1>7 DEF GoodFrames
  <2> QED
    BY <1>3, <1>7, <2>1 DEF GoodFrame
<1>11. \A t \in Thread : Resembles(ci[t], ci'[t])
  BY <1>8, <1>10 DEF Resembles, Alike
<1>12. TaintInv'
  BY <1>1, <1>6, <1>8, <1>11, QuietTaint
<1> QED
  BY <1>9, <1>12

LEMMA ResumeFreshTaint ==
  ASSUME Typed, ControlInv, TaintInv, Values, Typed', NEW co \in Thread, ResumeFresh(co)
  PROVE  TaintInv' /\ Values'
<1> DEFINE v == Moved(ts[co], top.val)
           x == TaintThread(ts[co], now)
           f == ci[co][1].fn
<1>1. /\ ctl = "run" /\ st[co] = "fresh" /\ Precall(co, x, f, v) /\ UNCHANGED heap
      /\ Enters([how |-> "resume", t |-> co, from |-> cur, at |-> Len(ci[co]),
                 saved |-> SavedBy("resume"), fix |-> NULL])
  BY DEF ResumeFresh, Running, ActivateOn, Enters
<1>2. /\ v \in Value /\ Honest(v) /\ x \in ThreadTaint /\ x.stack = now.stack
  BY NowTyped, MovedHonest, PassedHonest, TaintThreadTyped DEF Typed
<1>3. f \in Callee
  BY <1>1 DEF ControlInv, Statuses, Callee
<1>4. "resume" \in How /\ NULL \in TaintOrNull
  BY DEF How, Catchers, TaintOrNull
<1> HIDE DEF v, x, f
<1> QED
  BY <1>1, <1>2, <1>3, <1>4, ActivateTaint

LEMMA CoCallTaint ==
  ASSUME Typed, ControlInv, TaintInv, Values, Typed', NEW to \in Thread, NEW f \in Callee, CoCall(to, f)
  PROVE  TaintInv' /\ Values'
<1> DEFINE z == TaintThread(ts[to], now)
           x == IF to = cur THEN now ELSE TaintStack(z, top.val.taint)
           v == Moved(z, top.val)
<1>1. /\ ctl = "run" /\ Precall(to, x, f, v) /\ UNCHANGED heap
      /\ Enters([how |-> "cocall", t |-> to, from |-> cur, at |-> Len(ci[to]),
                 saved |-> SavedBy("cocall"), fix |-> NULL])
  BY DEF CoCall, Running, ActivateOn, Enters
<1>2. z \in ThreadTaint /\ z.stack = now.stack /\ now \in ThreadTaint
  BY NowTyped, TaintThreadTyped DEF Typed
<1> HIDE DEF z
<1>3. /\ v \in Value /\ Honest(v) /\ x \in ThreadTaint /\ (now.stack # NULL => x.stack # NULL)
  BY <1>2, PassedOn, NowTyped, MovedHonest, PassedHonest, TaintStackTyped
<1>4. "cocall" \in How /\ NULL \in TaintOrNull
  BY DEF How, Catchers, TaintOrNull
<1> HIDE DEF v, x
<1> QED
  BY <1>1, <1>3, <1>4, ActivateTaint

LEMMA CoCreateTaint ==
  ASSUME Typed, ControlInv, TaintInv, Values, Typed', NEW co \in Thread, NEW f \in Closure, CoCreate(co, f)
  PROVE  TaintInv' /\ Values'
<1> DEFINE x == TaintStack(TaintThread(PreinitTaint, now), top.val.taint)
           b == BaseFrame(f)
<1>1. /\ ctl = "run" /\ st[co] \in {"none", "dead"} /\ ts' = [ts EXCEPT ![co] = x]
      /\ ci' = [ci EXCEPT ![co] = <<b>>] /\ UNCHANGED <<cstack, heap>>
  BY DEF CoCreate, Running
<1>2. co # cur
  BY <1>1, CurAwake
<1> HIDE DEF x
<1>3. ts'[cur] = ts[cur] /\ ts[cur] = now
  BY <1>1, <1>2, NowTyped DEF Typed
<1>4. b.ent = NULL /\ Honest(b.val)
  BY SecureHonest DEF BaseFrame
<1> HIDE DEF b
<1>5. /\ ci'[co] = <<b>> /\ \A u \in Thread : u # co => ci'[u] = ci[u]
  BY <1>1 DEF Typed
<1>6. Len(<<b>>) = 1 /\ <<b>>[1] = b
  OBVIOUS
<1>7. HonestFrames(ci'[co]) /\ \A i \in 1 .. Len(ci'[co]) : ci'[co][i].ent = NULL
  BY <1>4, <1>5, <1>6 DEF HonestFrames
<1>8. \A t \in Thread : Resembles(ci[t], ci'[t])
  BY <1>5, <1>7 DEF Resembles, Alike
<1>9. TaintInv'
  BY <1>1, <1>3, <1>8, QuietTaint
<1>10. \A u \in Thread : HonestFrames(ci'[u])
  BY <1>5, <1>7 DEF Values
<1>11. Values'
  BY <1>1, <1>10 DEF Values, HonestFrames
<1> QED
  BY <1>9, <1>11

LEMMA YieldTaint ==
  ASSUME Typed, ControlInv, TaintInv, Values, Typed', Yield
  PROVE  TaintInv' /\ Values'
<1>1. ctl = "run" /\ UNCHANGED <<ts, ci, cstack, heap>>
  BY DEF Yield, Running
<1> QED
  BY <1>1, NowTyped, PassedHonest, MovesTaint
LEMMA ResumeYieldedTaint ==
  ASSUME Typed, ControlInv, TaintInv, Values, Typed',
         NEW co \in Thread, NEW given \in BOOLEAN, ResumeYielded(co, given)
  PROVE  TaintInv' /\ Values'
<1> DEFINE s == ci[co]
           x == TaintThread(ts[co], now)
           v == IF given THEN Moved(ts[co], top.val) ELSE Labelled(x.write)
           caller == Last(Front(s))
           z == TaintStack(Unpin(x), v.taint)
           y == Reenter(z, clo[caller.fn])
           w == Moved(x, v)
           e == [caller EXCEPT !.val = w, !.ent = Entry(x, caller.fn)]
           r == WithTop(Front(s), e)
           a == [how |-> "resume", t |-> co, from |-> cur, at |-> 1,
                 saved |-> SavedBy("resume"), fix |-> NULL]
<1>1. /\ ctl = "run" /\ st[co] = "yield" /\ Tainted(co, y) /\ Framed(co, r) /\ Enters(a)
      /\ UNCHANGED heap
  BY DEF ResumeYielded, Running, Tainted, Framed, Enters
<1>2. /\ s \in GoodFrames /\ HonestFrames(s) /\ now \in ThreadTaint /\ ts[co] \in ThreadTaint
      /\ top.val \in Value /\ Honest(top.val) /\ cur \in Thread
  BY NowTyped, PassedHonest DEF Typed, Values
<1>3. Last(s).kind = "c" /\ Len(s) >= 2 /\ Len(s) \in Nat /\ s[Len(s)].kind = "c"
  <2>1. Last(s).kind = "c"
    BY <1>1, <1>2, TopOf DEF ControlInv, Suspended
  <2> QED
    BY <1>2, <2>1, TopOf, PoppedFrames
<1>4. Front(s) \in GoodFrames /\ caller = s[Len(s) - 1]
  BY <1>2, <1>3, PoppedFrames
<1>5. s[Len(s) - 1].kind = "lua"
  <2>1. Len(s) \in 2 .. Len(ci[co])
    BY <1>3
  <2> QED
    BY <1>1, <1>3, <2>1 DEF ControlInv, Callers
<1>6. caller \in Frame /\ caller.fn \in Closure /\ clo[caller.fn] \in TaintOrNull /\ caller.kind = "lua"
  BY <1>4, <1>5, TopOf DEF Typed
<1>7. /\ x \in ThreadTaint /\ x.stack = now.stack
  BY <1>2, TaintThreadTyped
<1>8. v \in Value /\ Honest(v)
  <2>1. x.write \in TaintOrNull
    BY <1>7 DEF ThreadTaint
  <2> HIDE DEF x
  <2> QED
    BY <1>2, <2>1, MovedHonest, LabelledHonest
<1> HIDE DEF x, v
<1>9. /\ w \in Value /\ Honest(w) /\ v.taint \in TaintOrNull
  BY <1>7, <1>8, MovedHonest, MovedTyped
<1>10. Entry(x, caller.fn) = IF x.rd THEN clo[caller.fn] ELSE NULL
  BY <1>6, ClosureAssumption DEF Entry
<1>11. z \in ThreadTaint /\ z.rd = x.rd /\ (x.stack # NULL => z.stack # NULL)
  <2>1. Unpin(x) \in ThreadTaint /\ Unpin(x).rd = x.rd /\ Unpin(x).stack = x.stack
    BY <1>7, UnpinTyped
  <2> QED
    BY <1>9, <2>1, TaintStackTyped
<1> HIDE DEF z
<1>12. /\ y \in ThreadTaint /\ (z.stack # NULL => y.stack # NULL)
       /\ clo[caller.fn] # NULL /\ z.rd => y.stack = clo[caller.fn]
  BY <1>6, <1>11, ReenterTyped
<1>13. /\ e \in Frame /\ e.kind = "lua" /\ e.fn = caller.fn /\ Honest(e.val)
       /\ e.ent = IF x.rd THEN clo[caller.fn] ELSE NULL
  <2> DEFINE en == Entry(x, caller.fn)
             taint == clo[caller.fn]
  <2>1. en \in TaintOrNull /\ en = IF x.rd THEN taint ELSE NULL
    BY <1>6, <1>10, SecureTyped
  <2>2. e = [caller EXCEPT !.val = w, !.ent = en]
    OBVIOUS
  <2> HIDE DEF caller, w, en, e, taint
  <2>3. e \in Frame /\ e.kind = "lua" /\ e.fn = caller.fn /\ e.val = w /\ e.ent = en
    BY <1>6, <1>9, <2>1, <2>2 DEF Frame
  <2> QED
    BY <1>9, <2>1, <2>3 DEF taint
<1> HIDE DEF y, e, w
<1>14. r \in GoodFrames
  BY <1>4, <1>6, <1>13, ReplacedTop
<1>15. /\ Len(r) = Len(s) - 1 /\ r[Len(s) - 1] = e /\ HonestFrames(r)
  <2>1. Last(s).kind # "base" /\ e.kind = caller.kind /\ e.fn \in Closure
    BY <1>3, <1>6, <1>13
  <2> QED
    BY <1>2, <1>13, <2>1, ReturnedKept
<1>16. /\ a \in Activation /\ a.t = co /\ a.at = 1 /\ a.how = "resume" /\ a.saved = SavedBy(a.how)
  BY <1>2, SavedByTyped, SecureTyped DEF Activation, How, Catchers
<1> HIDE DEF r, a
<1>17. /\ ts'[co] = y /\ ci'[co] = r /\ \A u \in Thread : u # co => ci'[u] = ci[u]
  BY <1>1, <1>12, <1>14, TaintedIs, FramedIs
<1>18. Values'
  BY <1>1, <1>14, <1>15, <1>17, ValuesFramed
<1>19. ci'[co][Len(ci'[co])] = e
  BY <1>15, <1>17
<1>20. e.ent # NULL => y.stack # NULL
  BY <1>11, <1>12, <1>13
<1>21. now.stack # NULL => y.stack # NULL
  BY <1>7, <1>11, <1>12
<1>22. TaintInv'
  BY <1>1, <1>13, <1>16, <1>17, <1>19, <1>20, <1>21, ContinueTaint
<1> QED
  BY <1>18, <1>22

LEMMA FinishResumeTaint ==
  ASSUME Typed, ControlInv, TaintInv, Values, Typed', FinishResume
  PROVE  TaintInv' /\ Values'
<1> DEFINE a == Last(cstack)
           v == IF ctl = "failed" THEN Moved(Unpin(now), top.val) ELSE top.val
           z == TaintThread(ts[a.from], now)
           x == TaintStack(z, v.taint)
           y == IF ctl = "failed" THEN TaintStack(Unpin(now), top.val.taint) ELSE now
           w == Moved(z, v)
           r == WithVal(ci[a.from], w)
<1>1. /\ ctl \in {"returned", "yielded", "failed"}
      /\ ts' = [ts EXCEPT ![a.from] = x, ![cur] = y]
      /\ Framed(a.from, r) /\ cstack' = Front(cstack) /\ UNCHANGED heap
  BY DEF FinishResume, Framed
<1>2. /\ Depth > 0 /\ cstack \in Seq(Activation) /\ a = cstack[Depth] /\ a.how = "resume"
      /\ Depth \in 1 .. Depth /\ cstack # <<>> /\ Depth \in Nat
  <2>1. Depth > 0 /\ cstack \in Seq(Activation) /\ cstack[Depth].how = "resume"
    BY <1>1 DEF ControlInv, Statuses, Typed
  <2> QED
    BY <2>1, CurIs DEF Depth
<1>3. a \in Activation /\ a.from \in Thread /\ Left(Depth - 1)
  BY <1>1, <1>2, CurIs, LeftFront DEF Activation
<1>4. a.from # cur /\ cur' = a.from
  BY <1>2, <1>3, SoleActivation, LeftFor
<1> HIDE DEF a
<1>5. /\ now \in ThreadTaint /\ top.val \in Value /\ Honest(top.val) /\ cur \in Thread
      /\ ts[a.from] \in ThreadTaint /\ ci[a.from] \in GoodFrames /\ ts \in [Thread -> ThreadTaint]
      /\ HonestFrames(ci[a.from]) /\ Unpin(now) \in ThreadTaint
  BY <1>3, NowTyped, PassedHonest, UnpinTyped DEF Typed, Values
<1>6. v \in Value /\ Honest(v) /\ v.taint \in TaintOrNull
  BY <1>5, MovedHonest, MovedTyped
<1>7. z \in ThreadTaint /\ z.stack = now.stack
  BY <1>5, TaintThreadTyped
<1> HIDE DEF v, z
<1>8. x \in ThreadTaint /\ (now.stack # NULL => x.stack # NULL) /\ w \in Value /\ Honest(w)
  BY <1>6, <1>7, TaintStackTyped, MovedHonest
<1> HIDE DEF x, y, w
<1>9. /\ r \in GoodFrames /\ Len(r) = Len(ci[a.from]) /\ Alike(ci[a.from], r, Len(ci[a.from]))
      /\ HonestFrames(r)
  BY <1>5, <1>8, RevaluedKept
<1> HIDE DEF r
<1>10. /\ ts'[a.from] = x /\ ci'[a.from] = r /\ \A u \in Thread : u # a.from => ci'[u] = ci[u]
  BY <1>1, <1>3, <1>4, <1>5, <1>9, FramedIs
<1>11. Values'
  BY <1>1, <1>3, <1>9, <1>10, ValuesFramed
<1>12. \A t \in Thread : t # cur => Len(ci'[t]) = Len(ci[t]) /\ Alike(ci[t], ci'[t], Len(ci[t]))
  BY <1>9, <1>10 DEF Alike
<1>13. ASSUME NEW j \in 0 .. Depth - 1, Carried(j), Unbroken(j, Depth) PROVE ts'[cur'].stack # NULL
  <2>1. Depth - 1 \in 0 .. Depth /\ (Depth - 1) + 1 = Depth
    BY <1>2
  <2>2. \A m \in Depth .. Depth : cstack[m].how \notin Resets
    BY <1>2 DEF Resets, Barriers, Rethrowers
  <2>3. now.stack # NULL
    BY <1>13, <2>1, <2>2, CarriedNow
  <2> QED
    BY <1>4, <1>8, <1>10, <2>3
<1>14. TaintInv'
  BY <1>2, <1>3, <1>12, <1>13, FinishTaint
<1> QED
  BY <1>11, <1>14

LEMMA CoroutineTaint ==
  ASSUME Typed, ControlInv, TaintInv, Values, Typed', CoroutineStep
  PROVE  TaintInv' /\ Values'
  BY ResumeFreshTaint, ResumeYieldedTaint, CoCreateTaint, CoCallTaint, YieldTaint, FinishResumeTaint
     DEF CoroutineStep

LEMMA ReturnTaint ==
  ASSUME Typed, ControlInv, TaintInv, Values, Typed', ControlInv', ReturnStep
  PROVE  TaintInv' /\ Values'
  BY ReturnToLuaTaint, ReturnToCTaint, CoReturnTaint, CoCallReturnTaint DEF ReturnStep
-----------------------------------------------------------------------------
(* The taint API.                                                          *)
LEMMA ApiTaint ==
  ASSUME Typed, ControlInv, TaintInv, Values, Typed', NEW t \in Thread, NEW x \in ThreadTaint, Api(t, x),
         t = cur /\ now.stack # NULL => x.stack # NULL
  PROVE  TaintInv' /\ Values'
<1>1. /\ ctl = "run" /\ ts' = [ts EXCEPT ![t] = x] /\ UNCHANGED <<ci, cstack, heap>>
  BY DEF Api, Running
<1>2. now.stack # NULL => ts'[cur].stack # NULL
  BY <1>1, NowTyped DEF Typed
<1> QED
  BY <1>1, <1>2, PassedHonest, MovesTaint

(* What is left of the debug library without its setters of taint: what    *)
(* new objects get, and the taint mode.                                    *)
LEMMA ExplicitTaint ==
  ASSUME Typed, ControlInv, TaintInv, Values, Typed', "settaint" \notin Lib, ExplicitStep
  PROVE  TaintInv' /\ Values'
<1>0. now \in ThreadTaint /\ cur \in Thread /\ now = ts[cur]
  BY NowTyped
<1>1. ASSUME NEW t \in Thread, NEW taint \in TaintOrNull,
             ApiSetNewGCTaint(t, taint) \/ ApiSetNewClosureTaint(t, taint)
      PROVE  TaintInv' /\ Values'
  <2>1. ts[t] \in ThreadTaint
    BY DEF Typed
  <2>2. /\ [ts[t] EXCEPT !.newgc = taint] \in ThreadTaint
        /\ [ts[t] EXCEPT !.newcl = taint] \in ThreadTaint
        /\ [ts[t] EXCEPT !.newgc = taint].stack = ts[t].stack
        /\ [ts[t] EXCEPT !.newcl = taint].stack = ts[t].stack
    BY <2>1, FieldTyped DEF ThreadTaint
  <2> QED
    BY <1>0, <1>1, <2>2, ApiTaint DEF ApiSetNewGCTaint, ApiSetNewClosureTaint
<1>2. ASSUME NEW rd \in BOOLEAN, NEW wr \in BOOLEAN, ApiSetTaintMode(rd, wr)
      PROVE  TaintInv' /\ Values'
  <2>1. SetTaintMode(now, rd, wr) \in ThreadTaint /\ SetTaintMode(now, rd, wr).stack = now.stack
    BY <1>0, SetTaintModeTyped
  <2> QED
    BY <1>0, <1>2, <2>1, ApiTaint DEF ApiSetTaintMode
<1> QED
  BY <1>1, <1>2
     DEF ExplicitStep, ApiSetStackTaint, ApiSetValueTaint, ApiSetObjectTaint, ApiClearTaint, ApiResetTaint

LEMMA EnvironmentTaint ==
  ASSUME Typed, ControlInv, TaintInv, Values, Typed', EnvironmentStep
  PROVE  TaintInv' /\ Values'
<1>0. now \in ThreadTaint /\ cur \in Thread /\ now = ts[cur]
  BY NowTyped
<1>1. ASSUME NEW taint \in Taint, ForceInsecure(taint) \/ LoadString(taint)
      PROVE  TaintInv' /\ Values'
  <2>1. taint \in TaintOrNull /\ taint # NULL
    BY NullAssumption DEF TaintOrNull
  <2>2. SetStackTaint(now, taint) \in ThreadTaint /\ SetStackTaint(now, taint).stack = taint
    BY <1>0, <2>1, SetStackTaintTyped
  <2> QED
    BY <1>0, <1>1, <2>1, <2>2, ApiTaint DEF ForceInsecure, LoadString
<1>2. ASSUME NEW f \in Closure, GetFenv(f) PROVE TaintInv' /\ Values'
  <2>1. /\ TaintStack(now, clo[f]) \in ThreadTaint
        /\ now.stack # NULL => TaintStack(now, clo[f]).stack # NULL
    BY <1>0, TaintStackTyped DEF Typed
  <2> QED
    BY <1>0, <1>2, <2>1, ApiTaint DEF GetFenv
<1>3. ASSUME NEW f \in Closure, SetFenv(f) PROVE TaintInv' /\ Values'
  <2>1. ctl = "run" /\ UNCHANGED <<ts, ci, cstack, heap>>
    BY <1>3 DEF SetFenv, Running
  <2> QED
    BY <1>0, <2>1, PassedHonest, MovesTaint
<1> QED
  BY <1>1, <1>2, <1>3 DEF EnvironmentStep

-----------------------------------------------------------------------------
(* Part 25: the theorem.                                                   *)
LEMMA StepTaint ==
  ASSUME "settaint" \notin Lib, Typed, ControlInv, TaintInv, Values, WriteTaintCoherent, [Next]_vars
  PROVE  TaintInv' /\ Values'
<1>0. Typed' /\ ControlInv'
  BY StepControl
<1>1. CASE UNCHANGED vars
  <2>1. TaintInv'
    <3>1. Depth' = Depth /\ cur' = cur /\ now' = now /\ UNCHANGED <<ci, cstack, ctl>>
      BY <1>1 DEF vars, Depth, cur, now
    <3>2. \A t, i : Direct(t, i)' <=> Direct(t, i)
      BY <3>1 DEF Direct, Resting, Active
    <3>3. \A t, i, j : Segment(t, i, j)' <=> Segment(t, i, j)
      BY <3>1 DEF Segment, Runs, From
    <3>4. \A j, k : Unbroken(j, k)' <=> Unbroken(j, k)
      BY <3>1 DEF Unbroken
    <3>5. \A j : Carried(j) => Carried(j)'
      BY <3>1, <3>4 DEF Carried
    <3> QED
      BY <3>1, <3>2, <3>3, <3>5 DEF TaintInv, Told
  <2>2. Values'
    BY <1>1 DEF vars, Values, HonestFrames
  <2> QED
    BY <2>1, <2>2
<1>2. CASE Next
  BY <1>0, <1>2, MoveTaint, CallTaint, ReturnTaint, ErrorTaint, CoroutineTaint, ExplicitTaint,
     EnvironmentTaint DEF Next
<1> QED
  BY <1>1, <1>2

LEMMA InitTaint == Init => TaintInv /\ Values
<1> SUFFICES ASSUME Init PROVE TaintInv /\ Values
  OBVIOUS
<1> DEFINE b == BaseFrame(NULL)
           q == <<b>>
<1>1. b.ent = NULL /\ Honest(b.val)
  BY SecureHonest DEF BaseFrame
<1>2. ci = [t \in Thread |-> q]
  BY DEF Init
<1> HIDE DEF b
<1>3. Len(q) = 1 /\ q[1] = b
  OBVIOUS
<1> HIDE DEF q
<1>4. \A t \in Thread : \A i \in 1 .. Len(ci[t]) : ci[t][i].ent = NULL /\ Honest(ci[t][i].val)
  <2> SUFFICES ASSUME NEW t \in Thread, NEW i \in 1 .. Len(ci[t])
               PROVE  ci[t][i].ent = NULL /\ Honest(ci[t][i].val)
    OBVIOUS
  <2>1. ci[t] = q /\ i = 1
    BY <1>2, <1>3
  <2> QED
    BY <1>1, <1>3, <2>1
<1>5. TaintInv
  BY <1>4 DEF TaintInv, Told, Direct
<1>6. Values
  <2>1. \A c \in Cell : Honest(heap[c])
    BY SecureHonest DEF Init
  <2> QED
    BY <1>4, <2>1 DEF Values, HonestFrames
<1> QED
  BY <1>5, <1>6

(* A frame that luaV_execute has entered with a tainted closure, and that  *)
(* has called nothing but C functions since, runs tainted: the stack taint *)
(* is set, and so is the taint state of every barrier called from it.      *)
THEOREM TaintIsKept == "settaint" \notin Lib => (Spec => [](TaintInv /\ Values))
<1> SUFFICES ASSUME "settaint" \notin Lib PROVE Spec => [](TaintInv /\ Values)
  OBVIOUS
<1>1. Typed /\ ControlInv /\ WriteTaintCoherent /\ TaintInv /\ Values /\ [Next]_vars => (TaintInv /\ Values)'
  BY StepTaint
<1> QED
  BY <1>1, InitTaint, StacksAreTyped, WriteTaintIsCoherent, PTL DEF Spec

LEMMA ValuesTainted == Typed /\ Values => ComputedByTaintedStaysTainted
<1> SUFFICES ASSUME Typed, Values PROVE ComputedByTaintedStaysTainted
  OBVIOUS
<1>1. \A c \in Cell : heap[c].by # NULL => heap[c].taint # NULL
  BY DEF Values, Honest
<1>2. ASSUME NEW t \in Thread, NEW i \in DOMAIN ci[t], ci[t][i].val.by # NULL
      PROVE  ci[t][i].val.taint # NULL
  <2>1. i \in 1 .. Len(ci[t])
    BY DEF Typed, GoodFrames
  <2> QED
    BY <1>2, <2>1 DEF Values, HonestFrames, Honest
<1> QED
  BY <1>1, <1>2 DEF ComputedByTaintedStaysTainted

(* A value computed by a tainted Lua closure whose reads and writes are    *)
(* tracked stays tainted, in every register and cell it reaches, through   *)
(* every luaD_precall, luaD_poscall, luaD_throw, lua_resume, barrier, hook *)
(* and finalizer, if the debug library's setters of taint are not there.   *)
THEOREM TaintIsNotLost == "settaint" \notin Lib => (Spec => []ComputedByTaintedStaysTainted)
<1> SUFFICES ASSUME "settaint" \notin Lib PROVE Spec => []ComputedByTaintedStaysTainted
  OBVIOUS
<1>1. Typed /\ ControlInv /\ TaintInv /\ Values => ComputedByTaintedStaysTainted
  BY ValuesTainted
<1> QED
  BY <1>1, StacksAreTyped, TaintIsKept, PTL
=============================================================================
