-------------------------- MODULE Profiling_proofs --------------------------
(***************************************************************************)
(* Theorems about Profiling, for any Lua functions, any number of calls    *)
(* and frames and a clock that runs as long as one likes.                  *)
(***************************************************************************)
EXTENDS Profiling, FiniteSetTheorems, WellFoundedInduction, TLAPS

(* What the theorems assume of the constants.                              *)
Parameters ==
    /\ main # co
    /\ {pcall, resume, yield} \cap LuaFn = {}
    /\ MaxClock \in Nat \ {0}

-----------------------------------------------------------------------------
(* Part 1: the invariant.                                                  *)
Frame == [fn : Closure, direct : BOOLEAN, entryticks : Nat, startticks : Nat]
Stat == [on : BOOLEAN, calls : Nat, ownticks : Nat, subticks : Nat]

(* What Now returns.                                                       *)
Profile == [stack : Seq(Frame), stats : [Closure -> Stat], open : [Closure -> Nat],
            made : Nat, on : BOOLEAN, nested : BOOLEAN]

Of(s, fn) == {n \in DOMAIN s : s[n].fn = fn}

Plain(s) == \A n \in DOMAIN s : ~ s[n].direct

(* The ticks of the functions' own times, each told apart by its function. *)
TicksOf(st) == UNION {{fn} \X (1 .. st[fn].ownticks) : fn \in LuaFn}

(* Every frame of the two threads is counted as open.  Those of a thread   *)
(* that was freed remain counted.                                          *)
Opened(s, r, open) ==
    \A fn \in Closure : Cardinality(Of(s, fn)) + Cardinality(Of(r, fn)) <= open[fn]

(* Nothing of what a frame has not committed yet is in its closure's       *)
(* subticks.                                                               *)
Entered(s, st, now) ==
    \A n \in DOMAIN s :
      /\ s[n].entryticks <= now /\ s[n].startticks <= now
      /\ s[n].entryticks # 0 => st[s[n].fn].subticks < s[n].entryticks

(* Own times are disjoint as long as no call is direct.                    *)
Spent(st, some, now) ==
    /\ \A fn \in Closure : st[fn].subticks < now /\ (st[fn].on => fn \in LuaFn)
    /\ IsFiniteSet(TicksOf(st)) /\ (~ some => Cardinality(TicksOf(st)) < now)

(* One thread's profile, the stack of the other one.                       *)
Accounts(p, r, now) ==
    /\ p \in Profile /\ r \in Seq(Frame) /\ now \in Nat
    /\ Opened(p.stack, r, p.open)
    /\ Entered(p.stack, p.stats, now) /\ Entered(r, p.stats, now)
    /\ Spent(p.stats, p.nested, now)
    /\ ~ p.nested => Plain(p.stack) /\ Plain(r)

(* What the running function has not committed comes after all that was.   *)
Uncommitted(p) ==
    Profiled(p) /\ p.stack[Len(p.stack)].entryticks # 0 /\ ~ p.nested =>
      Cardinality(TicksOf(p.stats)) < p.stack[Len(p.stack)].startticks

Other(t) == IF t = main THEN co ELSE main

Typed ==
    /\ clock \in 1 .. MaxClock /\ enabled \in BOOLEAN /\ nested \in BOOLEAN /\ running \in Threads
    /\ stats \in [Closure -> Stat] /\ nopencalls \in [Closure -> Nat]
    /\ frames \in [Threads -> Seq(Frame)] /\ made \in Nat

(* A coroutine runs under a call of resume.                                *)
Resuming ==
    running = co => frames[main] # <<>> /\ frames[main][Len(frames[main])].fn = resume

Inv ==
    /\ Typed /\ Resuming
    /\ Accounts(Now(running), frames[Other(running)], clock)
    /\ Uncommitted(Now(running))

-----------------------------------------------------------------------------
(* Part 2: frames of a closure.                                            *)

LEMMA FrameOf ==
  ASSUME NEW s \in Seq(Frame), NEW n \in DOMAIN s
  PROVE  /\ s[n] \in Frame /\ s[n].fn \in Closure /\ s[n].direct \in BOOLEAN
         /\ s[n].entryticks \in Nat /\ s[n].startticks \in Nat
<1>1. s[n] \in Frame
  OBVIOUS
<1> QED
  BY <1>1 DEF Frame

LEMMA TopOf ==
  ASSUME NEW s \in Seq(Frame), s # <<>>
  PROVE  /\ Len(s) \in DOMAIN s /\ Len(s) \in Nat \ {0} /\ DOMAIN s = 1 .. Len(s)
         /\ Last(s) = s[Len(s)]
BY DEF Last

LEMMA ProfileOf ==
  ASSUME NEW p \in Profile
  PROVE  /\ p.stack \in Seq(Frame) /\ p.stats \in [Closure -> Stat] /\ p.open \in [Closure -> Nat]
         /\ p.made \in Nat /\ p.on \in BOOLEAN /\ p.nested \in BOOLEAN
         /\ p = [stack |-> p.stack, stats |-> p.stats, open |-> p.open, made |-> p.made, on |-> p.on,
                  nested |-> p.nested]
BY DEF Profile

LEMMA StatOf ==
  ASSUME NEW st \in [Closure -> Stat], NEW fn \in Closure
  PROVE  /\ st[fn] \in Stat /\ st[fn].on \in BOOLEAN /\ st[fn].calls \in Nat
         /\ st[fn].ownticks \in Nat /\ st[fn].subticks \in Nat
<1>1. st[fn] \in Stat
  OBVIOUS
<1> QED
  BY <1>1 DEF Stat

LEMMA OfIsFinite ==
  ASSUME NEW s \in Seq(Frame), NEW fn
  PROVE  IsFiniteSet(Of(s, fn)) /\ Cardinality(Of(s, fn)) \in Nat
<1>1. DOMAIN s = 1 .. Len(s) /\ Len(s) \in Nat
  OBVIOUS
<1>2. IsFiniteSet(1 .. Len(s))
  BY <1>1, FS_Interval
<1>3. IsFiniteSet(Of(s, fn))
  BY <1>1, <1>2, FS_Subset DEF Of
<1> QED
  BY <1>3, FS_CardinalityType

(* The same closures, frame by frame.                                      *)
LEMMA OfSame ==
  ASSUME NEW s, NEW r, DOMAIN r = DOMAIN s, \A n \in DOMAIN s : r[n].fn = s[n].fn, NEW fn
  PROVE  Of(r, fn) = Of(s, fn)
BY DEF Of

LEMMA OfAppend ==
  ASSUME NEW s \in Seq(Frame), NEW c \in Frame, NEW fn
  PROVE  Cardinality(Of(Append(s, c), fn)) = Cardinality(Of(s, fn)) + (IF c.fn = fn THEN 1 ELSE 0)
<1> DEFINE r == Append(s, c)
           k == Len(s)
<1>1. /\ DOMAIN s = 1 .. k /\ DOMAIN r = 1 .. k + 1 /\ k \in Nat
      /\ \A n \in 1 .. k : r[n] = s[n]
      /\ r[k + 1] = c
  OBVIOUS
<1>2. IsFiniteSet(Of(s, fn)) /\ Cardinality(Of(s, fn)) \in Nat
  BY OfIsFinite
<1> HIDE DEF r, k
<1>3. k + 1 \notin 1 .. k /\ \A n \in 1 .. k + 1 : n \in 1 .. k \/ n = k + 1
  BY <1>1
<1>4. CASE c.fn = fn
  <2>1. Of(r, fn) = Of(s, fn) \cup {k + 1} /\ k + 1 \notin Of(s, fn)
    BY <1>1, <1>3, <1>4 DEF Of
  <2>2. Cardinality(Of(s, fn) \cup {k + 1}) = Cardinality(Of(s, fn)) + 1
    BY <1>2, <2>1, FS_AddElement
  <2> QED
    BY <1>4, <2>1, <2>2 DEF r
<1>5. CASE c.fn # fn
  <2>1. Of(r, fn) = Of(s, fn)
    BY <1>1, <1>3, <1>5 DEF Of
  <2> QED
    BY <1>2, <1>5, <2>1 DEF r
<1> QED
  BY <1>4, <1>5

(* The frames above k are gone.                                            *)
GoneOf(s, k, fn) == {i \in k + 1 .. Len(s) : s[i].fn = fn}

LEMMA OfCut ==
  ASSUME NEW s \in Seq(Frame), NEW k \in 0 .. Len(s), NEW fn
  PROVE  /\ IsFiniteSet(GoneOf(s, k, fn))
         /\ Cardinality(GoneOf(s, k, fn)) \in Nat
         /\ Cardinality(Of(SubSeq(s, 1, k), fn)) \in Nat
         /\ Cardinality(Of(s, fn)) = Cardinality(Of(SubSeq(s, 1, k), fn))
                                     + Cardinality(GoneOf(s, k, fn))
<1> DEFINE r == SubSeq(s, 1, k)
           gone == GoneOf(s, k, fn)
<1>1. /\ DOMAIN s = 1 .. Len(s) /\ Len(s) \in Nat /\ k \in Nat /\ k <= Len(s)
      /\ r \in Seq(Frame) /\ DOMAIN r = 1 .. k /\ \A n \in 1 .. k : r[n] = s[n]
  OBVIOUS
<1>2. IsFiniteSet(k + 1 .. Len(s))
  BY <1>1, FS_Interval
<1>3. IsFiniteSet(gone)
  BY <1>2, FS_Subset DEF GoneOf
<1>4. Cardinality(gone) \in Nat
  BY <1>3, FS_CardinalityType
<1> HIDE DEF r
<1>5. IsFiniteSet(Of(r, fn)) /\ Cardinality(Of(r, fn)) \in Nat
  BY <1>1, OfIsFinite
<1>6. Of(s, fn) = Of(r, fn) \cup gone /\ Of(r, fn) \cap gone = {}
  BY <1>1 DEF Of, GoneOf
<1> HIDE DEF gone
<1>7. Cardinality(Of(s, fn)) = Cardinality(Of(r, fn)) + Cardinality(gone) - Cardinality({})
  BY <1>3, <1>5, <1>6, FS_Union
<1>8. Cardinality({}) = 0
  BY FS_EmptySet
<1> QED
  BY <1>3, <1>4, <1>5, <1>7, <1>8 DEF r, gone

(* A closure with one open call.                                           *)
LEMMA OnlyFrame ==
  ASSUME NEW s \in Seq(Frame), NEW r \in Seq(Frame), NEW fn, NEW n \in Of(s, fn),
         Cardinality(Of(s, fn)) + Cardinality(Of(r, fn)) <= 1
  PROVE  Of(s, fn) = {n} /\ Of(r, fn) = {}
<1>1. /\ IsFiniteSet(Of(s, fn)) /\ Cardinality(Of(s, fn)) \in Nat
      /\ IsFiniteSet(Of(r, fn)) /\ Cardinality(Of(r, fn)) \in Nat
  BY OfIsFinite
<1>2. Cardinality(Of(s, fn)) # 0
  BY <1>1, FS_EmptySet
<1>3. Cardinality(Of(s, fn)) = 1 /\ Cardinality(Of(r, fn)) = 0
  BY <1>1, <1>2
<1>4. \E x : Of(s, fn) = {x}
  BY <1>1, <1>3, FS_Singleton
<1>5. Of(r, fn) = {}
  BY <1>1, <1>3, FS_EmptySet
<1> QED
  BY <1>4, <1>5

-----------------------------------------------------------------------------
(* Part 3: ticks.                                                          *)

LEMMA TicksGrow ==
  ASSUME NEW st \in [Closure -> Stat], NEW su \in [Closure -> Stat], NEW fn \in LuaFn, NEW d \in Nat,
         \A g \in LuaFn \ {fn} : su[g].ownticks = st[g].ownticks,
         su[fn].ownticks = st[fn].ownticks + d,
         IsFiniteSet(TicksOf(st))
  PROVE  IsFiniteSet(TicksOf(su)) /\ Cardinality(TicksOf(su)) = Cardinality(TicksOf(st)) + d
<1> DEFINE k == st[fn].ownticks
           more == {fn} \X (k + 1 .. k + d)
<1>1. k \in Nat
  BY StatOf DEF Closure
<1>2. IsFiniteSet({fn}) /\ Cardinality({fn}) = 1
  BY FS_Singleton
<1>3. IsFiniteSet(k + 1 .. k + d) /\ Cardinality(k + 1 .. k + d) = d
  <2>1. k + 1 \in Int /\ k + d \in Int /\ (k + 1 > k + d <=> d = 0) /\ (k + d) - (k + 1) + 1 = d
    BY <1>1
  <2> HIDE DEF k
  <2> QED
    BY <2>1, FS_Interval
<1>4. IsFiniteSet(more) /\ Cardinality(more) = d
  <2> DEFINE T == k + 1 .. k + d
  <2>1. IsFiniteSet(T) /\ Cardinality(T) = d
    BY <1>3
  <2> HIDE DEF T
  <2>2. IsFiniteSet({fn} \X T) /\ Cardinality({fn} \X T) = 1 * d
    BY <1>2, <2>1, FS_Product
  <2> QED
    BY <2>2 DEF T
<1>5. TicksOf(su) = TicksOf(st) \cup more
  <2>1. 1 .. k + d = (1 .. k) \cup (k + 1 .. k + d)
    BY <1>1
  <2>2. {fn} \X (1 .. k + d) = ({fn} \X (1 .. k)) \cup more
    <3> HIDE DEF k
    <3> QED
      BY <2>1
  <2>3. ASSUME NEW x \in TicksOf(su) PROVE x \in TicksOf(st) \cup more
    <3>1. PICK g \in LuaFn : x \in {g} \X (1 .. su[g].ownticks)
      BY <2>3 DEF TicksOf
    <3>2. CASE g = fn
      BY <2>2, <3>1, <3>2 DEF TicksOf
    <3>3. CASE g # fn
      BY <3>1, <3>3 DEF TicksOf
    <3> QED
      BY <3>2, <3>3
  <2>4. ASSUME NEW x \in TicksOf(st) PROVE x \in TicksOf(su)
    <3>1. PICK g \in LuaFn : x \in {g} \X (1 .. st[g].ownticks)
      BY <2>4 DEF TicksOf
    <3>2. CASE g = fn
      BY <2>2, <3>1, <3>2 DEF TicksOf
    <3>3. CASE g # fn
      BY <3>1, <3>3 DEF TicksOf
    <3> QED
      BY <3>2, <3>3
  <2>5. more \subseteq TicksOf(su)
    BY <2>2 DEF TicksOf
  <2> QED
    BY <2>3, <2>4, <2>5
<1>6. TicksOf(st) \cap more = {}
  <2>1. (1 .. k) \cap (k + 1 .. k + d) = {}
    BY <1>1
  <2>2. ASSUME NEW x \in TicksOf(st), x \in more PROVE FALSE
    <3>1. PICK g \in LuaFn : x \in {g} \X (1 .. st[g].ownticks)
      BY <2>2 DEF TicksOf
    <3>2. x[1] = g /\ x[2] \in 1 .. st[g].ownticks /\ x[1] = fn /\ x[2] \in k + 1 .. k + d
      BY <2>2, <3>1
    <3> QED
      BY <2>1, <3>2
  <2> QED
    BY <2>2
<1> HIDE DEF more, k
<1>7. IsFiniteSet(TicksOf(su))
  BY <1>4, <1>5, FS_Union
<1>8. Cardinality(TicksOf(su)) = Cardinality(TicksOf(st)) + Cardinality(more) - Cardinality({})
  BY <1>4, <1>5, <1>6, FS_Union
<1>9. Cardinality({}) = 0 /\ Cardinality(TicksOf(st)) \in Nat
  BY FS_EmptySet, FS_CardinalityType
<1> QED
  BY <1>4, <1>7, <1>8, <1>9

LEMMA TicksSame ==
  ASSUME NEW st, NEW su, \A g \in LuaFn : su[g].ownticks = st[g].ownticks
  PROVE  TicksOf(su) = TicksOf(st)
BY DEF TicksOf

LEMMA NoTicks ==
  ASSUME NEW st, \A g \in LuaFn : st[g].ownticks = 0
  PROVE  TicksOf(st) = {} /\ IsFiniteSet({}) /\ Cardinality({}) = 0
<1>1. \A x : x \notin TicksOf(st)
  BY DEF TicksOf
<1> QED
  BY <1>1, FS_EmptySet

-----------------------------------------------------------------------------
(* Part 4: entering, leaving and resuming.                                 *)

(* The top frame and its closure's statistics are all that changes.        *)
Touched(q, p) ==
    /\ q \in Profile /\ q.open = p.open /\ q.made = p.made /\ q.on = p.on /\ q.nested = p.nested
    /\ Len(q.stack) = Len(p.stack) /\ DOMAIN q.stack = DOMAIN p.stack
    /\ \A n \in DOMAIN p.stack :
         q.stack[n].fn = p.stack[n].fn /\ q.stack[n].direct = p.stack[n].direct
    /\ \A n \in DOMAIN p.stack : n # Len(p.stack) => q.stack[n] = p.stack[n]
    /\ \A g \in Closure : q.stats[g].on = p.stats[g].on
    /\ \A g \in Closure : g # p.stack[Len(p.stack)].fn => q.stats[g] = p.stats[g]

LEMMA NotedIs ==
  ASSUME NEW p \in Profile, p.stack # <<>>,
         NEW n, n = Len(p.stack), NEW fn, fn = p.stack[n].fn,
         NEW ci \in Frame, ci.fn = fn, ci.direct = p.stack[n].direct, NEW cs \in Stat, cs.on = p.stats[fn].on
  PROVE  /\ Touched(Noted(p, ci, cs), p)
         /\ Noted(p, ci, cs).stack[n] = ci /\ Noted(p, ci, cs).stats[fn] = cs
<1>1. /\ p.stack \in Seq(Frame) /\ p.stats \in [Closure -> Stat] /\ p.open \in [Closure -> Nat]
      /\ p.made \in Nat /\ p.on \in BOOLEAN /\ p.nested \in BOOLEAN
      /\ p = [stack |-> p.stack, stats |-> p.stats, open |-> p.open, made |-> p.made, on |-> p.on,
               nested |-> p.nested]
  BY ProfileOf
<1>2. n \in DOMAIN p.stack /\ n \in Nat \ {0} /\ DOMAIN p.stack = 1 .. n
  BY <1>1, TopOf
<1>3. fn \in Closure
  BY <1>1, <1>2, FrameOf
<1> DEFINE q == Noted(p, ci, cs)
           s == [p.stack EXCEPT ![n] = ci]
           t == [p.stats EXCEPT ![fn] = cs]
<1>4. q = [stack |-> s, stats |-> t, open |-> p.open, made |-> p.made, on |-> p.on,
           nested |-> p.nested]
  <2>1. q = [p EXCEPT !.stack = s, !.stats = t]
    BY DEF Noted
  <2> HIDE DEF q, s, t
  <2> QED
    BY <1>1, <2>1
<1>5. /\ s \in Seq(Frame) /\ Len(s) = Len(p.stack) /\ DOMAIN s = DOMAIN p.stack
      /\ s[n] = ci /\ \A i \in DOMAIN p.stack : i # n => s[i] = p.stack[i]
  BY <1>1, <1>2
<1>6. /\ t \in [Closure -> Stat] /\ t[fn] = cs
      /\ \A g \in Closure : g # fn => t[g] = p.stats[g]
  BY <1>1, <1>3
<1> HIDE DEF s, t, q
<1>7. /\ q.stack = s /\ q.stats = t /\ q.open = p.open /\ q.made = p.made /\ q.on = p.on
      /\ q.nested = p.nested
  BY <1>4
<1>8. q \in Profile
  BY <1>1, <1>4, <1>5, <1>6 DEF Profile
<1>9. /\ \A i \in DOMAIN p.stack :
           q.stack[i].fn = p.stack[i].fn /\ q.stack[i].direct = p.stack[i].direct
      /\ \A g \in Closure : q.stats[g].on = p.stats[g].on
  BY <1>5, <1>6, <1>7
<1> QED
  BY <1>5, <1>6, <1>7, <1>8, <1>9 DEF Touched, q

LEMMA TouchedOpened ==
  ASSUME NEW p \in Profile, NEW q, Touched(q, p), NEW r, Opened(p.stack, r, p.open)
  PROVE  Opened(q.stack, r, q.open) /\ (Plain(p.stack) => Plain(q.stack))
<1>1. \A fn : Of(q.stack, fn) = Of(p.stack, fn)
  BY OfSame DEF Touched
<1>2. Plain(p.stack) => Plain(q.stack)
  BY DEF Plain, Touched
<1> QED
  BY <1>1, <1>2 DEF Opened, Touched

(* A call is left: what it has spent is committed.                         *)
LEMMA LeaveIs ==
  ASSUME NEW p \in Profile, NEW now \in Nat, Entered(p.stack, p.stats, now),
         Profiled(p), p.stack[Len(p.stack)].entryticks # 0,
         NEW n, n = Len(p.stack), NEW fn, fn = p.stack[n].fn, NEW q, q = Leave(p, now)
  PROVE  /\ Touched(q, p)
         /\ q.stack[n].startticks = now
         /\ q.stack[n].entryticks = IF p.open[fn] = 1 THEN now ELSE p.stack[n].entryticks
         /\ q.stats[fn].ownticks = p.stats[fn].ownticks + (now - p.stack[n].startticks)
         /\ q.stats[fn].subticks = IF p.open[fn] = 1
                                  THEN p.stats[fn].subticks + (now - p.stack[n].entryticks)
                                  ELSE p.stats[fn].subticks
<1> DEFINE ci == p.stack[n]
           cs == p.stats[fn]
           only == p.open[fn] = 1
           c == [ci EXCEPT !.startticks = now, !.entryticks = IF only THEN now ELSE @]
           t == [cs EXCEPT !.ownticks = @ + (now - ci.startticks),
                           !.subticks = IF only THEN @ + (now - ci.entryticks) ELSE @]
<1>1. p.stack \in Seq(Frame) /\ p.stats \in [Closure -> Stat] /\ p.stack # <<>>
  BY ProfileOf DEF Profiled
<1>2. n \in DOMAIN p.stack /\ ci = Last(p.stack)
  BY <1>1, TopOf
<1>3. /\ ci \in Frame /\ fn \in Closure /\ ci.direct \in BOOLEAN
      /\ ci.entryticks \in Nat /\ ci.startticks \in Nat
  BY <1>1, <1>2, FrameOf
<1>4. cs \in Stat /\ cs.on \in BOOLEAN /\ cs.calls \in Nat /\ cs.ownticks \in Nat /\ cs.subticks \in Nat
  BY <1>1, <1>3, StatOf
<1>5. now - ci.startticks \in Nat /\ now - ci.entryticks \in Nat
  BY <1>2, <1>3 DEF Entered
<1>6. Leave(p, now) = Noted(p, c, t)
  BY <1>2, Zenon DEF Leave
<1> HIDE DEF ci, cs
<1>7. /\ c \in Frame /\ c.fn = ci.fn /\ c.direct = ci.direct /\ c.startticks = now
      /\ c.entryticks = IF only THEN now ELSE ci.entryticks
  BY <1>3 DEF Frame
<1>8. /\ t \in Stat /\ t.on = cs.on /\ t.ownticks = cs.ownticks + (now - ci.startticks)
      /\ t.subticks = IF only THEN cs.subticks + (now - ci.entryticks) ELSE cs.subticks
  <2> DEFINE own == cs.ownticks + (now - ci.startticks)
             sub == IF only THEN cs.subticks + (now - ci.entryticks) ELSE cs.subticks
  <2>1. own \in Nat
    BY <1>4, <1>5
  <2>2. sub \in Nat
    <3> HIDE DEF only
    <3> QED
      BY <1>4, <1>5
  <2>3. t = [cs EXCEPT !.ownticks = own, !.subticks = sub]
    BY Zenon
  <2>4. cs = [on |-> cs.on, calls |-> cs.calls, ownticks |-> cs.ownticks, subticks |-> cs.subticks]
    BY <1>4 DEF Stat
  <2>5. t \in Stat /\ t.on = cs.on /\ t.ownticks = own /\ t.subticks = sub
    <3> HIDE DEF own, sub, t
    <3>1. t = [on |-> cs.on, calls |-> cs.calls, ownticks |-> own, subticks |-> sub]
      BY <2>3, <2>4
    <3> QED
      BY <1>4, <2>1, <2>2, <3>1 DEF Stat
  <2> QED
    BY <2>5
<1> HIDE DEF c, t, only
<1>9. Touched(q, p) /\ q.stack[n] = c /\ q.stats[fn] = t
  <2>1. c.fn = fn /\ c.direct = p.stack[n].direct /\ t.on = p.stats[fn].on /\ c \in Frame /\ t \in Stat
    BY <1>7, <1>8 DEF ci, cs
  <2>2. Touched(Noted(p, c, t), p) /\ Noted(p, c, t).stack[n] = c /\ Noted(p, c, t).stats[fn] = t
    BY <1>1, <2>1, NotedIs
  <2> QED
    BY <1>6, <2>2
<1> QED
  BY <1>7, <1>8, <1>9 DEF ci, cs, only

(* A call is entered, or gone on with.                                     *)
LEMMA EnterIs ==
  ASSUME NEW p \in Profile, NEW now \in Nat, Profiled(p),
         NEW n, n = Len(p.stack), NEW fn, fn = p.stack[n].fn, NEW q, q = Enter(p, now)
  PROVE  /\ Touched(q, p)
         /\ q.stack[n].startticks = now
         /\ q.stack[n].entryticks = IF p.stack[n].entryticks = 0 THEN now ELSE p.stack[n].entryticks
         /\ q.stats[fn].ownticks = p.stats[fn].ownticks
         /\ q.stats[fn].subticks = p.stats[fn].subticks
<1> DEFINE ci == p.stack[n]
           cs == p.stats[fn]
           new == ci.entryticks = 0
           entry == IF new THEN now ELSE ci.entryticks
           calls == IF new THEN cs.calls + 1 ELSE cs.calls
           c == [ci EXCEPT !.entryticks = IF new THEN now ELSE @, !.startticks = now]
           t == [cs EXCEPT !.calls = IF new THEN @ + 1 ELSE @]
<1>1. p.stack \in Seq(Frame) /\ p.stats \in [Closure -> Stat] /\ p.stack # <<>>
  BY ProfileOf DEF Profiled
<1>2. n \in DOMAIN p.stack /\ ci = Last(p.stack)
  BY <1>1, TopOf
<1>3. /\ ci \in Frame /\ fn \in Closure /\ ci.direct \in BOOLEAN
      /\ ci.entryticks \in Nat /\ ci.startticks \in Nat
  BY <1>1, <1>2, FrameOf
<1>4. cs \in Stat /\ cs.on \in BOOLEAN /\ cs.calls \in Nat /\ cs.ownticks \in Nat /\ cs.subticks \in Nat
  BY <1>1, <1>3, StatOf
<1>5. q = Noted(p, c, t)
  BY <1>2, Zenon DEF Enter
<1>6. entry \in Nat /\ calls \in Nat
  <2>1. ci.entryticks \in Nat /\ cs.calls \in Nat
    BY <1>3, <1>4
  <2> HIDE DEF ci, cs, new
  <2>2. entry \in Nat
    BY <2>1
  <2>3. calls \in Nat
    BY <2>1
  <2> QED
    BY <2>2, <2>3
<1>7. c = [fn |-> ci.fn, direct |-> ci.direct, entryticks |-> entry, startticks |-> now]
  <2>1. c = [ci EXCEPT !.entryticks = entry, !.startticks = now]
    BY Zenon
  <2>2. ci = [fn |-> ci.fn, direct |-> ci.direct, entryticks |-> ci.entryticks, startticks |-> ci.startticks]
    BY <1>3 DEF Frame
  <2> HIDE DEF c, ci, entry
  <2> QED
    BY <2>1, <2>2
<1>8. t = [on |-> cs.on, calls |-> calls, ownticks |-> cs.ownticks, subticks |-> cs.subticks]
  <2>1. t = [cs EXCEPT !.calls = calls]
    BY Zenon
  <2>2. cs = [on |-> cs.on, calls |-> cs.calls, ownticks |-> cs.ownticks, subticks |-> cs.subticks]
    BY <1>4 DEF Stat
  <2> HIDE DEF t, cs, calls
  <2> QED
    BY <2>1, <2>2
<1> HIDE DEF c, t, entry, calls
<1>9. /\ c \in Frame /\ c.fn = fn /\ c.direct = ci.direct /\ c.startticks = now /\ c.entryticks = entry
      /\ t \in Stat /\ t.on = cs.on /\ t.ownticks = cs.ownticks /\ t.subticks = cs.subticks
  BY <1>3, <1>4, <1>6, <1>7, <1>8 DEF Frame, Stat
<1>10. Touched(q, p) /\ q.stack[n] = c /\ q.stats[fn] = t
  <2>1. Touched(Noted(p, c, t), p) /\ Noted(p, c, t).stack[n] = c /\ Noted(p, c, t).stats[fn] = t
    BY <1>1, <1>9, NotedIs
  <2> QED
    BY <1>5, <2>1
<1> QED
  BY <1>9, <1>10 DEF entry

LEMMA ResumedIs ==
  ASSUME NEW p \in Profile, NEW now \in Nat, Profiled(p), p.stack[Len(p.stack)].entryticks # 0,
         NEW n, n = Len(p.stack), NEW fn, fn = p.stack[n].fn, NEW q, q = Resumed(p, now)
  PROVE  /\ Touched(q, p)
         /\ q.stack[n].startticks = p.stack[n].startticks /\ q.stack[n].entryticks = now
         /\ q.stats[fn] = p.stats[fn]
<1> DEFINE ci == p.stack[n]
           cs == p.stats[fn]
           c == [ci EXCEPT !.entryticks = now]
<1>1. p.stack \in Seq(Frame) /\ p.stats \in [Closure -> Stat] /\ p.stack # <<>>
  BY ProfileOf DEF Profiled
<1>2. n \in DOMAIN p.stack /\ ci = Last(p.stack)
  BY <1>1, TopOf
<1>3. /\ ci \in Frame /\ fn \in Closure /\ ci.direct \in BOOLEAN
      /\ ci.entryticks \in Nat /\ ci.startticks \in Nat
  BY <1>1, <1>2, FrameOf
<1>4. cs \in Stat
  BY <1>1, <1>3, StatOf
<1>5. q = Noted(p, c, cs)
  BY <1>2, Zenon DEF Resumed
<1>6. c \in Frame /\ c.fn = fn /\ c.direct = ci.direct /\ c.startticks = ci.startticks /\ c.entryticks = now
  <2>1. ci = [fn |-> ci.fn, direct |-> ci.direct, entryticks |-> ci.entryticks, startticks |-> ci.startticks]
    BY <1>3 DEF Frame
  <2>2. c = [fn |-> ci.fn, direct |-> ci.direct, entryticks |-> now, startticks |-> ci.startticks]
    BY <2>1
  <2> HIDE DEF c
  <2> QED
    BY <1>3, <2>2 DEF Frame
<1> HIDE DEF c
<1>7. Touched(Noted(p, c, cs), p) /\ Noted(p, c, cs).stack[n] = c /\ Noted(p, c, cs).stats[fn] = cs
  BY <1>1, <1>4, <1>6, NotedIs
<1> QED
  BY <1>5, <1>6, <1>7

-----------------------------------------------------------------------------
(* Part 5: how the accounts are kept.                                      *)

(* What Accounts says of its three arguments, and of the top frame.        *)
LEMMA TopFrame ==
  ASSUME NEW p, NEW r, NEW now, Accounts(p, r, now), p.stack # <<>>,
         NEW n, n = Len(p.stack), NEW fn, fn = p.stack[n].fn
  PROVE  /\ n \in DOMAIN p.stack /\ n \in Nat \ {0} /\ DOMAIN p.stack = 1 .. n
         /\ Last(p.stack) = p.stack[n]
         /\ fn \in Closure /\ p.stack[n].entryticks \in Nat /\ p.stack[n].startticks \in Nat
         /\ p.stack[n].entryticks <= now /\ p.stack[n].startticks <= now
         /\ p.stack[n].entryticks # 0 => p.stats[fn].subticks < p.stack[n].entryticks
         /\ p.stats[fn].on \in BOOLEAN /\ p.stats[fn].ownticks \in Nat /\ p.stats[fn].subticks \in Nat
<1>1. p.stack \in Seq(Frame) /\ p.stats \in [Closure -> Stat] /\ Entered(p.stack, p.stats, now)
  BY ProfileOf DEF Accounts
<1>2. n \in DOMAIN p.stack /\ n \in Nat \ {0} /\ DOMAIN p.stack = 1 .. n /\ Last(p.stack) = p.stack[n]
  BY <1>1, TopOf
<1>3. fn \in Closure /\ p.stack[n].entryticks \in Nat /\ p.stack[n].startticks \in Nat
  BY <1>1, <1>2, FrameOf
<1>4. p.stats[fn].on \in BOOLEAN /\ p.stats[fn].ownticks \in Nat /\ p.stats[fn].subticks \in Nat
  BY <1>1, <1>3, StatOf
<1> QED
  BY <1>1, <1>2, <1>3, <1>4 DEF Entered

LEMMA LeaveAccounts ==
  ASSUME Parameters, NEW p, NEW r, NEW now, Accounts(p, r, now), Uncommitted(p)
  PROVE  /\ Accounts(Leave(p, now), r, now) /\ Uncommitted(Leave(p, now))
         /\ Len(Leave(p, now).stack) = Len(p.stack)
         /\ DOMAIN Leave(p, now).stack = DOMAIN p.stack
         /\ \A n \in DOMAIN p.stack : /\ Leave(p, now).stack[n].fn = p.stack[n].fn
                                       /\ Leave(p, now).stack[n].direct = p.stack[n].direct
         /\ Leave(p, now).on = p.on /\ Leave(p, now).made = p.made
         /\ Leave(p, now).nested = p.nested
<1> DEFINE n == Len(p.stack)
           fn == p.stack[n].fn
           q == Leave(p, now)
<1>1. /\ p \in Profile /\ r \in Seq(Frame) /\ now \in Nat
      /\ Opened(p.stack, r, p.open) /\ Entered(p.stack, p.stats, now) /\ Entered(r, p.stats, now)
      /\ Spent(p.stats, p.nested, now) /\ (~ p.nested => Plain(p.stack) /\ Plain(r))
  BY DEF Accounts
<1>2. /\ p.stack \in Seq(Frame) /\ p.stats \in [Closure -> Stat] /\ p.open \in [Closure -> Nat]
  BY <1>1, ProfileOf
<1>3. CASE ~ (Profiled(p) /\ p.stack[n].entryticks # 0)
  <2>1. Leave(p, now) = p
    <3>1. Profiled(p) => Last(p.stack) = p.stack[n]
      BY <1>2, TopOf DEF Profiled
    <3> QED
      BY <1>3, <3>1 DEF Leave
  <2> QED
    BY <2>1
<1>4. CASE Profiled(p) /\ p.stack[n].entryticks # 0
  <2> DEFINE only == p.open[fn] = 1
  <2>1. p.stack # <<>> /\ p.stats[Last(p.stack).fn].on
    BY <1>4 DEF Profiled
  <2>2. /\ n \in DOMAIN p.stack /\ n \in Nat \ {0} /\ DOMAIN p.stack = 1 .. n
        /\ Last(p.stack) = p.stack[n]
        /\ fn \in Closure /\ p.stack[n].entryticks \in Nat /\ p.stack[n].startticks \in Nat
        /\ p.stack[n].entryticks <= now /\ p.stack[n].startticks <= now
        /\ p.stats[fn].subticks < p.stack[n].entryticks
        /\ p.stats[fn].ownticks \in Nat /\ p.stats[fn].subticks \in Nat
    BY <1>4, <2>1, TopFrame
  <2>3. fn \in LuaFn
    BY <1>1, <2>1, <2>2 DEF Spent
  <2>4. ~ p.nested => Cardinality(TicksOf(p.stats)) < p.stack[n].startticks
    BY <1>4 DEF Uncommitted
  <2>5. /\ Touched(q, p)
        /\ q.stack[n].startticks = now
        /\ q.stack[n].entryticks = IF only THEN now ELSE p.stack[n].entryticks
        /\ q.stats[fn].ownticks = p.stats[fn].ownticks + (now - p.stack[n].startticks)
        /\ q.stats[fn].subticks = IF only
                                 THEN p.stats[fn].subticks + (now - p.stack[n].entryticks)
                                 ELSE p.stats[fn].subticks
    <3>1. q = Leave(p, now) /\ n = Len(p.stack) /\ fn = p.stack[n].fn
      OBVIOUS
    <3>2. Profiled(p) /\ p.stack[Len(p.stack)].entryticks # 0 /\ Entered(p.stack, p.stats, now)
      BY <1>1, <1>4
    <3>3. p \in Profile /\ now \in Nat
      BY <1>1
    <3> HIDE DEF q, n, fn
    <3> QED
      BY <3>1, <3>2, <3>3, LeaveIs
  <2> HIDE DEF q
  <2>6. /\ q \in Profile /\ Opened(q.stack, r, q.open) /\ q.stats \in [Closure -> Stat]
        /\ q.nested = p.nested /\ (~ q.nested => Plain(q.stack) /\ Plain(r))
    <3>1. q \in Profile
      BY <2>5 DEF Touched
    <3> QED
      BY <1>1, <2>5, <3>1, TouchedOpened, ProfileOf DEF Touched
  <2>7. IsFiniteSet(TicksOf(q.stats)) /\ (~ p.nested => Cardinality(TicksOf(q.stats)) < now)
    <3> DEFINE d == now - p.stack[n].startticks
    <3>1. d \in Nat
      BY <1>1, <2>2
    <3>2. \A g \in LuaFn \ {fn} : q.stats[g].ownticks = p.stats[g].ownticks
      BY <2>5 DEF Touched, Closure
    <3>3. q.stats[fn].ownticks = p.stats[fn].ownticks + d
      BY <2>5
    <3>4. IsFiniteSet(TicksOf(p.stats)) /\ Cardinality(TicksOf(p.stats)) \in Nat
      BY <1>1, FS_CardinalityType DEF Spent
    <3> HIDE DEF d, fn
    <3>5. /\ IsFiniteSet(TicksOf(q.stats))
          /\ Cardinality(TicksOf(q.stats)) = Cardinality(TicksOf(p.stats)) + d
      <4>1. p.stats \in [Closure -> Stat] /\ q.stats \in [Closure -> Stat] /\ fn \in LuaFn
        BY <1>2, <2>3, <2>6
      <4>2. IsFiniteSet(TicksOf(p.stats))
        BY <3>4
      <4> QED
        BY <3>1, <3>2, <3>3, <4>1, <4>2, TicksGrow
    <3>6. p.stack[n].startticks + d = now
      BY <1>1, <2>2 DEF d
    <3>7. ASSUME ~ p.nested PROVE Cardinality(TicksOf(q.stats)) < now
      BY <1>1, <2>2, <2>4, <3>1, <3>4, <3>5, <3>6, <3>7
    <3> QED
      BY <3>5, <3>7
  <2>8. q.stats[fn].subticks < now
    <3> DEFINE sub == p.stats[fn].subticks
               entry == p.stack[n].entryticks
    <3>1. sub \in Nat /\ entry \in Nat /\ sub < entry /\ entry <= now /\ now \in Nat
      BY <1>1, <2>2
    <3>2. q.stats[fn].subticks = sub + (now - entry) \/ q.stats[fn].subticks = sub
      BY <2>5
    <3> HIDE DEF sub, entry
    <3>3. sub + (now - entry) < now /\ sub < now
      BY <3>1
    <3> QED
      BY <3>2, <3>3
  <2>9. Spent(q.stats, q.nested, now)
    <3>1. ASSUME NEW g \in Closure PROVE q.stats[g].subticks < now /\ (q.stats[g].on => g \in LuaFn)
      <4>1. g # fn => q.stats[g] = p.stats[g]
        BY <2>5 DEF Touched
      <4>2. q.stats[g].on = p.stats[g].on
        BY <2>5 DEF Touched
      <4> QED
        BY <1>1, <2>8, <4>1, <4>2 DEF Spent
    <3> QED
      BY <2>6, <2>7, <3>1 DEF Spent
  <2>10. ASSUME ~ only PROVE Accounts(q, r, now)
    <3>1. \A g \in Closure : q.stats[g].subticks = p.stats[g].subticks
      BY <2>5, <2>10 DEF Touched
    <3>2. Entered(r, q.stats, now)
      BY <1>1, <3>1, FrameOf DEF Entered
    <3>3. ASSUME NEW i \in DOMAIN q.stack
          PROVE  /\ q.stack[i].entryticks <= now /\ q.stack[i].startticks <= now
                 /\ q.stack[i].entryticks # 0 => q.stats[q.stack[i].fn].subticks < q.stack[i].entryticks
      <4>1. i \in DOMAIN p.stack /\ q.stack[i].fn = p.stack[i].fn /\ p.stack[i].fn \in Closure
        BY <1>2, <2>5, FrameOf DEF Touched
      <4>2. q.stack[i].entryticks = p.stack[i].entryticks
        BY <2>5, <2>10, <4>1 DEF Touched
      <4>3. q.stack[i].startticks = p.stack[i].startticks \/ q.stack[i].startticks = now
        BY <2>5, <4>1 DEF Touched
      <4> QED
        BY <1>1, <3>1, <4>1, <4>2, <4>3 DEF Entered
    <3>4. Entered(q.stack, q.stats, now)
      BY <3>3 DEF Entered
    <3> QED
      BY <1>1, <2>6, <2>9, <3>2, <3>4 DEF Accounts
  <2>11. ASSUME only PROVE Accounts(q, r, now)
    <3>1. n \in Of(p.stack, fn)
      BY <2>2 DEF Of
    <3>2. Cardinality(Of(p.stack, fn)) + Cardinality(Of(r, fn)) <= 1
      BY <1>1, <2>2, <2>11 DEF Opened
    <3>3. Of(p.stack, fn) = {n} /\ Of(r, fn) = {}
      <4> HIDE DEF n, fn
      <4> QED
        BY <1>1, <1>2, <3>1, <3>2, OnlyFrame
    <3>4. \A g \in Closure : g # fn => q.stats[g].subticks = p.stats[g].subticks
      BY <2>5 DEF Touched
    <3>5. \A i \in DOMAIN r : r[i].fn \in Closure /\ r[i].fn # fn
      BY <1>1, <3>3, FrameOf DEF Of
    <3>6. Entered(r, q.stats, now)
      BY <1>1, <3>4, <3>5 DEF Entered
    <3>7. ASSUME NEW i \in DOMAIN q.stack
          PROVE  /\ q.stack[i].entryticks <= now /\ q.stack[i].startticks <= now
                 /\ q.stack[i].entryticks # 0 => q.stats[q.stack[i].fn].subticks < q.stack[i].entryticks
      <4>1. i \in DOMAIN p.stack /\ q.stack[i].fn = p.stack[i].fn /\ p.stack[i].fn \in Closure
        BY <1>2, <2>5, FrameOf DEF Touched
      <4>2. CASE i = n
        BY <1>1, <2>5, <2>8, <2>11, <4>1, <4>2
      <4>3. CASE i # n
        <5>1. q.stack[i] = p.stack[i]
          BY <2>5, <4>1, <4>3 DEF Touched
        <5>2. p.stack[i].fn # fn
          BY <3>3, <4>1, <4>3 DEF Of
        <5> QED
          BY <1>1, <3>4, <4>1, <5>1, <5>2 DEF Entered
      <4> QED
        BY <4>2, <4>3
    <3>8. Entered(q.stack, q.stats, now)
      BY <3>7 DEF Entered
    <3> QED
      BY <1>1, <2>6, <2>9, <3>6, <3>8 DEF Accounts
  <2>12. Uncommitted(q)
    BY <2>5, <2>6, <2>7 DEF Uncommitted, Touched
  <2> QED
    BY <2>5, <2>10, <2>11, <2>12 DEF Touched, q
<1> QED
  BY <1>3, <1>4

(* Entering and resuming move the marks of the top frame to the present    *)
(* and charge nothing.                                                     *)
LEMMA MarkAccounts ==
  ASSUME Parameters, NEW p, NEW r, NEW now, Accounts(p, r, now), p.stack # <<>>,
         NEW n, n = Len(p.stack), NEW fn, fn = p.stack[n].fn, NEW q, Touched(q, p),
         q.stack[n].startticks \in {now, p.stack[n].startticks},
         q.stack[n].entryticks \in {now, p.stack[n].entryticks},
         q.stats[fn].ownticks = p.stats[fn].ownticks, q.stats[fn].subticks = p.stats[fn].subticks
  PROVE  Accounts(q, r, now) /\ TicksOf(q.stats) = TicksOf(p.stats)
<1>1. /\ p \in Profile /\ r \in Seq(Frame) /\ now \in Nat
      /\ Opened(p.stack, r, p.open) /\ Entered(p.stack, p.stats, now) /\ Entered(r, p.stats, now)
      /\ Spent(p.stats, p.nested, now) /\ (~ p.nested => Plain(p.stack) /\ Plain(r))
  BY DEF Accounts
<1>2. p.stack \in Seq(Frame) /\ p.stats \in [Closure -> Stat]
  BY <1>1, ProfileOf
<1>3. n \in DOMAIN p.stack /\ fn \in Closure
  BY <1>2, TopOf, FrameOf
<1>4. /\ q \in Profile /\ Opened(q.stack, r, q.open) /\ q.nested = p.nested
      /\ ~ q.nested => Plain(q.stack) /\ Plain(r)
  BY <1>1, TouchedOpened DEF Touched
<1>5. \A g \in Closure : /\ q.stats[g].subticks = p.stats[g].subticks
                         /\ q.stats[g].ownticks = p.stats[g].ownticks
                         /\ q.stats[g].on = p.stats[g].on
  BY DEF Touched
<1>6. TicksOf(q.stats) = TicksOf(p.stats)
  BY <1>5, TicksSame DEF Closure
<1>7. Spent(q.stats, q.nested, now)
  BY <1>1, <1>4, <1>5, <1>6 DEF Spent
<1>8. Entered(r, q.stats, now)
  BY <1>1, <1>5, FrameOf DEF Entered
<1>9. ASSUME NEW i \in DOMAIN q.stack
      PROVE  /\ q.stack[i].entryticks <= now /\ q.stack[i].startticks <= now
             /\ q.stack[i].entryticks # 0 => q.stats[q.stack[i].fn].subticks < q.stack[i].entryticks
  <2>1. i \in DOMAIN p.stack /\ q.stack[i].fn = p.stack[i].fn /\ p.stack[i].fn \in Closure
    BY <1>2, FrameOf DEF Touched
  <2>2. /\ p.stack[i].entryticks <= now /\ p.stack[i].startticks <= now
        /\ p.stack[i].entryticks # 0 => p.stats[p.stack[i].fn].subticks < p.stack[i].entryticks
    BY <1>1, <2>1 DEF Entered
  <2>3. p.stats[p.stack[i].fn].subticks < now /\ now <= now
    BY <1>1, <2>1 DEF Spent
  <2>4. CASE i = n
    BY <1>5, <2>1, <2>2, <2>3, <2>4
  <2>5. CASE i # n
    <3>1. q.stack[i] = p.stack[i]
      BY <2>1, <2>5 DEF Touched
    <3> QED
      BY <1>5, <2>1, <2>2, <3>1
  <2> QED
    BY <2>4, <2>5
<1>10. Entered(q.stack, q.stats, now)
  BY <1>9 DEF Entered
<1> QED
  BY <1>1, <1>4, <1>6, <1>7, <1>8, <1>10 DEF Accounts

LEMMA EnterAccounts ==
  ASSUME Parameters, NEW p, NEW r, NEW now, Accounts(p, r, now)
  PROVE  /\ Accounts(Enter(p, now), r, now) /\ Uncommitted(Enter(p, now))
         /\ Len(Enter(p, now).stack) = Len(p.stack)
         /\ DOMAIN Enter(p, now).stack = DOMAIN p.stack
         /\ \A n \in DOMAIN p.stack : Enter(p, now).stack[n].fn = p.stack[n].fn
         /\ Enter(p, now).on = p.on /\ Enter(p, now).made = p.made
         /\ Enter(p, now).nested = p.nested
<1> DEFINE n == Len(p.stack)
           fn == p.stack[n].fn
           q == Enter(p, now)
<1>1. p \in Profile /\ now \in Nat /\ Spent(p.stats, p.nested, now)
  BY DEF Accounts
<1>2. CASE ~ Profiled(p)
  <2>1. Enter(p, now) = p
    BY <1>2 DEF Enter
  <2> QED
    BY <1>2, <2>1 DEF Uncommitted
<1>3. CASE Profiled(p)
  <2>1. p.stack # <<>>
    BY <1>3 DEF Profiled
  <2>2. /\ Touched(q, p)
        /\ q.stack[n].startticks = now
        /\ q.stack[n].entryticks = IF p.stack[n].entryticks = 0 THEN now ELSE p.stack[n].entryticks
        /\ q.stats[fn].ownticks = p.stats[fn].ownticks
        /\ q.stats[fn].subticks = p.stats[fn].subticks
    <3>1. q = Enter(p, now) /\ n = Len(p.stack) /\ fn = p.stack[n].fn
      OBVIOUS
    <3> HIDE DEF q, n, fn
    <3> QED
      BY <1>1, <1>3, <3>1, EnterIs
  <2> HIDE DEF q
  <2>3. Accounts(q, r, now) /\ TicksOf(q.stats) = TicksOf(p.stats)
    <3>1. /\ q.stack[n].startticks \in {now, p.stack[n].startticks}
          /\ q.stack[n].entryticks \in {now, p.stack[n].entryticks}
      BY <2>2
    <3>2. n = Len(p.stack) /\ fn = p.stack[n].fn
      OBVIOUS
    <3> HIDE DEF n, fn
    <3> QED
      BY <2>1, <2>2, <3>1, <3>2, MarkAccounts
  <2>4. Uncommitted(q)
    BY <1>1, <2>2, <2>3 DEF Uncommitted, Touched, Spent
  <2> QED
    BY <2>2, <2>3, <2>4 DEF Touched, q
<1> QED
  BY <1>2, <1>3

(* The function that runs stays the one on top.                            *)
LEMMA EnterKeepsTop ==
  ASSUME Parameters, NEW p, NEW r, NEW now, Accounts(p, r, now), p.stack # <<>>,
         NEW q, q = Enter(p, now)
  PROVE  q.stack # <<>> /\ q.stack[Len(q.stack)].fn = p.stack[Len(p.stack)].fn
<1>1. /\ Accounts(q, r, now) /\ Len(q.stack) = Len(p.stack)
      /\ \A n \in DOMAIN p.stack : q.stack[n].fn = p.stack[n].fn
  BY EnterAccounts
<1>2. p.stack \in Seq(Frame) /\ q.stack \in Seq(Frame)
  BY <1>1, ProfileOf DEF Accounts
<1>3. Len(p.stack) \in DOMAIN p.stack /\ Len(p.stack) # 0
  BY <1>2, TopOf
<1> QED
  BY <1>1, <1>2, <1>3

LEMMA ResumedAccounts ==
  ASSUME Parameters, NEW p, NEW r, NEW now, Accounts(p, r, now)
  PROVE  /\ Accounts(Resumed(p, now), r, now)
         /\ Resumed(p, now).on = p.on /\ Resumed(p, now).made = p.made
         /\ Resumed(p, now).nested = p.nested
<1> DEFINE n == Len(p.stack)
           fn == p.stack[n].fn
           q == Resumed(p, now)
<1>1. p \in Profile /\ now \in Nat /\ p.stack \in Seq(Frame)
  BY ProfileOf DEF Accounts
<1>2. CASE ~ (Profiled(p) /\ p.stack[n].entryticks # 0)
  <2>1. Resumed(p, now) = p
    <3>1. Profiled(p) => Last(p.stack) = p.stack[n]
      BY <1>1, TopOf DEF Profiled
    <3> QED
      BY <1>2, <3>1 DEF Resumed
  <2> QED
    BY <2>1
<1>3. CASE Profiled(p) /\ p.stack[n].entryticks # 0
  <2>1. p.stack # <<>>
    BY <1>3 DEF Profiled
  <2>2. /\ Touched(q, p)
        /\ q.stack[n].startticks = p.stack[n].startticks /\ q.stack[n].entryticks = now
        /\ q.stats[fn] = p.stats[fn]
    BY <1>1, <1>3, ResumedIs
  <2> HIDE DEF q
  <2>3. Accounts(q, r, now)
    BY <2>1, <2>2, MarkAccounts
  <2> QED
    BY <2>2, <2>3 DEF Touched, q
<1> QED
  BY <1>2, <1>3

LEMMA PushAccounts ==
  ASSUME Parameters, NEW p, NEW r, NEW now, Accounts(p, r, now), NEW fn \in Closure, NEW direct \in BOOLEAN
  PROVE  /\ Accounts(Push(p, fn, direct), r, now)
         /\ Push(p, fn, direct).stack # <<>> /\ Len(Push(p, fn, direct).stack) = Len(p.stack) + 1
         /\ Push(p, fn, direct).stack[Len(p.stack) + 1].fn = fn
         /\ \A n \in DOMAIN p.stack : Push(p, fn, direct).stack[n] = p.stack[n]
         /\ Push(p, fn, direct).on = p.on /\ Push(p, fn, direct).stats = p.stats
<1> DEFINE c == [fn |-> fn, direct |-> direct, entryticks |-> 0, startticks |-> 0]
           s == Append(p.stack, c)
           open == [p.open EXCEPT ![fn] = @ + 1]
           more == IF fn \in LuaFn THEN p.made + 1 ELSE p.made
           nest == p.nested \/ direct
           q == Push(p, fn, direct)
<1>1. /\ p \in Profile /\ r \in Seq(Frame) /\ now \in Nat
      /\ Opened(p.stack, r, p.open) /\ Entered(p.stack, p.stats, now) /\ Entered(r, p.stats, now)
      /\ Spent(p.stats, p.nested, now) /\ (~ p.nested => Plain(p.stack) /\ Plain(r))
  BY DEF Accounts
<1>2. /\ p.stack \in Seq(Frame) /\ p.stats \in [Closure -> Stat] /\ p.open \in [Closure -> Nat]
      /\ p.made \in Nat /\ p.on \in BOOLEAN /\ p.nested \in BOOLEAN
      /\ p = [stack |-> p.stack, stats |-> p.stats, open |-> p.open, made |-> p.made, on |-> p.on,
               nested |-> p.nested]
  BY <1>1, ProfileOf
<1>3. c \in Frame /\ c.fn = fn /\ c.direct = direct /\ c.entryticks = 0 /\ c.startticks = 0
  BY DEF Frame
<1>4. more \in Nat /\ open \in [Closure -> Nat] /\ nest \in BOOLEAN
  <2>1. more \in Nat /\ open \in [Closure -> Nat]
    BY <1>2
  <2> QED
    BY <2>1, Zenon
<1>5. q = [stack |-> s, stats |-> p.stats, open |-> open, made |-> more, on |-> p.on, nested |-> nest]
  <2>1. q = [p EXCEPT !.stack = s, !.open = open, !.made = more, !.nested = nest]
    BY Zenon DEF Push
  <2> HIDE DEF q, s, open, more, nest
  <2> QED
    BY <1>2, <2>1
<1>6. /\ s \in Seq(Frame) /\ s # <<>> /\ Len(s) = Len(p.stack) + 1 /\ s[Len(p.stack) + 1] = c
      /\ DOMAIN s = 1 .. Len(p.stack) + 1 /\ DOMAIN p.stack = 1 .. Len(p.stack) /\ Len(p.stack) \in Nat
      /\ \A n \in DOMAIN p.stack : s[n] = p.stack[n]
  <2> HIDE DEF c
  <2> QED
    BY <1>2, <1>3
<1>7. ASSUME NEW g \in Closure
      PROVE  Cardinality(Of(s, g)) + Cardinality(Of(r, g)) <= open[g]
  <2>1. Cardinality(Of(s, g)) = Cardinality(Of(p.stack, g)) + (IF fn = g THEN 1 ELSE 0)
    <3> HIDE DEF c
    <3> QED
      BY <1>2, <1>3, OfAppend
  <2>2. Cardinality(Of(p.stack, g)) \in Nat /\ Cardinality(Of(r, g)) \in Nat
    BY <1>1, <1>2, OfIsFinite
  <2>3. Cardinality(Of(p.stack, g)) + Cardinality(Of(r, g)) <= p.open[g]
    BY <1>1 DEF Opened
  <2>4. open[g] = p.open[g] + (IF fn = g THEN 1 ELSE 0) /\ p.open[g] \in Nat
    BY <1>2
  <2> HIDE DEF s, open
  <2> QED
    BY <2>1, <2>2, <2>3, <2>4
<1>12. ~ nest => ~ p.nested /\ ~ direct
  BY Zenon
<1> HIDE DEF c, s, open, more, nest, q
<1>8. /\ q.stack = s /\ q.stats = p.stats /\ q.open = open /\ q.made = more /\ q.on = p.on
      /\ q.nested = nest /\ q \in Profile
  BY <1>2, <1>4, <1>5, <1>6 DEF Profile
<1>9. ASSUME NEW i \in DOMAIN s
      PROVE  /\ s[i].entryticks <= now /\ s[i].startticks <= now
             /\ s[i].entryticks # 0 => p.stats[s[i].fn].subticks < s[i].entryticks
  <2>1. i \in DOMAIN p.stack \/ i = Len(p.stack) + 1
    BY <1>6
  <2> QED
    BY <1>1, <1>3, <1>6, <2>1 DEF Entered
<1>10. Entered(s, p.stats, now)
  BY <1>9 DEF Entered
<1>13. ASSUME ~ nest PROVE Plain(s) /\ Plain(r)
  BY <1>1, <1>3, <1>6, <1>12, <1>13 DEF Plain
<1>14. Spent(p.stats, nest, now)
  BY <1>1, <1>12 DEF Spent
<1>11. Accounts(q, r, now)
  BY <1>1, <1>7, <1>8, <1>10, <1>13, <1>14 DEF Accounts, Opened
<1> QED
  BY <1>3, <1>6, <1>8, <1>11 DEF q

(* Frames are unwound down to the k-th.                                    *)
LEMMA UnwindAccounts ==
  ASSUME Parameters, NEW p, NEW r, NEW now, Accounts(p, r, now), NEW k \in 0 .. Len(p.stack)
  PROVE  /\ Accounts(Unwind(p, k), r, now)
         /\ Len(Unwind(p, k).stack) = k /\ DOMAIN Unwind(p, k).stack = 1 .. k
         /\ \A n \in 1 .. k : Unwind(p, k).stack[n] = p.stack[n]
         /\ Unwind(p, k).on = p.on /\ Unwind(p, k).made = p.made
         /\ Unwind(p, k).nested = p.nested
<1> DEFINE s == SubSeq(p.stack, 1, k)
           gone(g) == Cardinality(GoneOf(p.stack, k, g))
           open == [g \in Closure |-> p.open[g] - gone(g)]
           q == Unwind(p, k)
<1>1. /\ p \in Profile /\ r \in Seq(Frame) /\ now \in Nat
      /\ Opened(p.stack, r, p.open) /\ Entered(p.stack, p.stats, now) /\ Entered(r, p.stats, now)
      /\ Spent(p.stats, p.nested, now) /\ (~ p.nested => Plain(p.stack) /\ Plain(r))
  BY DEF Accounts
<1>2. /\ p.stack \in Seq(Frame) /\ p.stats \in [Closure -> Stat] /\ p.open \in [Closure -> Nat]
      /\ p.made \in Nat /\ p.on \in BOOLEAN /\ p.nested \in BOOLEAN
      /\ p = [stack |-> p.stack, stats |-> p.stats, open |-> p.open, made |-> p.made, on |-> p.on,
               nested |-> p.nested]
  BY <1>1, ProfileOf
<1>3. /\ s \in Seq(Frame) /\ Len(s) = k /\ DOMAIN s = 1 .. k /\ \A n \in 1 .. k : s[n] = p.stack[n]
      /\ DOMAIN p.stack = 1 .. Len(p.stack) /\ Len(p.stack) \in Nat
  BY <1>2
<1>4. ASSUME NEW g \in Closure
      PROVE  /\ p.open[g] - gone(g) \in Nat
             /\ Cardinality(Of(s, g)) + Cardinality(Of(r, g)) <= p.open[g] - gone(g)
  <2>1. /\ gone(g) \in Nat /\ Cardinality(Of(s, g)) \in Nat
        /\ Cardinality(Of(p.stack, g)) = Cardinality(Of(s, g)) + gone(g)
    BY <1>2, OfCut
  <2>2. Cardinality(Of(r, g)) \in Nat
    BY <1>1, OfIsFinite
  <2>3. Cardinality(Of(p.stack, g)) + Cardinality(Of(r, g)) <= p.open[g] /\ p.open[g] \in Nat
    BY <1>1, <1>2 DEF Opened
  <2> HIDE DEF s, gone
  <2> QED
    BY <2>1, <2>2, <2>3
<1>5. q = [stack |-> s, stats |-> p.stats, open |-> open, made |-> p.made, on |-> p.on,
           nested |-> p.nested]
  <2>1. q = [p EXCEPT !.stack = s, !.open = open]
    BY DEF Unwind, GoneOf
  <2> HIDE DEF q, s, open
  <2> QED
    BY <1>2, <2>1
<1> HIDE DEF gone
<1>6. open \in [Closure -> Nat] /\ \A g \in Closure : open[g] = p.open[g] - gone(g)
  BY <1>4
<1> HIDE DEF s, open, q
<1>7. /\ q.stack = s /\ q.stats = p.stats /\ q.open = open /\ q.made = p.made /\ q.on = p.on
      /\ q.nested = p.nested /\ q \in Profile
  BY <1>2, <1>3, <1>5, <1>6 DEF Profile
<1>8. Opened(s, r, open)
  BY <1>4, <1>6 DEF Opened
<1>9. Entered(s, p.stats, now)
  BY <1>1, <1>3 DEF Entered
<1>11. Plain(p.stack) => Plain(s)
  BY <1>3 DEF Plain
<1>10. Accounts(q, r, now)
  BY <1>1, <1>7, <1>8, <1>9, <1>11 DEF Accounts
<1> QED
  BY <1>3, <1>7, <1>10 DEF q

LEMMA PopAccounts ==
  ASSUME Parameters, NEW p, NEW r, NEW now, Accounts(p, r, now), p.stack # <<>>
  PROVE  /\ Accounts(Pop(p), r, now)
         /\ Len(Pop(p).stack) = Len(p.stack) - 1 /\ DOMAIN Pop(p).stack = 1 .. Len(p.stack) - 1
         /\ \A n \in 1 .. Len(p.stack) - 1 : Pop(p).stack[n] = p.stack[n]
         /\ Pop(p).on = p.on /\ Pop(p).made = p.made /\ Pop(p).nested = p.nested
<1> DEFINE n == Len(p.stack)
           fn == p.stack[n].fn
           gone(g) == {i \in n - 1 + 1 .. n : p.stack[i].fn = g}
<1>1. /\ p \in Profile /\ p.stack \in Seq(Frame) /\ p.open \in [Closure -> Nat]
  BY ProfileOf DEF Accounts
<1>2. n \in Nat \ {0} /\ fn \in Closure /\ Last(p.stack) = p.stack[n] /\ n \in DOMAIN p.stack
  BY <1>1, TopOf, FrameOf
<1>3. n - 1 + 1 .. n = {n}
  BY <1>2
<1>4. ASSUME NEW g \in Closure PROVE Cardinality(gone(g)) = IF g = fn THEN 1 ELSE 0
  <2>1. CASE g = fn
    <3>1. gone(g) = {n}
      BY <1>3, <2>1
    <3> QED
      BY <2>1, <3>1, FS_Singleton
  <2>2. CASE g # fn
    <3>1. gone(g) = {}
      BY <1>3, <2>2
    <3> QED
      BY <2>2, <3>1, FS_EmptySet
  <2> QED
    BY <2>1, <2>2
<1> DEFINE open == [g \in Closure |-> p.open[g] - Cardinality(gone(g))]
<1>5. [p.open EXCEPT ![fn] = @ - 1] = open
  <2> HIDE DEF gone, fn
  <2> QED
    BY <1>1, <1>2, <1>4
<1>6. Unwind(p, n - 1) = [p EXCEPT !.stack = SubSeq(p.stack, 1, n - 1), !.open = open]
  BY DEF Unwind
<1>7. Pop(p) = [p EXCEPT !.stack = SubSeq(p.stack, 1, n - 1), !.open = [p.open EXCEPT ![fn] = @ - 1]]
  BY <1>2, Zenon DEF Pop, Front
<1>8. Pop(p) = Unwind(p, n - 1)
  <2> DEFINE less == [p.open EXCEPT ![fn] = @ - 1]
  <2>1. less = open
    BY <1>5
  <2>2. Pop(p) = [p EXCEPT !.stack = SubSeq(p.stack, 1, n - 1), !.open = less]
    BY <1>7
  <2> HIDE DEF open, less
  <2> QED
    BY <1>6, <2>1, <2>2
<1>9. n - 1 \in 0 .. Len(p.stack)
  BY <1>2
<1> DEFINE k == n - 1
<1>10. k \in 0 .. Len(p.stack) /\ Pop(p) = Unwind(p, k)
  BY <1>8, <1>9
<1> HIDE DEF k
<1>11. /\ Accounts(Unwind(p, k), r, now)
       /\ Len(Unwind(p, k).stack) = k /\ DOMAIN Unwind(p, k).stack = 1 .. k
       /\ \A i \in 1 .. k : Unwind(p, k).stack[i] = p.stack[i]
       /\ Unwind(p, k).on = p.on /\ Unwind(p, k).made = p.made /\ Unwind(p, k).nested = p.nested
  BY <1>10, UnwindAccounts
<1> QED
  BY <1>10, <1>11 DEF k

(* A frame of a C function has nothing to commit.                          *)
LEMMA NothingOfC ==
  ASSUME NEW p, NEW r, NEW now, Accounts(p, r, now), ~ TopIsLua(p)
  PROVE  ~ Profiled(p) /\ Uncommitted(p)
<1>1. p.stack \in Seq(Frame) /\ Spent(p.stats, p.nested, now)
  BY ProfileOf DEF Accounts
<1>2. ASSUME p.stack # <<>> PROVE Last(p.stack).fn \in Closure
  BY <1>1, <1>2, TopOf, FrameOf
<1> QED
  BY <1>1, <1>2 DEF Spent, Profiled, TopIsLua, Uncommitted

LEMMA EnterLuaAccounts ==
  ASSUME Parameters, NEW p, NEW r, NEW now, Accounts(p, r, now)
  PROVE  /\ Accounts(EnterLua(p, now), r, now) /\ Uncommitted(EnterLua(p, now))
         /\ Len(EnterLua(p, now).stack) = Len(p.stack)
         /\ EnterLua(p, now).on = p.on /\ EnterLua(p, now).nested = p.nested
<1>1. CASE TopIsLua(p)
  BY <1>1, EnterAccounts DEF EnterLua
<1>2. CASE ~ TopIsLua(p)
  BY <1>2, NothingOfC DEF EnterLua
<1> QED
  BY <1>1, <1>2

LEMMA LeaveLuaAccounts ==
  ASSUME Parameters, NEW p, NEW r, NEW now, Accounts(p, r, now), Uncommitted(p)
  PROVE  /\ Accounts(LeaveLua(p, now), r, now)
         /\ Len(LeaveLua(p, now).stack) = Len(p.stack)
         /\ LeaveLua(p, now).on = p.on /\ LeaveLua(p, now).made = p.made
<1>1. CASE TopIsLua(p)
  BY <1>1, LeaveAccounts DEF LeaveLua
<1>2. CASE ~ TopIsLua(p)
  BY <1>2 DEF LeaveLua
<1> QED
  BY <1>1, <1>2

(* A call, direct or not.                                                  *)
LEMMA CalledAccounts ==
  ASSUME Parameters, NEW p, NEW r, NEW now, Accounts(p, r, now), Uncommitted(p),
         NEW fn \in Closure, NEW direct \in BOOLEAN, NEW q, q = Called(p, fn, direct, now)
  PROVE  /\ Accounts(q, r, now) /\ Uncommitted(q) /\ q.on = p.on
         /\ q.stack # <<>> /\ q.stack[Len(q.stack)].fn = fn
<1> DEFINE p1 == IF direct THEN p ELSE LeaveLua(p, now)
           p2 == Push(p1, fn, direct)
<1>1. Accounts(p1, r, now) /\ p1.on = p.on
  BY LeaveLuaAccounts
<1> HIDE DEF p1
<1>2. /\ Accounts(p2, r, now) /\ p2.on = p1.on
      /\ p2.stack # <<>> /\ Len(p2.stack) = Len(p1.stack) + 1 /\ p2.stack[Len(p1.stack) + 1].fn = fn
  BY <1>1, PushAccounts
<1> HIDE DEF p2
<1>3. q = Enter(p2, now)
  BY DEF Called, p1, p2
<1>4. Accounts(q, r, now) /\ Uncommitted(q) /\ q.on = p2.on
  BY <1>2, <1>3, EnterAccounts
<1>5. q.stack # <<>> /\ q.stack[Len(q.stack)].fn = p2.stack[Len(p2.stack)].fn
  BY <1>2, <1>3, EnterKeepsTop
<1> QED
  BY <1>1, <1>2, <1>4, <1>5

(* A return.  The clock of the function below a direct call has been       *)
(* running; then nothing is claimed of the own times.                      *)
LEMMA ReturnedAccounts ==
  ASSUME Parameters, NEW p, NEW r, NEW now, Accounts(p, r, now), Uncommitted(p), p.stack # <<>>,
         NEW q, q = Returned(p, now)
  PROVE  Accounts(q, r, now) /\ Uncommitted(q) /\ q.on = p.on
<1> DEFINE p1 == Leave(p, now)
           p2 == Pop(p1)
<1>1. p \in Profile /\ p.stack \in Seq(Frame) /\ (~ p.nested => Plain(p.stack))
  BY ProfileOf DEF Accounts
<1>2. Len(p.stack) \in DOMAIN p.stack /\ Last(p.stack) = p.stack[Len(p.stack)]
      /\ Len(p.stack) # 0
  BY <1>1, TopOf
<1>3. Accounts(p1, r, now) /\ p1.on = p.on /\ p1.nested = p.nested /\ Len(p1.stack) = Len(p.stack)
  BY LeaveAccounts
<1> HIDE DEF p1
<1>4. p1.stack # <<>>
  BY <1>2, <1>3
<1>5. Accounts(p2, r, now) /\ p2.on = p1.on /\ p2.nested = p1.nested
  BY <1>3, <1>4, PopAccounts
<1> HIDE DEF p2
<1>6. q = IF Last(p.stack).direct THEN p2 ELSE EnterLua(p2, now)
  BY DEF Returned, p1, p2
<1>7. CASE Last(p.stack).direct
  <2>1. p2.nested
    BY <1>1, <1>2, <1>3, <1>5, <1>7 DEF Plain
  <2> QED
    BY <1>3, <1>5, <1>6, <1>7, <2>1 DEF Uncommitted
<1>8. CASE ~ Last(p.stack).direct
  <2>1. q = EnterLua(p2, now)
    BY <1>6, <1>8
  <2> QED
    BY <1>3, <1>5, <2>1, EnterLuaAccounts
<1> QED
  BY <1>7, <1>8

(* The same accounts, seen from the other thread.                          *)
LEMMA SwitchAccounts ==
  ASSUME NEW p, NEW r, NEW now, Accounts(p, r, now),
         NEW q \in Profile, q.stack = r, q.stats = p.stats, q.open = p.open, q.nested = p.nested
  PROVE  Accounts(q, p.stack, now)
<1>1. /\ p.stack \in Seq(Frame) /\ p.open \in [Closure -> Nat]
  BY ProfileOf DEF Accounts
<1>2. \A fn \in Closure : Cardinality(Of(p.stack, fn)) \in Nat /\ Cardinality(Of(r, fn)) \in Nat
  BY <1>1, OfIsFinite DEF Accounts
<1>3. Opened(q.stack, p.stack, q.open)
  BY <1>1, <1>2 DEF Accounts, Opened
<1> QED
  BY <1>1, <1>3 DEF Accounts

LEMMA LaterAccounts ==
  ASSUME NEW p, NEW r, NEW now, Accounts(p, r, now), NEW later \in Nat, now <= later
  PROVE  Accounts(p, r, later)
<1>1. /\ p.stack \in Seq(Frame) /\ r \in Seq(Frame) /\ p.stats \in [Closure -> Stat] /\ now \in Nat
  BY ProfileOf DEF Accounts
<1>2. Entered(p.stack, p.stats, later)
  BY <1>1, FrameOf DEF Accounts, Entered
<1>3. Entered(r, p.stats, later)
  BY <1>1, FrameOf DEF Accounts, Entered
<1>4. IsFiniteSet(TicksOf(p.stats)) /\ Cardinality(TicksOf(p.stats)) \in Nat
  BY FS_CardinalityType DEF Accounts, Spent
<1>5. \A fn \in Closure : p.stats[fn].subticks \in Nat
  BY <1>1, StatOf
<1>6. Spent(p.stats, p.nested, later)
  BY <1>1, <1>4, <1>5 DEF Accounts, Spent
<1> QED
  BY <1>2, <1>3, <1>6 DEF Accounts

-----------------------------------------------------------------------------
(* Part 6: the invariant is inductive.                                     *)

LEMMA NowOf ==
  ASSUME Typed, NEW t \in Threads
  PROVE  /\ Now(t) \in Profile /\ Now(t).stack = frames[t] /\ Now(t).stats = stats
         /\ Now(t).open = nopencalls /\ Now(t).made = made /\ Now(t).on = enabled
         /\ Now(t).nested = nested
         /\ frames[t] \in Seq(Frame)
BY DEF Typed, Now, Profile

LEMMA Others ==
  ASSUME Parameters, NEW t \in Threads
  PROVE  /\ Other(t) \in Threads /\ Other(t) # t /\ Other(Other(t)) = t
         /\ t = main <=> Other(t) = co
BY DEF Parameters, Threads, Other

(* What a step makes of the running thread's profile.                      *)
LEMMA BecomesNow ==
  ASSUME Parameters, Typed, NEW t \in Threads, NEW q \in Profile, Becomes(t, q), enabled' = q.on
  PROVE  /\ frames' \in [Threads -> Seq(Frame)] /\ frames'[t] = q.stack
         /\ frames'[Other(t)] = frames[Other(t)]
         /\ stats' = q.stats /\ nopencalls' = q.open /\ made' = q.made
         /\ stats' \in [Closure -> Stat] /\ nopencalls' \in [Closure -> Nat] /\ made' \in Nat
         /\ enabled' \in BOOLEAN /\ nested' = q.nested /\ nested' \in BOOLEAN
         /\ q = [stack |-> frames'[t], stats |-> stats', open |-> nopencalls',
                 made |-> made', on |-> enabled', nested |-> nested']
<1>1. /\ q.stack \in Seq(Frame) /\ q.stats \in [Closure -> Stat] /\ q.open \in [Closure -> Nat]
      /\ q.made \in Nat /\ q.on \in BOOLEAN /\ q.nested \in BOOLEAN
      /\ q = [stack |-> q.stack, stats |-> q.stats, open |-> q.open, made |-> q.made, on |-> q.on,
               nested |-> q.nested]
  BY ProfileOf
<1>2. /\ frames' = [frames EXCEPT ![t] = q.stack] /\ stats' = q.stats /\ nopencalls' = q.open
      /\ made' = q.made /\ nested' = q.nested
  BY DEF Becomes
<1>3. frames \in [Threads -> Seq(Frame)] /\ Other(t) \in Threads /\ Other(t) # t
  BY Others DEF Typed
<1>4. frames' \in [Threads -> Seq(Frame)] /\ frames'[t] = q.stack /\ frames'[Other(t)] = frames[Other(t)]
  BY <1>1, <1>2, <1>3
<1> QED
  BY <1>1, <1>2, <1>4

(* The thread that ran goes on.                                            *)
LEMMA GoesOn ==
  ASSUME Parameters, Inv, NEW q, Accounts(q, frames[Other(running)], clock'), Uncommitted(q),
         Becomes(running, q), enabled' = q.on, running' = running, clock' \in 1 .. MaxClock
  PROVE  Inv'
<1>1. q \in Profile /\ Typed /\ running \in Threads
  BY DEF Accounts, Inv, Typed
<1>2. /\ frames' \in [Threads -> Seq(Frame)] /\ frames'[running] = q.stack
      /\ frames'[Other(running)] = frames[Other(running)]
      /\ stats' \in [Closure -> Stat] /\ nopencalls' \in [Closure -> Nat] /\ made' \in Nat
      /\ enabled' \in BOOLEAN /\ nested' \in BOOLEAN
      /\ q = [stack |-> frames'[running], stats |-> stats', open |-> nopencalls',
              made |-> made', on |-> enabled', nested |-> nested']
  BY <1>1, BecomesNow
<1>3. Now(running)' = q
  BY <1>2 DEF Now
<1>4. Typed'
  BY <1>1, <1>2 DEF Typed
<1>5. Resuming'
  <2>1. CASE running = co
    BY <1>1, <1>2, <2>1, Others DEF Inv, Resuming, Other, Parameters
  <2>2. CASE running # co
    BY <2>2 DEF Resuming
  <2> QED
    BY <2>1, <2>2
<1>6. frames[Other(running)]' = frames[Other(running)]
  BY <1>2 DEF Other
<1> QED
  BY <1>3, <1>4, <1>5, <1>6 DEF Inv

(* The coroutine ends, yields or dies: the thread that resumed it runs.    *)
LEMMA GoesBack ==
  ASSUME Parameters, Inv, NEW q, Accounts(q, frames[main], clock), running = co,
         Becomes(co, q), enabled' = q.on, running' = main, clock' = clock
  PROVE  Inv'
<1>1. q \in Profile /\ Typed /\ co \in Threads /\ main \in Threads /\ Other(co) = main /\ Other(main) = co
      /\ main # co
  BY DEF Accounts, Inv, Typed, Threads, Other, Parameters
<1>2. /\ frames' \in [Threads -> Seq(Frame)] /\ frames'[co] = q.stack
      /\ frames'[main] = frames[main]
      /\ stats' \in [Closure -> Stat] /\ nopencalls' \in [Closure -> Nat] /\ made' \in Nat
      /\ stats' = q.stats /\ nopencalls' = q.open /\ enabled' \in BOOLEAN
      /\ nested' = q.nested /\ nested' \in BOOLEAN
  BY <1>1, BecomesNow
<1>3. Typed' /\ Resuming'
  BY <1>1, <1>2 DEF Typed, Resuming
<1> DEFINE b == [stack |-> frames[main], stats |-> stats', open |-> nopencalls', made |-> made',
                 on |-> enabled', nested |-> nested']
<1>4. Now(running)' = b
  BY <1>2 DEF Now
<1>5. /\ b \in Profile /\ b.stack = frames[main] /\ b.stats = q.stats /\ b.open = q.open
      /\ b.nested = q.nested
  BY <1>1, <1>2 DEF Profile, Typed
<1> HIDE DEF b
<1>6. Accounts(b, q.stack, clock)
  BY <1>5, SwitchAccounts
<1>7. ~ TopIsLua(b)
  <2>1. frames[main] # <<>> /\ frames[main][Len(frames[main])].fn = resume
    BY DEF Inv, Resuming
  <2>2. frames[main] \in Seq(Frame)
    BY <1>1 DEF Typed
  <2>3. Last(frames[main]).fn = resume
    BY <2>1, <2>2, TopOf
  <2> QED
    BY <1>5, <2>3 DEF TopIsLua, Parameters
<1>8. Uncommitted(b)
  BY <1>6, <1>7, NothingOfC
<1>9. frames[Other(running)]' = q.stack /\ clock' = clock
  BY <1>1, <1>2 DEF Other
<1> QED
  BY <1>3, <1>4, <1>6, <1>8, <1>9 DEF Inv

LEMMA InvHolds ==
  ASSUME Inv
  PROVE  /\ Typed /\ running \in Threads /\ clock \in 1 .. MaxClock /\ clock \in Nat
         /\ Accounts(Now(running), frames[Other(running)], clock) /\ Uncommitted(Now(running))
         /\ Now(running) \in Profile /\ Now(running).stack = frames[running]
         /\ Now(running).made = made /\ Now(running).on = enabled /\ Now(running).nested = nested
         /\ frames[running] \in Seq(Frame)
<1>1. Typed /\ running \in Threads /\ clock \in 1 .. MaxClock
  BY DEF Inv, Typed
<1>2. /\ Now(running) \in Profile /\ Now(running).stack = frames[running]
      /\ Now(running).made = made /\ Now(running).on = enabled /\ Now(running).nested = nested
      /\ frames[running] \in Seq(Frame)
  BY <1>1, NowOf
<1>3. Accounts(Now(running), frames[Other(running)], clock) /\ Uncommitted(Now(running))
  BY DEF Inv
<1> QED
  BY <1>1, <1>2, <1>3 DEF Accounts

LEMMA InitInv ==
  ASSUME Parameters, Init
  PROVE  Inv
<1> DEFINE none == [on |-> FALSE, calls |-> 0, ownticks |-> 0, subticks |-> 0]
<1>0. /\ clock = 1 /\ running = main /\ enabled = FALSE /\ nested = FALSE /\ made = 0
      /\ stats = [fn \in Closure |-> none] /\ nopencalls = [fn \in Closure |-> 0]
      /\ frames = [t \in Threads |-> <<>>]
  BY DEF Init
<1>10. none \in Stat /\ none.on = FALSE /\ none.ownticks = 0 /\ none.subticks = 0
  BY DEF Stat
<1> HIDE DEF none
<1>1. Typed /\ running = main /\ Resuming
  <2>1. stats \in [Closure -> Stat] /\ nopencalls \in [Closure -> Nat]
    BY <1>0, <1>10
  <2>2. <<>> \in Seq(Frame)
    OBVIOUS
  <2>3. frames \in [Threads -> Seq(Frame)]
    BY <1>0, <2>2
  <2>4. clock \in 1 .. MaxClock
    BY <1>0 DEF Parameters
  <2>5. running \in Threads /\ enabled \in BOOLEAN /\ nested \in BOOLEAN /\ made \in Nat
    BY <1>0 DEF Threads
  <2>6. Typed
    BY <2>1, <2>3, <2>4, <2>5 DEF Typed
  <2>7. running = main /\ running # co
    BY <1>0 DEF Parameters
  <2> QED
    BY <2>6, <2>7 DEF Resuming
<1>2. /\ Now(main) \in Profile /\ Now(main).stack = <<>> /\ frames[Other(main)] = <<>>
      /\ Now(main).stats = stats /\ Now(main).open = nopencalls /\ Now(main).nested = nested
      /\ frames[Other(main)] \in Seq(Frame)
  BY <1>1, NowOf, Others DEF Init, Typed, Threads
<1>3. \A fn : Of(<<>>, fn) = {}
  BY DEF Of
<1>4. Cardinality({}) = 0
  BY FS_EmptySet
<1>5. Opened(<<>>, <<>>, nopencalls)
  <2>1. \A fn \in Closure : nopencalls[fn] = 0
    BY <1>0
  <2>2. \A fn : Cardinality(Of(<<>>, fn)) = 0
    BY <1>3, <1>4
  <2>3. 0 + 0 <= 0
    OBVIOUS
  <2> QED
    BY <2>1, <2>2, <2>3 DEF Opened
<1>6. Entered(<<>>, stats, clock)
  BY DEF Entered
<1>7. Spent(stats, nested, clock)
  <2>1. TicksOf(stats) = {} /\ IsFiniteSet({}) /\ Cardinality({}) = 0
    BY <1>0, <1>10, NoTicks DEF Closure
  <2>2. \A fn \in Closure : stats[fn].subticks = 0 /\ ~ stats[fn].on
    BY <1>0, <1>10
  <2>3. 0 < clock
    BY <1>0
  <2>4. IsFiniteSet(TicksOf(stats)) /\ Cardinality(TicksOf(stats)) = 0
    BY <2>1
  <2>5. IsFiniteSet(TicksOf(stats)) /\ Cardinality(TicksOf(stats)) < clock
    BY <2>3, <2>4
  <2>6. \A fn \in Closure : stats[fn].subticks < clock /\ (stats[fn].on => fn \in LuaFn)
    BY <2>2, <2>3
  <2> QED
    BY <2>5, <2>6 DEF Spent
<1>11. Plain(<<>>)
  BY DEF Plain
<1>8. Accounts(Now(running), frames[Other(running)], clock)
  BY <1>1, <1>2, <1>5, <1>6, <1>7, <1>11 DEF Accounts, Init
<1>9. Uncommitted(Now(running))
  BY <1>1, <1>2 DEF Uncommitted, Profiled
<1> QED
  BY <1>1, <1>8, <1>9 DEF Inv

LEMMA TickInv ==
  ASSUME Parameters, Inv, Tick
  PROVE  Inv'
<1>1. /\ Typed /\ running \in Threads /\ clock \in 1 .. MaxClock
      /\ Accounts(Now(running), frames[Other(running)], clock) /\ Uncommitted(Now(running))
  BY InvHolds
<1>2. clock' \in 1 .. MaxClock /\ clock' \in Nat /\ clock <= clock'
  BY <1>1 DEF Tick, Parameters
<1>3. Accounts(Now(running), frames[Other(running)], clock')
  BY <1>1, <1>2, LaterAccounts
<1>4. Typed' /\ Resuming'
  BY <1>1, <1>2 DEF Tick, Typed, Inv, Resuming
<1>5. Now(running)' = Now(running) /\ frames[Other(running)]' = frames[Other(running)]
  BY DEF Tick, Now, Other
<1> QED
  BY <1>1, <1>3, <1>4, <1>5 DEF Inv

LEMMA CallInv ==
  ASSUME Parameters, Inv, NEW fn \in LuaFn \cup {pcall}, NEW direct \in BOOLEAN, Call(fn, direct)
  PROVE  Inv'
<1> DEFINE p == Now(running)
           r == frames[Other(running)]
           q == Called(p, fn, direct, clock)
<1>1. Accounts(p, r, clock) /\ Uncommitted(p) /\ p.on = enabled /\ clock \in 1 .. MaxClock
  BY InvHolds
<1>2. Becomes(running, q) /\ clock' = clock /\ enabled' = enabled /\ running' = running
  BY DEF Call
<1>3. fn \in Closure /\ q = Called(p, fn, direct, clock)
  BY DEF Closure
<1> HIDE DEF p, q
<1>4. Accounts(q, r, clock) /\ Uncommitted(q) /\ q.on = p.on
  BY <1>1, <1>3, CalledAccounts
<1> QED
  BY <1>1, <1>2, <1>4, GoesOn

LEMMA TailCallInv ==
  ASSUME Parameters, Inv, NEW fn \in LuaFn, TailCall(fn)
  PROVE  Inv'
<1> DEFINE p == Now(running)
           r == frames[Other(running)]
           p1 == Leave(p, clock)
           p2 == Pop(p1)
           p3 == Push(p2, fn, Last(p1.stack).direct)
           q == Enter(p3, clock)
<1>1. /\ Accounts(p, r, clock) /\ Uncommitted(p) /\ p.on = enabled /\ clock \in 1 .. MaxClock
      /\ p.stack = frames[running] /\ frames[running] \in Seq(Frame)
  BY InvHolds
<1>2. Accounts(p1, r, clock) /\ p1.on = p.on /\ Len(p1.stack) = Len(p.stack)
  BY <1>1, LeaveAccounts
<1>3. p1.stack # <<>>
  <2>1. Len(p.stack) # 0
    BY <1>1 DEF TailCall, TopIsLua
  <2> QED
    BY <1>2, <2>1
<1>8. Last(p1.stack).direct \in BOOLEAN
  <2>1. p1.stack \in Seq(Frame)
    BY <1>2, ProfileOf DEF Accounts
  <2> HIDE DEF p1
  <2> QED
    BY <1>3, <2>1, TopOf, FrameOf
<1>4. Accounts(p2, r, clock) /\ p2.on = p1.on
  BY <1>2, <1>3, PopAccounts
<1>5. Accounts(p3, r, clock) /\ p3.on = p2.on
  <2> DEFINE d == Last(p1.stack).direct
  <2>1. d \in BOOLEAN /\ fn \in Closure
    BY <1>8 DEF Closure
  <2> HIDE DEF d, p2
  <2>2. Accounts(Push(p2, fn, d), r, clock) /\ Push(p2, fn, d).on = p2.on
    BY <1>4, <2>1, PushAccounts
  <2> QED
    BY <2>2 DEF d
<1>6. Accounts(q, r, clock) /\ Uncommitted(q) /\ q.on = p3.on
  BY <1>5, EnterAccounts
<1>7. Becomes(running, q) /\ clock' = clock /\ enabled' = enabled /\ running' = running
  BY DEF TailCall, ReplaceTop
<1> HIDE DEF p, p1, p2, p3, q
<1> QED
  BY <1>1, <1>2, <1>4, <1>5, <1>6, <1>7, GoesOn

LEMMA ReturnInv ==
  ASSUME Parameters, Inv, Return
  PROVE  Inv'
<1> DEFINE p == Now(running)
           r == frames[Other(running)]
           q == Returned(p, clock)
<1>1. /\ Accounts(p, r, clock) /\ Uncommitted(p) /\ p.on = enabled /\ clock \in 1 .. MaxClock
      /\ p.stack = frames[running] /\ running \in Threads
  BY InvHolds
<1>2. p.stack # <<>>
  BY <1>1 DEF Return
<1>3. /\ Becomes(running, q) /\ clock' = clock /\ enabled' = enabled
      /\ running' = running \/ running' = main
  BY DEF Return
<1>4. q = Returned(p, clock)
  OBVIOUS
<1> HIDE DEF p, q
<1>5. Accounts(q, r, clock) /\ Uncommitted(q) /\ q.on = p.on
  BY <1>1, <1>2, <1>4, ReturnedAccounts
<1>6. CASE running' = running
  BY <1>1, <1>3, <1>5, <1>6, GoesOn
<1>7. CASE running = co /\ running' = main
  <2>1. r = frames[main]
    BY <1>7 DEF Other, Parameters
  <2> HIDE DEF r
  <2> QED
    BY <1>1, <1>3, <1>5, <1>7, <2>1, GoesBack
<1> QED
  BY <1>1, <1>3, <1>6, <1>7 DEF Threads

(* A finite set of numbers has a greatest one.                             *)
LEMMA GreatestNumber ==
  ASSUME NEW S, S \subseteq Int, IsFiniteSet(S), S # {}
  PROVE  \E n \in S : \A m \in S : n >= m
<1> DEFINE above(n) == {m \in S : m > n}
           aboves == {above(n) : n \in S}
<1>1. aboves \subseteq SUBSET S /\ aboves # {}
  OBVIOUS
<1>2. IsWellFoundedOn(StrictSubsetOrdering(S), SUBSET S)
  <2>1. FiniteSubsetsOf(S) = SUBSET S
    BY FS_FiniteSubsetsOfFinite
  <2>2. IsWellFoundedOn(StrictSubsetOrdering(S), FiniteSubsetsOf(S))
    BY FS_StrictSubsetOrderingWellFounded
  <2> QED
    BY <2>1, <2>2
<1> HIDE DEF aboves
<1>3. PICK A \in aboves : \A B \in aboves : <<B, A>> \notin StrictSubsetOrdering(S)
  BY <1>1, <1>2, WFMin
<1>4. PICK n \in S : A = above(n)
  BY DEF aboves
<1>5. ASSUME NEW m \in S, ~ n >= m PROVE FALSE
  <2>0. m > n /\ ~ m > m /\ \A k \in S : k > m => k > n
    BY <1>5
  <2>1. above(m) \subseteq A /\ m \in A /\ m \notin above(m)
    BY <1>4, <2>0, Zenon
  <2>2. above(m) \in aboves
    BY DEF aboves
  <2> HIDE DEF above
  <2>3. <<above(m), A>> \in StrictSubsetOrdering(S)
    BY <1>1, <2>1, <2>2 DEF StrictSubsetOrdering
  <2> QED
    BY <1>3, <2>2, <2>3
<1> QED
  BY <1>5

(* The innermost pcall.                                                    *)
LEMMA CaughtIs ==
  ASSUME Typed, NEW t \in Threads
  PROVE  /\ Caught(t) \in 0 .. Len(frames[t])
         /\ Caught(t) # 0 => frames[t][Caught(t)].fn = pcall
<1> DEFINE S == {0} \cup {n \in DOMAIN frames[t] : frames[t][n].fn = pcall}
<1>1. frames[t] \in Seq(Frame)
  BY DEF Typed
<1>2. DOMAIN frames[t] = 1 .. Len(frames[t]) /\ Len(frames[t]) \in Nat
  BY <1>1
<1>3. S \subseteq 0 .. Len(frames[t]) /\ 0 \in S
  BY <1>2
<1>4. IsFiniteSet(0 .. Len(frames[t]))
  BY <1>2, FS_Interval
<1>5. IsFiniteSet(S)
  BY <1>3, <1>4, FS_Subset
<1> HIDE DEF S
<1>6. S \subseteq Int /\ S # {}
  BY <1>2, <1>3
<1>7. \E n \in S : \A m \in S : n >= m
  BY <1>5, <1>6, GreatestNumber
<1>8. Max(S) \in S
  BY <1>7 DEF Max
<1>9. Caught(t) = Max(S)
  BY DEF Caught, S
<1>10. Max(S) # 0 => frames[t][Max(S)].fn = pcall
  BY <1>8 DEF S
<1> QED
  BY <1>3, <1>8, <1>9, <1>10

LEMMA ErrorInv ==
  ASSUME Parameters, Inv, Error
  PROVE  Inv'
<1> DEFINE p == Now(running)
           r == frames[Other(running)]
           k == Caught(running)
           q == Unwind(p, k)
<1>1. /\ Accounts(p, r, clock) /\ p.on = enabled /\ clock \in 1 .. MaxClock
      /\ p.stack = frames[running] /\ frames[running] \in Seq(Frame)
      /\ Typed /\ running \in Threads
  BY InvHolds
<1>2. k \in 0 .. Len(p.stack)
  BY <1>1, CaughtIs
<1>3. /\ Becomes(running, q) /\ clock' = clock /\ enabled' = enabled
      /\ running' = IF k = 0 THEN main ELSE running
  BY DEF Error
<1> HIDE DEF p, r
<1>4. /\ Accounts(q, r, clock) /\ q.on = p.on
      /\ Len(q.stack) = k /\ \A n \in 1 .. k : q.stack[n] = p.stack[n]
  <2> HIDE DEF k
  <2> QED
    BY <1>1, <1>2, UnwindAccounts
<1>5. ~ TopIsLua(q)
  <2>1. q.stack # <<>> => Last(q.stack) = p.stack[k] /\ k \in DOMAIN p.stack /\ k # 0
    <3>1. q.stack \in Seq(Frame)
      BY <1>4, ProfileOf DEF Accounts
    <3> HIDE DEF q, k
    <3>2. ASSUME q.stack # <<>> PROVE Len(q.stack) \in Nat \ {0} /\ Last(q.stack) = q.stack[Len(q.stack)]
      BY <3>1, <3>2, TopOf
    <3>3. DOMAIN p.stack = 1 .. Len(p.stack)
      BY <1>1
    <3> QED
      BY <1>2, <1>4, <3>2, <3>3
  <2>2. k # 0 => p.stack[k].fn = pcall
    BY <1>1, CaughtIs
  <2> HIDE DEF k, q
  <2> QED
    BY <2>1, <2>2 DEF TopIsLua, Parameters
<1>6. Uncommitted(q)
  BY <1>4, <1>5, NothingOfC
<1> HIDE DEF k, q
<1>7. CASE running' = running
  <2> QED
    BY <1>1, <1>3, <1>4, <1>6, <1>7, GoesOn DEF r
<1>8. CASE running = co /\ running' = main
  <2>1. r = frames[main]
    BY <1>8 DEF Other, Parameters, r
  <2> QED
    BY <1>1, <1>3, <1>4, <1>8, <2>1, GoesBack
<1> QED
  BY <1>1, <1>3, <1>7, <1>8 DEF Threads

LEMMA YieldInv ==
  ASSUME Parameters, Inv, Yield
  PROVE  Inv'
<1> DEFINE p == Now(co)
           c == Called(p, yield, FALSE, clock)
           q == Leave(c, clock)
<1>1. running = co /\ Other(running) = main
  BY DEF Yield, Other, Parameters
<1>2. /\ Accounts(p, frames[main], clock) /\ Uncommitted(p) /\ p.on = enabled
  BY <1>1, InvHolds
<1>3. Becomes(co, q) /\ clock' = clock /\ enabled' = enabled /\ running' = main
  BY DEF Yield
<1> DEFINE no == FALSE
<1>4. yield \in Closure /\ no \in BOOLEAN /\ c = Called(p, yield, no, clock)
  BY DEF Closure
<1> HIDE DEF p, c, no
<1>5. Accounts(c, frames[main], clock) /\ Uncommitted(c) /\ c.on = p.on
  BY <1>2, <1>4, CalledAccounts
<1>6. Accounts(q, frames[main], clock) /\ q.on = c.on
  BY <1>5, LeaveAccounts
<1> HIDE DEF q
<1> QED
  BY <1>1, <1>2, <1>3, <1>5, <1>6, GoesBack

LEMMA ResumeInv ==
  ASSUME Parameters, Inv, NEW body \in LuaFn, NEW direct \in BOOLEAN, Resume(body, direct)
  PROVE  Inv'
<1> DEFINE m == Now(main)
           caller == Called(m, resume, direct, clock)
           p == [caller EXCEPT !.stack = frames[co]]
           thread == IF frames[co] = <<>> THEN Enter(Push(p, body, FALSE), clock)
                     ELSE Enter(Resumed(Pop(p), clock), clock)
<1>1. /\ running = main /\ Other(running) = co /\ Other(co) = main /\ co # main /\ co \in Threads
      /\ main \in Threads
  BY DEF Resume, Other, Parameters, Threads
<1>2. /\ Accounts(m, frames[co], clock) /\ Uncommitted(m) /\ Typed
      /\ m.on = enabled /\ clock \in 1 .. MaxClock
  BY <1>1, InvHolds
<1>5. /\ Accounts(caller, frames[co], clock) /\ caller.on = m.on /\ caller.stack # <<>>
      /\ caller.stack[Len(caller.stack)].fn = resume
  <2>1. caller = Called(m, resume, direct, clock) /\ resume \in Closure
    BY DEF Closure
  <2> HIDE DEF m, caller, p, thread
  <2> QED
    BY <1>2, <2>1, CalledAccounts
<1>6. /\ frames' = [frames EXCEPT ![main] = caller.stack, ![co] = thread.stack]
      /\ stats' = thread.stats /\ nopencalls' = thread.open /\ made' = thread.made
      /\ running' = co /\ clock' = clock /\ enabled' = enabled /\ nested' = thread.nested
  BY DEF Resume
<1>7. caller.stack \in Seq(Frame)
  BY <1>5, ProfileOf DEF Accounts
<1>9. /\ p \in Profile /\ p.stack = frames[co] /\ p.stats = caller.stats /\ p.open = caller.open
      /\ p.on = enabled /\ p.nested = caller.nested
  <2>1. /\ caller.stats \in [Closure -> Stat] /\ caller.open \in [Closure -> Nat]
        /\ caller.made \in Nat /\ caller.on \in BOOLEAN /\ caller.nested \in BOOLEAN
        /\ caller = [stack |-> caller.stack, stats |-> caller.stats, open |-> caller.open,
                     made |-> caller.made, on |-> caller.on, nested |-> caller.nested]
    BY <1>5, ProfileOf DEF Accounts
  <2>2. frames[co] \in Seq(Frame)
    BY <1>1, <1>2 DEF Typed
  <2>3. caller.on = enabled
    BY <1>2, <1>5
  <2>4. p = [caller EXCEPT !.stack = frames[co]]
    OBVIOUS
  <2> HIDE DEF caller, p, thread, m
  <2>5. p = [stack |-> frames[co], stats |-> caller.stats, open |-> caller.open,
             made |-> caller.made, on |-> caller.on, nested |-> caller.nested]
    BY <2>1, <2>4
  <2> QED
    BY <2>1, <2>2, <2>3, <2>5 DEF Profile
<1> HIDE DEF m, caller, p
<1>10. Accounts(p, caller.stack, clock)
  BY <1>5, <1>9, SwitchAccounts
<1>11. Accounts(thread, caller.stack, clock) /\ Uncommitted(thread) /\ thread.on = enabled
  <2>1. CASE frames[co] = <<>>
    <3> DEFINE a == Push(p, body, FALSE)
    <3>1. Accounts(a, caller.stack, clock) /\ a.on = p.on
      <4> DEFINE no == FALSE
      <4>1. body \in Closure /\ no \in BOOLEAN
        BY DEF Closure
      <4> HIDE DEF no
      <4>2. /\ Accounts(Push(p, body, no), caller.stack, clock)
            /\ Push(p, body, no).on = p.on
        BY <1>10, <4>1, PushAccounts
      <4> QED
        BY <4>2 DEF no
    <3> HIDE DEF a
    <3>2. Accounts(Enter(a, clock), caller.stack, clock) /\ Uncommitted(Enter(a, clock))
          /\ Enter(a, clock).on = a.on
      BY <3>1, EnterAccounts
    <3> QED
      BY <1>9, <2>1, <3>1, <3>2 DEF a
  <2>2. CASE frames[co] # <<>>
    <3> DEFINE a == Pop(p)
               b == Resumed(a, clock)
    <3>1. Accounts(a, caller.stack, clock) /\ a.on = p.on
      BY <1>9, <1>10, <2>2, PopAccounts
    <3> HIDE DEF a
    <3>2. Accounts(b, caller.stack, clock) /\ b.on = a.on
      BY <3>1, ResumedAccounts
    <3> HIDE DEF b
    <3>3. Accounts(Enter(b, clock), caller.stack, clock) /\ Uncommitted(Enter(b, clock))
          /\ Enter(b, clock).on = b.on
      BY <3>2, EnterAccounts
    <3> QED
      BY <1>9, <2>2, <3>1, <3>2, <3>3 DEF a, b
  <2> QED
    BY <2>1, <2>2
<1> HIDE DEF thread
<1>12. /\ thread.stack \in Seq(Frame) /\ thread.stats \in [Closure -> Stat]
       /\ thread.open \in [Closure -> Nat] /\ thread.made \in Nat /\ thread.on \in BOOLEAN
       /\ thread.nested \in BOOLEAN
       /\ thread = [stack |-> thread.stack, stats |-> thread.stats, open |-> thread.open,
                    made |-> thread.made, on |-> thread.on, nested |-> thread.nested]
  BY <1>11, ProfileOf DEF Accounts
<1>13. /\ frames' \in [Threads -> Seq(Frame)] /\ frames'[main] = caller.stack
       /\ frames'[co] = thread.stack
  BY <1>1, <1>2, <1>6, <1>7, <1>12 DEF Typed
<1>14. Typed'
  BY <1>1, <1>2, <1>6, <1>11, <1>12, <1>13 DEF Typed
<1>15. Resuming'
  BY <1>5, <1>6, <1>13 DEF Resuming
<1>16. Now(running)' = thread
  BY <1>6, <1>11, <1>12, <1>13 DEF Now
<1>17. frames[Other(running)]' = caller.stack
  BY <1>1, <1>6, <1>13 DEF Other
<1> QED
  BY <1>6, <1>11, <1>14, <1>15, <1>16, <1>17 DEF Inv

LEMMA AbandonInv ==
  ASSUME Parameters, Inv, Abandon
  PROVE  Inv'
<1>1. /\ running = main /\ Other(running) = co /\ main \in Threads /\ co \in Threads /\ main # co
  BY DEF Abandon, Other, Parameters, Threads
<1>2. /\ Accounts(Now(main), frames[co], clock) /\ Uncommitted(Now(main)) /\ Typed
  BY <1>1, InvHolds
<1>3. /\ frames' \in [Threads -> Seq(Frame)] /\ frames'[main] = frames[main] /\ frames'[co] = <<>>
  <2>1. <<>> \in Seq(Frame)
    OBVIOUS
  <2> QED
    BY <1>1, <1>2, <2>1 DEF Abandon, Typed
<1>4. Typed' /\ Resuming'
  BY <1>1, <1>2, <1>3 DEF Abandon, Typed, Resuming
<1>5. Now(running)' = Now(main)
  BY <1>1, <1>3 DEF Abandon, Now
<1>6. Accounts(Now(main), <<>>, clock)
  <2>1. Opened(Now(main).stack, <<>>, Now(main).open)
    <3>1. Cardinality(Of(<<>>, 0)) = 0 /\ \A fn : Of(<<>>, fn) = Of(<<>>, 0)
      <4>1. \A fn : Of(<<>>, fn) = {}
        BY DEF Of
      <4> QED
        BY <4>1, FS_EmptySet
    <3>2. ASSUME NEW fn \in Closure
          PROVE  Cardinality(Of(Now(main).stack, fn)) + Cardinality(Of(<<>>, fn)) <= Now(main).open[fn]
      <4>1. Cardinality(Of(Now(main).stack, fn)) + Cardinality(Of(frames[co], fn)) <= Now(main).open[fn]
        BY <1>2 DEF Accounts, Opened
      <4>2. /\ Now(main).stack \in Seq(Frame) /\ frames[co] \in Seq(Frame)
            /\ Now(main).open[fn] \in Nat
        BY <1>2, ProfileOf DEF Accounts
      <4>3. Cardinality(Of(Now(main).stack, fn)) \in Nat /\ Cardinality(Of(frames[co], fn)) \in Nat
        BY <4>2, OfIsFinite
      <4> QED
        BY <3>1, <4>1, <4>2, <4>3
    <3> QED
      BY <3>2 DEF Opened
  <2>2. <<>> \in Seq(Frame) /\ Entered(<<>>, Now(main).stats, clock) /\ Plain(<<>>)
    BY DEF Entered, Plain
  <2> QED
    BY <1>2, <2>1, <2>2 DEF Accounts
<1>7. frames[Other(running)]' = <<>> /\ clock' = clock
  BY <1>1, <1>3 DEF Abandon, Other
<1> QED
  BY <1>2, <1>4, <1>5, <1>6, <1>7 DEF Inv

LEMMA HookInv ==
  ASSUME Parameters, Inv, Hook
  PROVE  Inv'
<1> DEFINE p == Now(running)
           r == frames[Other(running)]
           p1 == Leave(p, clock)
           q == Enter(p1, clock')
<1>1. Accounts(p, r, clock) /\ Uncommitted(p) /\ p.on = enabled /\ clock \in 1 .. MaxClock
  BY InvHolds
<1>2. clock' = clock + 1 /\ clock < MaxClock
  BY DEF Hook
<1>3. clock' \in 1 .. MaxClock /\ clock' \in Nat /\ clock <= clock'
  BY <1>1, <1>2 DEF Parameters
<1>4. Accounts(p1, r, clock) /\ p1.on = p.on
  BY <1>1, LeaveAccounts
<1>5. Becomes(running, q) /\ enabled' = enabled /\ running' = running
  BY <1>2 DEF Hook
<1> HIDE DEF p, p1
<1>6. Accounts(p1, r, clock')
  BY <1>3, <1>4, LaterAccounts
<1>7. Accounts(q, r, clock') /\ Uncommitted(q) /\ q.on = p1.on
  BY <1>6, EnterAccounts
<1> HIDE DEF q
<1> QED
  BY <1>1, <1>3, <1>4, <1>5, <1>7, GoesOn

(* The statistics are written anew, none of them later than it was.        *)
LEMMA RewriteAccounts ==
  ASSUME Parameters, NEW p, NEW r, NEW now, Accounts(p, r, now),
         NEW q, NEW st \in [Closure -> Stat], NEW on \in BOOLEAN,
         NEW nest \in BOOLEAN,
         q = [stack |-> p.stack, stats |-> st, open |-> p.open, made |-> p.made, on |-> on,
              nested |-> nest],
         \A g \in Closure : st[g].subticks <= p.stats[g].subticks /\ (st[g].on => g \in LuaFn),
         \/ nest = p.nested /\ TicksOf(st) = TicksOf(p.stats)
         \/ (~ nest => Plain(p.stack) /\ Plain(r)) /\ TicksOf(st) = {}
  PROVE  Accounts(q, r, now)
<1>1. /\ p \in Profile /\ r \in Seq(Frame) /\ now \in Nat
      /\ Opened(p.stack, r, p.open) /\ Entered(p.stack, p.stats, now) /\ Entered(r, p.stats, now)
      /\ Spent(p.stats, p.nested, now) /\ (~ p.nested => Plain(p.stack) /\ Plain(r))
  BY DEF Accounts
<1>2. /\ p.stack \in Seq(Frame) /\ p.stats \in [Closure -> Stat] /\ p.open \in [Closure -> Nat]
      /\ p.made \in Nat
  BY <1>1, ProfileOf
<1>3. /\ q \in Profile /\ q.stack = p.stack /\ q.stats = st /\ q.open = p.open
      /\ q.nested = nest
  BY <1>2 DEF Profile
<1>4. \A g \in Closure : p.stats[g].subticks \in Nat /\ st[g].subticks \in Nat
  BY <1>2, StatOf
<1>5. IsFiniteSet(TicksOf(st)) /\ (~ nest => Cardinality(TicksOf(st)) < now)
  <2>1. IsFiniteSet({}) /\ Cardinality({}) = 0
    BY FS_EmptySet
  <2>2. IsFiniteSet(TicksOf(p.stats)) /\ (~ p.nested => Cardinality(TicksOf(p.stats)) < now)
    BY <1>1 DEF Spent
  <2>3. 0 < now
    <3>1. pcall \in Closure
      BY DEF Closure
    <3>2. p.stats[pcall].subticks < now /\ p.stats[pcall].subticks \in Nat
      BY <1>1, <1>4, <3>1 DEF Spent
    <3> QED
      BY <1>1, <3>2
  <2>4. CASE nest = p.nested /\ TicksOf(st) = TicksOf(p.stats)
    BY <2>2, <2>4
  <2>5. CASE TicksOf(st) = {}
    BY <2>1, <2>3, <2>5
  <2> QED
    BY <2>4, <2>5
<1>6. ASSUME NEW g \in Closure PROVE st[g].subticks < now /\ (st[g].on => g \in LuaFn)
  <2>1. p.stats[g].subticks < now /\ st[g].subticks <= p.stats[g].subticks
    BY <1>1 DEF Spent
  <2> QED
    BY <1>1, <1>4, <2>1
<1>7. Spent(st, nest, now)
  BY <1>5, <1>6 DEF Spent
<1>8. ASSUME NEW s \in Seq(Frame), Entered(s, p.stats, now) PROVE Entered(s, st, now)
  <2>1. ASSUME NEW n \in DOMAIN s
        PROVE  /\ s[n].entryticks <= now /\ s[n].startticks <= now
               /\ s[n].entryticks # 0 => st[s[n].fn].subticks < s[n].entryticks
    <3>1. s[n].fn \in Closure /\ s[n].entryticks \in Nat
      BY FrameOf
    <3>2. s[n].entryticks # 0 => p.stats[s[n].fn].subticks < s[n].entryticks
      BY <1>8 DEF Entered
    <3>3. st[s[n].fn].subticks <= p.stats[s[n].fn].subticks
      BY <3>1
    <3> QED
      BY <1>4, <1>8, <3>1, <3>2, <3>3 DEF Entered
  <2> QED
    BY <2>1 DEF Entered
<1>9. ~ nest => Plain(p.stack) /\ Plain(r)
  BY <1>1
<1> QED
  BY <1>1, <1>2, <1>3, <1>7, <1>8, <1>9 DEF Accounts

LEMMA SetProfilingEnabledInv ==
  ASSUME Parameters, Inv, NEW on \in BOOLEAN, SetProfilingEnabled(on)
  PROVE  Inv'
<1> DEFINE r == frames[Other(running)]
           p == Leave(Now(running), clock)
           st == [fn \in Closure |->
                    [p.stats[fn] EXCEPT !.on = p.stats[fn].on \/ (on /\ ~enabled /\ fn \in LuaFn)]]
           q == [p EXCEPT !.on = on, !.stats = st]
           e == Enter(q, clock)
<1>1. /\ Accounts(Now(running), r, clock) /\ Uncommitted(Now(running))
      /\ clock \in 1 .. MaxClock
  BY InvHolds
<1>2. Accounts(p, r, clock)
  BY <1>1, LeaveAccounts
<1>3. /\ Becomes(running, e) /\ enabled' = on /\ clock' = clock /\ running' = running
  BY DEF SetProfilingEnabled
<1>4. /\ p \in Profile /\ p.stats \in [Closure -> Stat]
      /\ p.nested \in BOOLEAN
      /\ p = [stack |-> p.stack, stats |-> p.stats, open |-> p.open, made |-> p.made, on |-> p.on,
              nested |-> p.nested]
  BY <1>2, ProfileOf DEF Accounts
<1> HIDE DEF p
<1>5. ASSUME NEW g \in Closure
      PROVE  /\ st[g] \in Stat /\ st[g].subticks = p.stats[g].subticks
             /\ st[g].ownticks = p.stats[g].ownticks
             /\ st[g].on => p.stats[g].on \/ g \in LuaFn
  <2> DEFINE c == p.stats[g]
             now == c.on \/ (on /\ ~enabled /\ g \in LuaFn)
  <2>1. /\ c \in Stat /\ c.on \in BOOLEAN /\ c.calls \in Nat /\ c.ownticks \in Nat /\ c.subticks \in Nat
        /\ c = [on |-> c.on, calls |-> c.calls, ownticks |-> c.ownticks, subticks |-> c.subticks]
    BY <1>4, StatOf DEF Stat
  <2>2. st[g] = [c EXCEPT !.on = now]
    OBVIOUS
  <2>3. now \in BOOLEAN /\ (now => c.on \/ g \in LuaFn)
    BY Zenon
  <2> HIDE DEF now, c, st
  <2>4. st[g] = [on |-> now, calls |-> c.calls, ownticks |-> c.ownticks, subticks |-> c.subticks]
    BY <2>1, <2>2
  <2>5. /\ st[g] \in Stat /\ st[g].on = now /\ st[g].ownticks = c.ownticks
        /\ st[g].subticks = c.subticks
    BY <2>1, <2>3, <2>4 DEF Stat
  <2> QED
    BY <2>3, <2>5 DEF c
<1>6. st \in [Closure -> Stat]
  BY <1>5
<1> HIDE DEF st
<1>7. TicksOf(st) = TicksOf(p.stats)
  BY <1>5, TicksSame DEF Closure
<1>8. q = [stack |-> p.stack, stats |-> st, open |-> p.open, made |-> p.made, on |-> on,
           nested |-> p.nested]
  <2>1. q = [p EXCEPT !.on = on, !.stats = st]
    OBVIOUS
  <2> HIDE DEF q
  <2> QED
    BY <1>4, <2>1
<1> HIDE DEF q
<1>9. \A g \in Closure : st[g].subticks <= p.stats[g].subticks /\ (st[g].on => g \in LuaFn)
  <2>1. \A g \in Closure : p.stats[g].subticks \in Nat /\ (p.stats[g].on => g \in LuaFn)
    BY <1>2, <1>4, StatOf DEF Accounts, Spent
  <2> QED
    BY <1>5, <2>1
<1>10. Accounts(q, r, clock) /\ q.on = on
  BY <1>2, <1>4, <1>6, <1>7, <1>8, <1>9, RewriteAccounts
<1>11. Accounts(e, r, clock) /\ Uncommitted(e) /\ e.on = q.on
  BY <1>10, EnterAccounts
<1> HIDE DEF e
<1> QED
  BY <1>1, <1>3, <1>10, <1>11, GoesOn

LEMMA ResetStatsInv ==
  ASSUME Parameters, Inv, ResetStats
  PROVE  Inv'
<1> DEFINE r == frames[Other(running)]
           p == Leave(Now(running), clock)
           st == [fn \in Closure |->
                    [p.stats[fn] EXCEPT !.calls = 0, !.ownticks = 0, !.subticks = 0]]
           nest == \E t \in Threads : SomeDirect(frames[t])
           q == [p EXCEPT !.stats = st, !.nested = nest]
           e == Enter(q, clock)
<1>1. /\ Accounts(Now(running), r, clock) /\ Uncommitted(Now(running))
      /\ clock \in 1 .. MaxClock /\ Now(running).on = enabled /\ running \in Threads
      /\ Now(running).stack = frames[running]
  BY InvHolds
<1>2. /\ Accounts(p, r, clock) /\ p.on = enabled /\ Len(p.stack) = Len(frames[running])
      /\ \A n \in DOMAIN frames[running] : p.stack[n].direct = frames[running][n].direct
  <2> DEFINE now == Now(running)
  <2>1. Accounts(now, r, clock) /\ Uncommitted(now) /\ now.on = enabled /\ now.stack = frames[running]
    BY <1>1
  <2>2. p = Leave(now, clock)
    OBVIOUS
  <2> HIDE DEF now, p, r
  <2>3. /\ Accounts(p, r, clock) /\ p.on = now.on /\ Len(p.stack) = Len(now.stack)
        /\ \A n \in DOMAIN now.stack : p.stack[n].direct = now.stack[n].direct
    BY <2>1, <2>2, LeaveAccounts
  <2> QED
    BY <2>1, <2>3
<1>3. /\ Becomes(running, e) /\ enabled' = enabled /\ clock' = clock /\ running' = running
  BY DEF ResetStats
<1>12. Other(running) \in Threads
  BY <1>1, Others
<1>13. p.stack \in Seq(Frame) /\ frames[running] \in Seq(Frame)
  BY <1>1, <1>2, ProfileOf DEF Accounts
<1>4. /\ p \in Profile /\ p.stats \in [Closure -> Stat] /\ p.on \in BOOLEAN
      /\ p.nested \in BOOLEAN
      /\ p = [stack |-> p.stack, stats |-> p.stats, open |-> p.open, made |-> p.made, on |-> p.on,
              nested |-> p.nested]
  BY <1>2, ProfileOf DEF Accounts
<1> HIDE DEF p
<1>5. ASSUME NEW g \in Closure
      PROVE  st[g] \in Stat /\ st[g].subticks = 0 /\ st[g].ownticks = 0 /\ st[g].on = p.stats[g].on
  <2> DEFINE c == p.stats[g]
  <2>1. /\ c \in Stat /\ c.on \in BOOLEAN
        /\ c = [on |-> c.on, calls |-> c.calls, ownticks |-> c.ownticks, subticks |-> c.subticks]
    BY <1>4, StatOf DEF Stat
  <2>2. st[g] = [c EXCEPT !.calls = 0, !.ownticks = 0, !.subticks = 0]
    OBVIOUS
  <2> HIDE DEF c, st
  <2>3. st[g] = [on |-> c.on, calls |-> 0, ownticks |-> 0, subticks |-> 0]
    BY <2>1, <2>2
  <2>4. st[g] \in Stat /\ st[g].subticks = 0 /\ st[g].ownticks = 0 /\ st[g].on = c.on
    BY <2>1, <2>3 DEF Stat
  <2> QED
    BY <2>4 DEF c
<1>6. st \in [Closure -> Stat]
  BY <1>5
<1> HIDE DEF st
<1>7. TicksOf(st) = {}
  BY <1>5, NoTicks DEF Closure
<1>14. nest \in BOOLEAN
  BY DEF SomeDirect
<1>15. ASSUME ~ nest PROVE Plain(p.stack) /\ Plain(r)
  <2>1. ~ SomeDirect(frames[running]) /\ ~ SomeDirect(r)
    BY <1>1, <1>12, <1>15
  <2>2. Plain(r) /\ Plain(frames[running])
    BY <2>1 DEF SomeDirect, Plain
  <2>3. DOMAIN p.stack = DOMAIN frames[running]
    BY <1>2, <1>13
  <2> QED
    BY <1>2, <2>2, <2>3 DEF Plain
<1>8. q = [stack |-> p.stack, stats |-> st, open |-> p.open, made |-> p.made, on |-> p.on,
           nested |-> nest]
  <2>1. q = [p EXCEPT !.stats = st, !.nested = nest]
    OBVIOUS
  <2> HIDE DEF nest, q
  <2> QED
    BY <1>4, <2>1
<1> HIDE DEF nest, q
<1>9. \A g \in Closure : st[g].subticks <= p.stats[g].subticks /\ (st[g].on => g \in LuaFn)
  <2>1. \A g \in Closure : p.stats[g].subticks \in Nat /\ (p.stats[g].on => g \in LuaFn)
    BY <1>2, <1>4, StatOf DEF Accounts, Spent
  <2> QED
    BY <1>5, <2>1
<1>10. Accounts(q, r, clock) /\ q.on = p.on
  BY <1>2, <1>4, <1>6, <1>7, <1>8, <1>9, <1>14, <1>15, RewriteAccounts
<1>11. Accounts(e, r, clock) /\ Uncommitted(e) /\ e.on = q.on
  BY <1>10, EnterAccounts
<1> HIDE DEF e
<1> QED
  BY <1>1, <1>2, <1>3, <1>10, <1>11, GoesOn

LEMMA CollectStatsInv ==
  ASSUME Parameters, Inv, CollectStats
  PROVE  Inv'
<1> DEFINE r == frames[Other(running)]
           p == Leave(Now(running), clock)
           e == Enter(p, clock)
<1>1. /\ Accounts(Now(running), r, clock) /\ Uncommitted(Now(running))
      /\ clock \in 1 .. MaxClock /\ Now(running).on = enabled
  BY InvHolds
<1>2. Accounts(p, r, clock) /\ p.on = enabled
  BY <1>1, LeaveAccounts
<1>3. /\ Becomes(running, e) /\ enabled' = enabled /\ clock' = clock /\ running' = running
  BY DEF CollectStats
<1> HIDE DEF p
<1>4. Accounts(e, r, clock) /\ Uncommitted(e) /\ e.on = p.on
  BY <1>2, EnterAccounts
<1> HIDE DEF e
<1> QED
  BY <1>1, <1>2, <1>3, <1>4, GoesOn

LEMMA GetSourceStatsInv ==
  ASSUME Parameters, Inv, NEW owner, GetSourceStats(owner)
  PROVE  Inv'
<1> DEFINE r == frames[Other(running)]
           p == Leave(Now(running), clock)
           e == Enter(p, clock)
<1>1. /\ Accounts(Now(running), r, clock) /\ Uncommitted(Now(running))
      /\ clock \in 1 .. MaxClock /\ Now(running).on = enabled
  BY InvHolds
<1>2. Accounts(p, r, clock) /\ p.on = enabled
  BY <1>1, LeaveAccounts
<1>3. /\ Becomes(running, e) /\ enabled' = enabled /\ clock' = clock /\ running' = running
  BY DEF GetSourceStats
<1> HIDE DEF p
<1>4. Accounts(e, r, clock) /\ Uncommitted(e) /\ e.on = p.on
  BY <1>2, EnterAccounts
<1> HIDE DEF e
<1> QED
  BY <1>1, <1>2, <1>3, <1>4, GoesOn

LEMMA StutterInv ==
  ASSUME Inv, UNCHANGED vars
  PROVE  Inv'
<1>1. /\ clock' = clock /\ enabled' = enabled /\ stats' = stats /\ nopencalls' = nopencalls
      /\ frames' = frames /\ running' = running /\ made' = made /\ nested' = nested
  BY DEF vars
<1>2. Now(running)' = Now(running) /\ frames[Other(running)]' = frames[Other(running)]
  BY <1>1 DEF Now, Other
<1>3. Typed' /\ Resuming'
  BY <1>1 DEF Inv, Typed, Resuming
<1> QED
  BY <1>1, <1>2, <1>3 DEF Inv

LEMMA NextInv ==
  ASSUME Parameters, Inv, [Next]_vars
  PROVE  Inv'
<1>1. CASE Tick
  BY <1>1, TickInv
<1>2. CASE \E fn \in LuaFn \cup {pcall}, direct \in BOOLEAN : Call(fn, direct)
  BY <1>2, CallInv
<1>3. CASE \E fn \in LuaFn : TailCall(fn)
  BY <1>3, TailCallInv
<1>4. CASE \E fn \in LuaFn, direct \in BOOLEAN : Resume(fn, direct)
  BY <1>4, ResumeInv
<1>5. CASE Return
  BY <1>5, ReturnInv
<1>6. CASE Error
  BY <1>6, ErrorInv
<1>7. CASE Yield
  BY <1>7, YieldInv
<1>8. CASE Abandon
  BY <1>8, AbandonInv
<1>9. CASE Hook
  BY <1>9, HookInv
<1>10. CASE \E on \in BOOLEAN : SetProfilingEnabled(on)
  BY <1>10, SetProfilingEnabledInv
<1>11. CASE ResetStats
  BY <1>11, ResetStatsInv
<1>12. CASE CollectStats
  BY <1>12, CollectStatsInv
<1>13. CASE \E fn \in LuaFn : GetSourceStats(Owner[fn])
  BY <1>13, GetSourceStatsInv
<1>14. CASE UNCHANGED vars
  BY <1>14, StutterInv
<1> QED
  BY <1>1, <1>2, <1>3, <1>4, <1>5, <1>6, <1>7, <1>8, <1>9, <1>10, <1>11, <1>12, <1>13, <1>14 DEF Next

-----------------------------------------------------------------------------
(* Part 7: the theorems.                                                   *)

(* Both threads' frames and all closures' counters are accounted for,      *)
(* whatever calls, tail calls, errors, yields, hooks and changes of the    *)
(* profile follow each other (luaG_profileenter, luaG_profileleave,        *)
(* luaG_profileresume and luaD_unwindci).  The number of open calls, the   *)
(* marks of the frames and the subticks are accounted for always, the      *)
(* functions' own times as long as no call is direct: a metamethod, an     *)
(* iterator or a finalizer runs on its caller's clock (lvm.c:73-94, 774).  *)
THEOREM AccountsAreKept == Parameters => (Spec => []Inv)
<1> SUFFICES ASSUME Parameters PROVE Spec => []Inv
  OBVIOUS
<1>1. Init => Inv
  BY InitInv
<1>2. Inv /\ [Next]_vars => Inv'
  BY NextInv
<1> QED
  BY <1>1, <1>2, PTL DEF Spec

LEMMA InvMeans ==
  ASSUME Parameters, Inv
  PROVE  TypeOK /\ SubticksAreCountedOnce /\ OwnTicksAreDisjoint
<1>1. /\ Typed /\ running \in Threads /\ clock \in 1 .. MaxClock
      /\ Accounts(Now(running), frames[Other(running)], clock)
  BY InvHolds
<1>2. /\ Now(running).stack = frames[running] /\ Now(running).stats = stats
      /\ Now(running).open = nopencalls /\ Now(running).nested = nested
  BY <1>1, NowOf
<1>3. /\ Entered(frames[running], stats, clock) /\ Entered(frames[Other(running)], stats, clock)
      /\ Spent(stats, nested, clock)
  BY <1>1, <1>2 DEF Accounts
<1>4. \A fn \in Closure : stats[fn] \in Stat /\ stats[fn].subticks \in Nat
  BY <1>1, StatOf DEF Typed
<1>5. \A t \in Threads : frames[t] \in Seq(Frame) /\ Entered(frames[t], stats, clock)
  BY <1>1, <1>3, Others DEF Typed, Threads
<1>6. TypeOK
  <2>1. ASSUME NEW t \in Threads, NEW n \in DOMAIN frames[t]
        PROVE  frames[t][n] \in [fn : Closure, direct : BOOLEAN,
                                 entryticks : 0 .. clock, startticks : 0 .. clock]
    <3> DEFINE c == frames[t][n]
    <3>1. /\ c \in Frame /\ c.fn \in Closure /\ c.direct \in BOOLEAN
          /\ c.entryticks \in Nat /\ c.startticks \in Nat
      BY <1>5, FrameOf
    <3>2. c.entryticks <= clock /\ c.startticks <= clock
      BY <1>5 DEF Entered
    <3> HIDE DEF c
    <3>3. c.entryticks \in 0 .. clock /\ c.startticks \in 0 .. clock
      BY <1>1, <3>1, <3>2
    <3>4. c \in [fn : Closure, direct : BOOLEAN, entryticks : 0 .. clock, startticks : 0 .. clock]
      BY <3>1, <3>3 DEF Frame
    <3> QED
      BY <3>4 DEF c
  <2> QED
    BY <1>1, <1>4, <2>1 DEF TypeOK, Typed, Stat
<1>7. SubticksAreCountedOnce
  <2>1. ASSUME NEW fn \in Closure PROVE stats[fn].subticks <= clock - 1
    BY <1>1, <1>3, <1>4 DEF Spent
  <2> QED
    BY <2>1 DEF SubticksAreCountedOnce, Elapsed
<1>8. OwnTicksAreDisjoint
  <2> DEFINE counts == {<<fn, stats[fn].ownticks>> : fn \in LuaFn}
  <2>1. UNION {{x[1]} \X (1 .. x[2]) : x \in counts} = TicksOf(stats)
    <3> DEFINE ticks(x) == {x[1]} \X (1 .. x[2])
               one(fn) == <<fn, stats[fn].ownticks>>
    <3>1. \A fn \in LuaFn : ticks(one(fn)) = {fn} \X (1 .. stats[fn].ownticks)
      OBVIOUS
    <3>2. counts = {one(fn) : fn \in LuaFn}
      OBVIOUS
    <3> HIDE DEF ticks, one, counts
    <3>3. UNION {ticks(x) : x \in counts} = UNION {ticks(one(fn)) : fn \in LuaFn}
      BY <3>2
    <3>4. UNION {ticks(one(fn)) : fn \in LuaFn} = TicksOf(stats)
      <4>1. {ticks(one(fn)) : fn \in LuaFn} = {{fn} \X (1 .. stats[fn].ownticks) : fn \in LuaFn}
        BY <3>1
      <4> QED
        BY <4>1 DEF TicksOf
    <3> QED
      BY <3>3, <3>4 DEF ticks
  <2>2. /\ Cardinality(TicksOf(stats)) \in Nat
        /\ ~ nested => Cardinality(TicksOf(stats)) < clock
    BY <1>3, FS_CardinalityType DEF Spent
  <2>3. Total(counts) = Cardinality(TicksOf(stats))
    BY <2>1 DEF Total
  <2> HIDE DEF counts
  <2>4. ~ nested => Total(counts) <= clock - 1
    BY <1>1, <2>2, <2>3
  <2> QED
    BY <2>4 DEF counts, OwnTicks, OwnTicksAreDisjoint, Elapsed
<1> QED
  BY <1>6, <1>7, <1>8

(* The counters are numbers and no mark of a frame lies in the future.     *)
THEOREM TypesOfProfiles == Parameters => (Spec => []TypeOK)
<1> SUFFICES ASSUME Parameters PROVE Spec => []TypeOK
  OBVIOUS
<1>1. Spec => []Inv
  BY AccountsAreKept
<1>2. Inv => TypeOK
  BY InvMeans
<1> QED
  BY <1>1, <1>2, PTL

(* No moment is charged twice to a closure's subticks, however deep it     *)
(* calls itself and however many coroutines keep calls of it open          *)
(* (luaG_profileleave's test of nopencalls).                               *)
THEOREM NoTickTwice == Parameters => (Spec => []SubticksAreCountedOnce)
<1> SUFFICES ASSUME Parameters PROVE Spec => []SubticksAreCountedOnce
  OBVIOUS
<1>1. Spec => []Inv
  BY AccountsAreKept
<1>2. Inv => SubticksAreCountedOnce
  BY InvMeans
<1> QED
  BY <1>1, <1>2, PTL

(* As long as no call has been direct since the statistics were reset, the *)
(* own times of all Lua functions together never exceed the time that has  *)
(* passed: every leave is followed by an enter before the same time could  *)
(* be committed again (luaV_execute, luaD_callhook, resume).  With a       *)
(* metamethod, an iterator or a finalizer they may: the clock of the       *)
(* function that is interrupted runs on (lvm.c:73-94, 774).                *)
THEOREM OwnTimesAddUp == Parameters => (Spec => []OwnTicksAreDisjoint)
<1> SUFFICES ASSUME Parameters PROVE Spec => []OwnTicksAreDisjoint
  OBVIOUS
<1>1. Spec => []Inv
  BY AccountsAreKept
<1>2. Inv => OwnTicksAreDisjoint
  BY InvMeans
<1> QED
  BY <1>1, <1>2, PTL

=============================================================================
