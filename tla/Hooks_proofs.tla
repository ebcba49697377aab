---------------------------- MODULE Hooks_proofs ----------------------------
(***************************************************************************)
(* Theorems about Hooks, for any masks and counts that are asked for and   *)
(* any number of nested activations.                                       *)
(***************************************************************************)
EXTENDS Hooks, FiniteSetTheorems, WellFoundedInduction, TLAPS

(* What the theorems assume of the constants: what kind of value each is.  *)
Parameters ==
    /\ main # co
    /\ Masks \subseteq SUBSET Event
    /\ HookCounts \subseteq Nat /\ IsFiniteSet(HookCounts)
    /\ CheckCounts \subseteq Nat /\ IsFiniteSet(CheckCounts)

-----------------------------------------------------------------------------
(* Part 1: bounds.                                                         *)

(* A finite set of numbers has a greatest one.                             *)
LEMMA GreatestNumber ==
  ASSUME NEW S, S \subseteq Int, IsFiniteSet(S), S # {}
  PROVE  \E n \in S : \A m \in S : n >= m
<1> DEFINE above(n) == {m \in S : m > n}
           aboves == {above(n) : n \in S}
<1>1. aboves \subseteq SUBSET S /\ aboves # {}
  OBVIOUS
<1>2. IsWellFoundedOn(StrictSubsetOrdering(S), SUBSET S)
  <2>1. FiniteSubsetsOf(S) = SUBSET S
    BY FS_FiniteSubsetsOfFinite
  <2>2. IsWellFoundedOn(StrictSubsetOrdering(S), FiniteSubsetsOf(S))
    BY FS_StrictSubsetOrderingWellFounded
  <2> QED
    BY <2>1, <2>2
<1> HIDE DEF aboves
<1>3. PICK A \in aboves : \A B \in aboves : <<B, A>> \notin StrictSubsetOrdering(S)
  BY <1>1, <1>2, WFMin
<1>4. PICK n \in S : A = above(n)
  BY DEF aboves
<1>5. ASSUME NEW m \in S, ~ n >= m PROVE FALSE
  <2>0. m > n /\ ~ m > m /\ \A k \in S : k > m => k > n
    BY <1>5
  <2>1. above(m) \subseteq A /\ m \in A /\ m \notin above(m)
    BY <1>4, <2>0, Zenon
  <2>2. above(m) \in aboves
    BY DEF aboves
  <2> HIDE DEF above
  <2>3. <<above(m), A>> \in StrictSubsetOrdering(S)
    BY <1>1, <2>1, <2>2 DEF StrictSubsetOrdering
  <2> QED
    BY <1>3, <2>2, <2>3
<1> QED
  BY <1>5

LEMMA MaxCountBounds ==
  ASSUME Parameters
  PROVE  /\ MaxCount \in Nat /\ MaxCount >= 1
         /\ HookCounts \subseteq 0 .. MaxCount /\ CheckCounts \subseteq 0 .. MaxCount
<1> DEFINE S == {1} \cup HookCounts \cup CheckCounts
<1>1. S \subseteq Nat /\ IsFiniteSet(S) /\ S # {}
  <2>1. IsFiniteSet({1})
    BY FS_Singleton
  <2>2. IsFiniteSet({1} \cup HookCounts)
    BY <2>1, FS_Union DEF Parameters
  <2>3. IsFiniteSet(S)
    BY <2>2, FS_Union DEF Parameters
  <2> QED
    BY <2>3 DEF Parameters
<1> HIDE DEF S
<1>2. \E n \in S : \A m \in S : n >= m
  <2>1. S \subseteq Int
    BY <1>1
  <2> QED
    BY <1>1, <2>1, GreatestNumber
<1>3. Max(S) \in S /\ \A m \in S : Max(S) >= m
  BY <1>2 DEF Max
<1>4. MaxCount = Max(S)
  BY DEF MaxCount, S
<1>5. 1 \in S /\ HookCounts \subseteq S /\ CheckCounts \subseteq S
  BY DEF S
<1>6. MaxCount \in Nat /\ MaxCount >= 1
  BY <1>1, <1>3, <1>4, <1>5
<1>7. ASSUME NEW n \in S PROVE n \in 0 .. MaxCount
  BY <1>1, <1>3, <1>4, <1>6
<1> QED
  BY <1>5, <1>6, <1>7

-----------------------------------------------------------------------------
(* Part 2: the invariant.                                                  *)
How == {"host", "pcall", "hook", "resume"}
At == {"fetch", "count", "line", "limit", "execute", "lstop"}
Act == [t : Threads, how : How, at : At, mask : SUBSET Event, allow : BOOLEAN]

Typed ==
    /\ hook \in [Threads -> {"NULL", "hookf", "lstop"}] /\ hookmask \in [Threads -> SUBSET Event]
    /\ basehookcount \in [Threads -> 0 .. MaxCount] /\ hookcount \in [Threads -> -1 .. MaxCount]
    /\ allowhook \in [Threads -> BOOLEAN]
    /\ limit \in [Threads -> 0 .. MaxCount] /\ left \in [Threads -> -1 .. MaxCount]
    /\ cstack \in Seq(Act)
    /\ status \in {"none", "fresh", "run", "yield", "dead"}
    /\ armed \in BOOLEAN
    /\ own \subseteq Threads
    /\ unchecked \in [Threads -> Nat] /\ unhooked \in [Threads -> Nat]

(* The host called first; behind the resume of the coroutine everything is *)
(* the coroutine's, and before it nothing is.                              *)
Shape(s) ==
    /\ \A n \in DOMAIN s : s[n].how = "host" <=> n = 1
    /\ \A n \in DOMAIN s : n = 1 => s[n].t = main
    /\ \A n, m \in DOMAIN s : m < n /\ s[m].t = co => s[n].t = co
    /\ \A n \in DOMAIN s : s[n].how = "resume" => s[n].t = co
    /\ \A n, m \in DOMAIN s : m < n /\ s[n].how = "resume" => s[m].t = main
    /\ \A n \in DOMAIN s : s[n].t = co => \E m \in 1 .. n : s[m].how = "resume"

IsHookOf(act, t) == act.t = t /\ act.how = "hook"

(* No hook of thread t runs.                                               *)
Free(s, t) == \A n \in DOMAIN s : ~ IsHookOf(s[n], t)

(* A thread is in one hook at most.  What a protected call, or whatever    *)
(* else, has saved of allowhook is whether its thread was in none below.   *)
Allows(s) ==
    /\ \A t \in Threads : \A n, m \in DOMAIN s : IsHookOf(s[n], t) /\ IsHookOf(s[m], t) => n = m
    /\ \A n \in DOMAIN s : s[n].allow <=> \A m \in 1 .. n - 1 : ~ IsHookOf(s[m], s[n].t)

Runner(s, st) == st = "run" <=> \E n \in DOMAIN s : s[n].t = co

(* A coroutine that died of an error keeps its allowhook as it was.        *)
Permits(s, st, may) ==
    \A t \in Threads : (t = co => st # "dead") => (may[t] <=> Free(s, t))

(* Only the running activation is between the count and its event.         *)
Tops(s) == \A n \in DOMAIN s : n < Len(s) => s[n].at # "count"

Checked ==
    \A t \in Threads : t \in own /\ limit[t] > 0 =>
      left[t] >= 1 /\ unchecked[t] + left[t] = limit[t]

Counted ==
    \A t \in Threads : "count" \in hookmask[t] /\ basehookcount[t] > 0 =>
      /\ hookcount[t] >= 0 /\ unhooked[t] + hookcount[t] = basehookcount[t]
      /\ hookcount[t] = 0 => Runs("count") /\ cur = t

Nesting(s, st, may) == Shape(s) /\ Allows(s) /\ Runner(s, st) /\ Permits(s, st, may)

Inv == Typed /\ Nesting(cstack, status, allowhook) /\ Tops(cstack) /\ Checked /\ Counted

-----------------------------------------------------------------------------
(* Part 3: what happens to a stack of activations.                         *)

LEMMA ActOf ==
  ASSUME NEW s \in Seq(Act), NEW n \in 1 .. Len(s)
  PROVE  /\ s[n] \in Act /\ s[n].t \in Threads /\ s[n].how \in How /\ s[n].at \in At
         /\ s[n].mask \in SUBSET Event /\ s[n].allow \in BOOLEAN
<1>1. s[n] \in Act
  OBVIOUS
<1> QED
  BY <1>1 DEF Act

(* An activation goes on: nothing but `at' and `mask' change.              *)
SameActs(r, s) ==
    /\ DOMAIN r = DOMAIN s
    /\ \A n \in DOMAIN s : r[n].t = s[n].t /\ r[n].how = s[n].how /\ r[n].allow = s[n].allow

LEMMA GoesOnNests ==
  ASSUME Parameters, NEW s \in Seq(Act), NEW r \in Seq(Act), NEW st, NEW may, SameActs(r, s),
         Nesting(s, st, may)
  PROVE  Nesting(r, st, may)
<1> USE DEF SameActs
<1>0. \A n \in DOMAIN s : 1 .. n \subseteq DOMAIN s /\ 1 .. n - 1 \subseteq DOMAIN s /\ s[n].t \in Threads
  <2>1. DOMAIN s = 1 .. Len(s) /\ Len(s) \in Nat
    OBVIOUS
  <2> QED
    BY <2>1, ActOf
<1>1. Shape(r)
  <2>1. Shape(s) /\ Shape(s)!1 /\ Shape(s)!2 /\ Shape(s)!3 /\ Shape(s)!4 /\ Shape(s)!5 /\ Shape(s)!6
    BY DEF Nesting, Shape
  <2>2. Shape(r)!1 /\ Shape(r)!2 /\ Shape(r)!4
    BY <2>1
  <2>3. Shape(r)!3
    BY <2>1
  <2>4. Shape(r)!5
    BY <2>1
  <2>5. Shape(r)!6
    BY <1>0, <2>1
  <2> QED
    BY <2>2, <2>3, <2>4, <2>5 DEF Shape
<1>2. \A n \in DOMAIN s : \A t \in Threads : IsHookOf(r[n], t) <=> IsHookOf(s[n], t)
  BY DEF IsHookOf
<1>3. Allows(r)
  BY <1>0, <1>2 DEF Nesting, Allows
<1>4. Runner(r, st)
  BY DEF Nesting, Runner
<1>5. Permits(r, st, may)
  BY <1>2 DEF Nesting, Permits, Free
<1> QED
  BY <1>1, <1>3, <1>4, <1>5 DEF Nesting

(* The innermost activations end.                                          *)
LEMMA CutNests ==
  ASSUME Parameters, NEW s \in Seq(Act), NEW k \in 0 .. Len(s), Shape(s), Allows(s)
  PROVE  /\ Shape(SubSeq(s, 1, k)) /\ Allows(SubSeq(s, 1, k)) /\ SubSeq(s, 1, k) \in Seq(Act)
         /\ DOMAIN SubSeq(s, 1, k) = 1 .. k
         /\ \A n \in 1 .. k : SubSeq(s, 1, k)[n] = s[n]
<1> DEFINE r == SubSeq(s, 1, k)
<1>1. r \in Seq(Act) /\ DOMAIN r = 1 .. k /\ \A n \in 1 .. k : r[n] = s[n]
  OBVIOUS
<1>2. DOMAIN s = 1 .. Len(s) /\ Len(s) \in Nat /\ k \in Nat /\ k <= Len(s)
  OBVIOUS
<1>0. \A n \in 1 .. k : n \in DOMAIN s /\ 1 .. n \subseteq 1 .. k /\ 1 .. n - 1 \subseteq 1 .. k
                          /\ s[n].t \in Threads
  BY <1>2, ActOf
<1> HIDE DEF r
<1>3. Shape(r)
  BY <1>0, <1>1 DEF Shape
<1>4. Allows(r)
  BY <1>0, <1>1 DEF Allows
<1> QED
  BY <1>1, <1>3, <1>4 DEF r

(* One more activation begins: of the host, of the thread that runs, or of *)
(* the coroutine that is resumed.                                          *)
LEMMA PushNests ==
  ASSUME Parameters, NEW s \in Seq(Act), NEW a \in Act, Shape(s), Allows(s),
         \/ s = <<>> /\ a.how = "host" /\ a.t = main
         \/ s # <<>> /\ a.how \in {"pcall", "hook"} /\ a.t = s[Len(s)].t
         \/ s # <<>> /\ a.how = "resume" /\ a.t = co /\ \A n \in DOMAIN s : s[n].t = main,
         a.allow <=> Free(s, a.t),
         a.how = "hook" => Free(s, a.t)
  PROVE  /\ Shape(Append(s, a)) /\ Allows(Append(s, a)) /\ Append(s, a) \in Seq(Act)
         /\ DOMAIN Append(s, a) = 1 .. Len(s) + 1
         /\ \A n \in DOMAIN s : Append(s, a)[n] = s[n]
         /\ Append(s, a)[Len(s) + 1] = a
<1> DEFINE r == Append(s, a)
           k == Len(s)
<1>1. /\ r \in Seq(Act) /\ DOMAIN r = 1 .. k + 1 /\ DOMAIN s = 1 .. k /\ k \in Nat
      /\ \A n \in 1 .. k : r[n] = s[n]
      /\ r[k + 1] = a
  OBVIOUS
<1>2. s = <<>> <=> k = 0
  OBVIOUS
<1>3. \A n \in 1 .. k : s[n].t \in Threads
  BY ActOf
<1> HIDE DEF r, k
<1>4. \A n \in 1 .. k + 1 : n \in 1 .. k \/ n = k + 1
  BY <1>1
<1>5. Shape(r)
  <2>1. \A n \in DOMAIN r : r[n].how = "host" <=> n = 1
    BY <1>1, <1>2, <1>4 DEF Shape, k
  <2>2. \A n \in DOMAIN r : n = 1 => r[n].t = main
    BY <1>1, <1>2, <1>4 DEF Shape, k
  <2>3. ASSUME NEW n \in DOMAIN r, NEW m \in DOMAIN r, m < n, r[m].t = co PROVE r[n].t = co
    <3>1. m \in 1 .. k /\ s[m].t = co
      BY <1>1, <2>3
    <3>2. CASE n \in 1 .. k
      BY <1>1, <2>3, <3>1, <3>2 DEF Shape
    <3>3. CASE n = k + 1
      <4>1. s[k].t = co
        BY <1>1, <3>1 DEF Shape
      <4> QED
        BY <1>1, <1>2, <3>1, <3>3, <4>1 DEF k, Parameters
    <3> QED
      BY <1>1, <1>4, <3>2, <3>3
  <2>4. \A n \in DOMAIN r : r[n].how = "resume" => r[n].t = co
    BY <1>1, <1>4 DEF Shape
  <2>5. ASSUME NEW n \in DOMAIN r, NEW m \in DOMAIN r, m < n, r[n].how = "resume" PROVE r[m].t = main
    <3>1. m \in 1 .. k
      BY <1>1, <2>5
    <3> QED
      BY <1>1, <1>4, <2>5, <3>1 DEF Shape
  <2>6. ASSUME NEW n \in DOMAIN r, r[n].t = co PROVE \E m \in 1 .. n : r[m].how = "resume"
    <3>1. CASE n \in 1 .. k
      <4>1. PICK m \in 1 .. n : s[m].how = "resume"
        BY <1>1, <2>6, <3>1 DEF Shape
      <4> QED
        BY <1>1, <3>1, <4>1
    <3>2. CASE n = k + 1 /\ a.how = "resume"
      BY <1>1, <3>2
    <3>3. CASE n = k + 1 /\ a.how # "resume"
      <4>1. k >= 1 /\ s[k].t = co
        BY <1>1, <1>2, <2>6, <3>3 DEF k, Parameters
      <4>2. PICK m \in 1 .. k : s[m].how = "resume"
        BY <1>1, <4>1 DEF Shape
      <4> QED
        BY <1>1, <3>3, <4>2
    <3> QED
      BY <1>1, <1>4, <3>1, <3>2, <3>3
  <2> QED
    BY <2>1, <2>2, <2>3, <2>4, <2>5, <2>6 DEF Shape
<1>6. Allows(r)
  <2>1. ASSUME NEW t \in Threads, NEW n \in DOMAIN r, NEW m \in DOMAIN r,
               IsHookOf(r[n], t), IsHookOf(r[m], t)
        PROVE  n = m
    <3>1. CASE n \in 1 .. k /\ m \in 1 .. k
      BY <1>1, <2>1, <3>1 DEF Allows
    <3>2. ASSUME a.how = "hook", a.t = t PROVE \A i \in 1 .. k : ~ IsHookOf(s[i], t)
      BY <1>1, <3>2 DEF Free
    <3> QED
      BY <1>1, <1>4, <2>1, <3>1, <3>2 DEF IsHookOf
  <2>2. ASSUME NEW n \in DOMAIN r
        PROVE  r[n].allow <=> \A m \in 1 .. n - 1 : ~ IsHookOf(r[m], r[n].t)
    <3>1. CASE n \in 1 .. k
      <4>1. 1 .. n - 1 \subseteq 1 .. k
        BY <1>1, <3>1
      <4>2. s[n].allow <=> \A m \in 1 .. n - 1 : ~ IsHookOf(s[m], s[n].t)
        BY <1>1, <3>1 DEF Allows
      <4> QED
        BY <1>1, <3>1, <4>1, <4>2
    <3>2. CASE n = k + 1
      <4>1. n - 1 = k
        BY <1>1, <3>2
      <4> QED
        BY <1>1, <3>2, <4>1 DEF Free
    <3> QED
      BY <1>1, <1>4, <3>1, <3>2
  <2> QED
    BY <2>1, <2>2 DEF Allows
<1> QED
  BY <1>1, <1>5, <1>6 DEF r, k

(* The thread that runs.                                                   *)
LEMMA RunnerIs ==
  ASSUME NEW s \in Seq(Act), NEW st, NEW may, Nesting(s, st, may), s # <<>>
  PROVE  /\ Len(s) \in DOMAIN s /\ s[Len(s)] \in Act /\ s[Len(s)].t \in Threads
         /\ s[Len(s)].t = co => st = "run"
         /\ s[Len(s)].t = main /\ main # co => \A n \in DOMAIN s : s[n].t = main
<1>1. Len(s) \in DOMAIN s /\ DOMAIN s = 1 .. Len(s) /\ Len(s) \in Nat
  OBVIOUS
<1>2. s[Len(s)] \in Act /\ \A n \in DOMAIN s : s[n].t \in Threads
  BY <1>1, ActOf
<1>3. s[Len(s)].t = co => st = "run"
  BY <1>1 DEF Nesting, Runner
<1>4. ASSUME s[Len(s)].t = main, main # co, NEW n \in DOMAIN s PROVE s[n].t = main
  <2>1. n < Len(s) \/ n = Len(s)
    BY <1>1
  <2>2. s[n].t # co
    BY <1>1, <1>4, <2>1 DEF Nesting, Shape
  <2> QED
    BY <1>2, <2>2 DEF Threads
<1> QED
  BY <1>1, <1>2, <1>3, <1>4

LEMMA PCallNests ==
  ASSUME Parameters, NEW s \in Seq(Act), NEW st, NEW may, Nesting(s, st, may), s # <<>>,
         NEW a \in Act, a.how = "pcall", a.t = s[Len(s)].t, a.allow <=> may[a.t]
  PROVE  Nesting(Append(s, a), st, may) /\ Append(s, a) \in Seq(Act)
<1>1. a.t \in Threads /\ (a.t = co => st = "run")
  BY RunnerIs
<1>2. a.allow <=> Free(s, a.t)
  BY <1>1 DEF Nesting, Permits
<1> DEFINE r == Append(s, a)
<1>3. /\ Shape(r) /\ Allows(r) /\ r \in Seq(Act) /\ DOMAIN r = 1 .. Len(s) + 1
      /\ \A n \in DOMAIN s : r[n] = s[n]
      /\ r[Len(s) + 1] = a
  BY <1>2, PushNests DEF Nesting
<1>4. DOMAIN s = 1 .. Len(s) /\ Len(s) \in Nat
  OBVIOUS
<1> HIDE DEF r
<1>5. \A n \in DOMAIN r : n \in DOMAIN s \/ n = Len(s) + 1
  BY <1>3, <1>4
<1>6. DOMAIN s \subseteq DOMAIN r /\ Len(s) + 1 \in DOMAIN r
  BY <1>3, <1>4
<1>7. Runner(r, st)
  BY <1>1, <1>3, <1>5, <1>6 DEF Nesting, Runner
<1>8. \A t \in Threads : Free(r, t) <=> Free(s, t)
  BY <1>3, <1>5, <1>6 DEF Free, IsHookOf
<1> QED
  BY <1>3, <1>7, <1>8 DEF Nesting, Permits, r

LEMMA HookNests ==
  ASSUME Parameters, NEW s \in Seq(Act), NEW st, NEW may \in [Threads -> BOOLEAN],
         Nesting(s, st, may), s # <<>>,
         NEW a \in Act, a.how = "hook", a.t = s[Len(s)].t, a.allow, may[a.t]
  PROVE  Nesting(Append(s, a), st, [may EXCEPT ![a.t] = FALSE]) /\ Append(s, a) \in Seq(Act)
<1>1. a.t \in Threads /\ (a.t = co => st = "run")
  BY RunnerIs
<1>2. Free(s, a.t)
  BY <1>1 DEF Nesting, Permits
<1> DEFINE r == Append(s, a)
           now == [may EXCEPT ![a.t] = FALSE]
<1>3. /\ Shape(r) /\ Allows(r) /\ r \in Seq(Act) /\ DOMAIN r = 1 .. Len(s) + 1
      /\ \A n \in DOMAIN s : r[n] = s[n]
      /\ r[Len(s) + 1] = a
  BY <1>2, PushNests DEF Nesting
<1>4. DOMAIN s = 1 .. Len(s) /\ Len(s) \in Nat
  OBVIOUS
<1>9. now[a.t] = FALSE /\ \A t \in Threads : t # a.t => now[t] = may[t]
  BY <1>1
<1> HIDE DEF r, now
<1>5. \A n \in DOMAIN r : n \in DOMAIN s \/ n = Len(s) + 1
  BY <1>3, <1>4
<1>6. DOMAIN s \subseteq DOMAIN r /\ Len(s) + 1 \in DOMAIN r
  BY <1>3, <1>4
<1>7. Runner(r, st)
  BY <1>1, <1>3, <1>5, <1>6 DEF Nesting, Runner
<1>8. /\ \A t \in Threads : t # a.t => (Free(r, t) <=> Free(s, t))
      /\ ~ Free(r, a.t)
  BY <1>3, <1>5, <1>6 DEF Free, IsHookOf
<1> QED
  BY <1>3, <1>7, <1>8, <1>9 DEF Nesting, Permits, r, now

LEMMA ResumeNests ==
  ASSUME Parameters, NEW s \in Seq(Act), NEW st \in {"fresh", "yield"}, NEW may, Nesting(s, st, may),
         s # <<>>, s[Len(s)].t # co,
         NEW a \in Act, a.how = "resume", a.t = co, a.allow <=> may[co]
  PROVE  Nesting(Append(s, a), "run", may) /\ Append(s, a) \in Seq(Act)
<1>1. \A n \in DOMAIN s : s[n].t = main
  BY RunnerIs DEF Threads, Parameters
<1>2. a.allow <=> Free(s, a.t)
  BY DEF Nesting, Permits, Threads
<1> DEFINE r == Append(s, a)
<1>3. /\ Shape(r) /\ Allows(r) /\ r \in Seq(Act) /\ DOMAIN r = 1 .. Len(s) + 1
      /\ \A n \in DOMAIN s : r[n] = s[n]
      /\ r[Len(s) + 1] = a
  BY <1>1, <1>2, PushNests DEF Nesting
<1>4. DOMAIN s = 1 .. Len(s) /\ Len(s) \in Nat
  OBVIOUS
<1> HIDE DEF r
<1>5. \A n \in DOMAIN r : n \in DOMAIN s \/ n = Len(s) + 1
  BY <1>3, <1>4
<1>6. DOMAIN s \subseteq DOMAIN r /\ Len(s) + 1 \in DOMAIN r
  BY <1>3, <1>4
<1>7. Runner(r, "run")
  BY <1>3, <1>6 DEF Runner
<1>8. \A t \in Threads : Free(r, t) <=> Free(s, t)
  BY <1>3, <1>5, <1>6 DEF Free, IsHookOf
<1> QED
  BY <1>3, <1>7, <1>8 DEF Nesting, Permits, r

LEMMA HostNests ==
  ASSUME Parameters, NEW st, NEW may, Nesting(<<>>, st, may),
         NEW a \in Act, a.how = "host", a.t = main, a.allow <=> may[main]
  PROVE  Nesting(<<a>>, st, may) /\ <<a>> \in Seq(Act)
<1> DEFINE s == <<>>
           r == <<a>>
<1>1. s \in Seq(Act) /\ r \in Seq(Act) /\ r = Append(s, a) /\ DOMAIN s = {}
  OBVIOUS
<1>2. DOMAIN r = {1} /\ r[1] = a
  OBVIOUS
<1>3. \A t \in Threads : Free(s, t) /\ Free(r, t)
  BY <1>1, <1>2 DEF Free, IsHookOf
<1>4. a.allow <=> Free(s, main)
  BY <1>3 DEF Nesting, Permits, Threads, Parameters
<1>5. Shape(r) /\ Allows(r)
  <2>1. Shape(s) /\ Allows(s)
    BY DEF Nesting
  <2> HIDE DEF s, r
  <2> QED
    BY <1>1, <1>4, <2>1, PushNests DEF s
<1>6. Runner(r, st)
  BY <1>1, <1>2 DEF Nesting, Runner, Parameters
<1> QED
  BY <1>1, <1>3, <1>5, <1>6 DEF Nesting, Permits

(* Activation n ends and with it the hooks above it, all of one thread.    *)
IsCut(r, s, n, st) ==
    /\ Shape(r) /\ Allows(r) /\ r \in Seq(Act) /\ DOMAIN r = 1 .. n - 1
    /\ \A m \in DOMAIN r : r[m] = s[m]
    /\ \A t \in Threads : t # s[n].t => (Free(r, t) <=> Free(s, t))
    /\ Free(r, s[n].t) <=> s[n].allow
    /\ s[n].how = "resume" => s[n].t = co /\ st = "run" /\ \A m \in DOMAIN r : r[m].t # co
    /\ s[n].how # "resume" => Runner(r, st) /\ (s[n].t = co => st = "run")

LEMMA CutTo ==
  ASSUME Parameters, NEW s \in Seq(Act), NEW st, NEW may, Nesting(s, st, may),
         NEW n \in DOMAIN s, \A m \in n + 1 .. Len(s) : s[m].how = "hook",
         NEW r, r = SubSeq(s, 1, n - 1)
  PROVE  IsCut(r, s, n, st)
<1>1. DOMAIN s = 1 .. Len(s) /\ Len(s) \in Nat /\ n \in 1 .. Len(s) /\ n - 1 \in 0 .. Len(s)
  OBVIOUS
<1>2. /\ Shape(r) /\ Allows(r) /\ r \in Seq(Act) /\ DOMAIN r = 1 .. n - 1
      /\ \A m \in 1 .. n - 1 : r[m] = s[m]
  BY <1>1, CutNests DEF Nesting
<1>3. \A m \in DOMAIN s : s[m].t \in {main, co}
  BY ActOf DEF Threads
<1>4. Shape(s) /\ Allows(s) /\ Runner(s, st)
  BY DEF Nesting
<1>5. ASSUME NEW m \in n + 1 .. Len(s) PROVE s[m].t = s[n].t
  <2>1. CASE s[n].t = co
    BY <1>1, <1>4, <2>1 DEF Shape
  <2>2. CASE s[n].t = main /\ s[m].t = co
    <3>1. PICK k \in 1 .. m : s[k].how = "resume"
      BY <1>1, <1>4, <2>2 DEF Shape
    <3>2. k \in 1 .. n
      <4>1. k \in n + 1 .. Len(s) => s[k].how = "hook"
        OBVIOUS
      <4> QED
        BY <1>1, <3>1, <4>1
    <3>3. s[k].t = co /\ (k < n => s[n].t = co)
      <4>1. k \in DOMAIN s /\ n \in DOMAIN s
        BY <1>1, <3>2
      <4>2. s[k].t = co
        BY <1>4, <3>1, <4>1 DEF Shape
      <4> QED
        BY <1>4, <4>1, <4>2 DEF Shape
    <3> QED
      BY <2>2, <3>2, <3>3 DEF Parameters
  <2> QED
    BY <1>1, <1>3, <2>1, <2>2
<1>6. \A m \in DOMAIN s : m \in DOMAIN r \/ s[m].t = s[n].t
  BY <1>1, <1>2, <1>5
<1>7. DOMAIN r \subseteq DOMAIN s /\ \A m \in DOMAIN r : r[m] = s[m] /\ m < n
  BY <1>1, <1>2
<1>8. ASSUME NEW t \in Threads, t # s[n].t PROVE Free(r, t) <=> Free(s, t)
  BY <1>6, <1>7, <1>8 DEF Free, IsHookOf
<1>9. Free(r, s[n].t) <=> s[n].allow
  BY <1>2, <1>4 DEF Free, Allows
<1>10. ASSUME s[n].how = "resume" PROVE s[n].t = co /\ st = "run" /\ \A m \in DOMAIN r : r[m].t # co
  <2>1. s[n].t = co
    BY <1>4, <1>10 DEF Shape
  <2>2. \A m \in DOMAIN r : r[m].t = main
    BY <1>4, <1>7, <1>10 DEF Shape
  <2> QED
    BY <1>4, <2>1, <2>2 DEF Runner, Parameters
<1>11. ASSUME s[n].how # "resume" PROVE Runner(r, st) /\ (s[n].t = co => st = "run")
  <2>1. ASSUME s[n].t = co PROVE \E m \in DOMAIN r : r[m].t = co
    <3>1. PICK m \in 1 .. n : s[m].how = "resume"
      BY <1>4, <2>1 DEF Shape
    <3>2. m \in 1 .. n - 1
      BY <1>1, <1>11, <3>1
    <3>3. m \in DOMAIN s /\ r[m] = s[m]
      BY <1>1, <1>2, <3>2
    <3>4. s[m].t = co
      BY <1>4, <3>1, <3>3 DEF Shape
    <3> QED
      BY <1>2, <3>2, <3>3, <3>4
  <2>2. (\E m \in DOMAIN s : s[m].t = co) <=> (\E m \in DOMAIN r : r[m].t = co)
    BY <1>6, <1>7, <2>1
  <2> QED
    BY <1>4, <2>2 DEF Runner
<1> QED
  BY <1>2, <1>8, <1>9, <1>10, <1>11 DEF IsCut

(* An error that activation n catches.                                     *)
LEMMA ThrowNests ==
  ASSUME Parameters, NEW s \in Seq(Act), NEW st, NEW may \in [Threads -> BOOLEAN], Nesting(s, st, may),
         NEW n \in DOMAIN s, \A m \in n + 1 .. Len(s) : s[m].how = "hook"
  PROVE  /\ SubSeq(s, 1, n - 1) \in Seq(Act)
         /\ IF s[n].how = "resume" THEN Nesting(SubSeq(s, 1, n - 1), "dead", may)
            ELSE Nesting(SubSeq(s, 1, n - 1), st, [may EXCEPT ![s[n].t] = s[n].allow])
<1> DEFINE r == SubSeq(s, 1, n - 1)
           now == [may EXCEPT ![s[n].t] = s[n].allow]
<1>0. r = SubSeq(s, 1, n - 1) /\ now = [may EXCEPT ![s[n].t] = s[n].allow]
  OBVIOUS
<1> HIDE DEF r, now
<1>1. /\ Shape(r) /\ Allows(r) /\ r \in Seq(Act) /\ DOMAIN r = 1 .. n - 1
      /\ \A m \in DOMAIN r : r[m] = s[m]
      /\ \A t \in Threads : t # s[n].t => (Free(r, t) <=> Free(s, t))
      /\ Free(r, s[n].t) <=> s[n].allow
      /\ s[n].how = "resume" => s[n].t = co /\ st = "run" /\ \A m \in DOMAIN r : r[m].t # co
      /\ s[n].how # "resume" => Runner(r, st) /\ (s[n].t = co => st = "run")
  <2>1. IsCut(r, s, n, st)
    BY <1>0, CutTo
  <2> QED
    BY <2>1 DEF IsCut
<1>2. s[n].t \in Threads /\ s[n].allow \in BOOLEAN
  BY ActOf
<1>3. now[s[n].t] = s[n].allow /\ \A t \in Threads : t # s[n].t => now[t] = may[t]
  BY <1>0, <1>2
<1>4. \A t \in Threads : t # s[n].t /\ (t = co => st # "dead") => (may[t] <=> Free(r, t))
  BY <1>1 DEF Nesting, Permits
<1>5. ASSUME s[n].how = "resume" PROVE Nesting(r, "dead", may)
  BY <1>1, <1>4, <1>5 DEF Nesting, Runner, Permits
<1>6. ASSUME s[n].how # "resume" PROVE Nesting(r, st, now)
  BY <1>1, <1>3, <1>4, <1>6 DEF Nesting, Permits
<1> QED
  BY <1>0, <1>1, <1>5, <1>6

(* The running activation ends without an error.                           *)
LEMMA ReturnNests ==
  ASSUME Parameters, NEW s \in Seq(Act), NEW st, NEW may \in [Threads -> BOOLEAN], Nesting(s, st, may),
         s # <<>>, NEW n, n = Len(s)
  PROVE  /\ Front(s) \in Seq(Act)
         /\ s[n].how = "hook" => Nesting(Front(s), st, [may EXCEPT ![s[n].t] = TRUE])
         /\ s[n].how = "resume" => Nesting(Front(s), "dead", may) /\ Nesting(Front(s), "yield", may)
         /\ s[n].how \in {"host", "pcall"} => Nesting(Front(s), st, may)
<1> DEFINE r == SubSeq(s, 1, n - 1)
           now == [may EXCEPT ![s[n].t] = TRUE]
<1>0. /\ n \in DOMAIN s /\ \A m \in n + 1 .. Len(s) : s[m].how = "hook"
      /\ r = Front(s) /\ r = SubSeq(s, 1, n - 1) /\ now = [may EXCEPT ![s[n].t] = TRUE]
  <2>1. Len(s) \in Nat /\ Len(s) # 0 /\ DOMAIN s = 1 .. Len(s)
    OBVIOUS
  <2> QED
    BY <2>1 DEF Front
<1> HIDE DEF r, now
<1>1. /\ Shape(r) /\ Allows(r) /\ r \in Seq(Act) /\ DOMAIN r = 1 .. n - 1
      /\ \A m \in DOMAIN r : r[m] = s[m]
      /\ \A t \in Threads : t # s[n].t => (Free(r, t) <=> Free(s, t))
      /\ Free(r, s[n].t) <=> s[n].allow
      /\ s[n].how = "resume" => s[n].t = co /\ st = "run" /\ \A m \in DOMAIN r : r[m].t # co
      /\ s[n].how # "resume" => Runner(r, st) /\ (s[n].t = co => st = "run")
  <2>1. IsCut(r, s, n, st)
    BY <1>0, CutTo
  <2> QED
    BY <2>1 DEF IsCut
<1>2. s[n].t \in Threads /\ s[n].allow \in BOOLEAN
  BY ActOf
<1>3. now[s[n].t] = TRUE /\ \A t \in Threads : t # s[n].t => now[t] = may[t]
  BY <1>0, <1>2
<1>4. DOMAIN s = 1 .. n /\ n \in Nat
  OBVIOUS
<1>5. \A t \in Threads : t # s[n].t /\ (t = co => st # "dead") => (may[t] <=> Free(r, t))
  BY <1>1 DEF Nesting, Permits
<1>6. ASSUME s[n].how # "hook" PROVE Free(r, s[n].t) <=> Free(s, s[n].t)
  <2>1. \A m \in DOMAIN s : m \in DOMAIN r \/ m = n
    BY <1>1, <1>4
  <2> QED
    BY <1>1, <1>4, <1>6, <2>1 DEF Free, IsHookOf
<1>7. ASSUME s[n].how = "hook" PROVE Nesting(r, st, now)
  <2>1. \A m \in DOMAIN r : IsHookOf(s[m], s[n].t) => m = n
    BY <1>0, <1>1, <1>2, <1>4, <1>7 DEF Nesting, Allows, IsHookOf
  <2>2. Free(r, s[n].t)
    BY <1>1, <1>4, <2>1 DEF Free
  <2> QED
    BY <1>1, <1>3, <1>5, <1>7, <2>2 DEF Nesting, Permits
<1>8. ASSUME s[n].how = "resume" PROVE Nesting(r, "dead", may) /\ Nesting(r, "yield", may)
  <2>1. may[s[n].t] <=> Free(r, s[n].t)
    BY <1>1, <1>2, <1>6, <1>8 DEF Nesting, Permits
  <2> QED
    BY <1>1, <1>5, <1>8, <2>1 DEF Nesting, Runner, Permits
<1>9. ASSUME s[n].how \in {"host", "pcall"} PROVE Nesting(r, st, may)
  <2>1. (s[n].t = co => st # "dead") => (may[s[n].t] <=> Free(r, s[n].t))
    BY <1>2, <1>6, <1>9 DEF Nesting, Permits
  <2> QED
    BY <1>1, <1>5, <1>9, <2>1 DEF Nesting, Permits
<1> QED
  BY <1>0, <1>1, <1>7, <1>8, <1>9

-----------------------------------------------------------------------------
(* Part 4: the steps.                                                      *)
LEMMA TopOf ==
  ASSUME Typed, cstack # <<>>
  PROVE  /\ DOMAIN cstack = 1 .. Len(cstack) /\ Len(cstack) \in Nat /\ Len(cstack) >= 1
         /\ top = cstack[Len(cstack)] /\ cur = cstack[Len(cstack)].t
         /\ top \in Act /\ cur \in Threads
         /\ top.how \in How /\ top.at \in At /\ top.mask \subseteq Event /\ top.allow \in BOOLEAN
<1>1. cstack \in Seq(Act)
  BY DEF Typed
<1>2. DOMAIN cstack = 1 .. Len(cstack) /\ Len(cstack) \in Nat /\ Len(cstack) >= 1
  BY <1>1
<1>3. top = cstack[Len(cstack)]
  BY DEF top, Last
<1> QED
  BY <1>1, <1>2, <1>3, ActOf DEF cur

LEMMA NewActivation ==
  ASSUME Typed, NEW t \in Threads, NEW how \in How
  PROVE  /\ Activation(t, how) \in Act
         /\ Activation(t, how).t = t /\ Activation(t, how).how = how
         /\ Activation(t, how).allow = allowhook[t]
BY DEF Activation, Act, At, Typed, Event

(* The running activation goes on at another point.                        *)
GoesOn(r, s, at) ==
    /\ r \in Seq(Act) /\ r # <<>> /\ SameActs(r, s) /\ Tops(r) /\ Len(r) = Len(s)
    /\ r[Len(r)].t = s[Len(s)].t /\ r[Len(r)].at = at

LEMMA TopGoesOn ==
  ASSUME NEW s \in Seq(Act), s # <<>>, Tops(s), NEW at \in At, NEW mask \in SUBSET Event, NEW r,
         \/ r = [s EXCEPT ![Len(s)].at = at]
         \/ r = [s EXCEPT ![Len(s)].at = at, ![Len(s)].mask = mask]
  PROVE  GoesOn(r, s, at)
<1> DEFINE k == Len(s)
           a1 == [s[k] EXCEPT !.at = at]
           a2 == [a1 EXCEPT !.mask = mask]
<1>1. k \in Nat /\ k >= 1 /\ DOMAIN s = 1 .. k /\ s[k] \in Act
  OBVIOUS
<1>2. /\ a1 \in Act /\ a1.t = s[k].t /\ a1.how = s[k].how /\ a1.allow = s[k].allow /\ a1.at = at
      /\ a2 \in Act /\ a2.t = s[k].t /\ a2.how = s[k].how /\ a2.allow = s[k].allow /\ a2.at = at
  BY <1>1 DEF Act
<1>3. r = [s EXCEPT ![k] = a1] \/ r = [s EXCEPT ![k] = a2]
  BY <1>1
<1> HIDE DEF a1, a2, k
<1>4. PICK a \in Act : /\ r = [s EXCEPT ![k] = a]
                       /\ a.t = s[k].t /\ a.how = s[k].how /\ a.allow = s[k].allow /\ a.at = at
  BY <1>2, <1>3
<1>5. /\ r \in Seq(Act) /\ Len(r) = k /\ DOMAIN r = DOMAIN s /\ r[k] = a
      /\ \A n \in DOMAIN s : n # k => r[n] = s[n]
  BY <1>1, <1>4 DEF k
<1>6. SameActs(r, s)
  BY <1>4, <1>5 DEF SameActs
<1>7. Tops(r)
  BY <1>1, <1>5 DEF Tops, k
<1> QED
  BY <1>1, <1>4, <1>5, <1>6, <1>7 DEF k, GoesOn

LEMMA PushTops ==
  ASSUME NEW s \in Seq(Act), Tops(s), NEW a, s # <<>> => s[Len(s)].at # "count"
  PROVE  Tops(Append(s, a))
<1>1. /\ Len(s) \in Nat /\ DOMAIN s = 1 .. Len(s) /\ (s # <<>> <=> Len(s) >= 1)
      /\ DOMAIN Append(s, a) = 1 .. Len(s) + 1 /\ Len(Append(s, a)) = Len(s) + 1
      /\ \A n \in 1 .. Len(s) : Append(s, a)[n] = s[n]
  OBVIOUS
<1> QED
  BY <1>1 DEF Tops

LEMMA CutTops ==
  ASSUME NEW s \in Seq(Act), Tops(s), NEW k \in 0 .. Len(s)
  PROVE  Tops(SubSeq(s, 1, k))
<1>1. /\ Len(SubSeq(s, 1, k)) = k /\ DOMAIN SubSeq(s, 1, k) = 1 .. k /\ k <= Len(s)
      /\ \A n \in 1 .. k : SubSeq(s, 1, k)[n] = s[n]
      /\ DOMAIN s = 1 .. Len(s) /\ Len(s) \in Nat
  OBVIOUS
<1> QED
  BY <1>1 DEF Tops

(* Every error is caught: the host called lua_pcall.                       *)
LEMMA SomeCatcher ==
  ASSUME NEW s \in Seq(Act), s # <<>>, Shape(s)
  PROVE  \E n \in DOMAIN s : s[n].how # "hook" /\ \A m \in n + 1 .. Len(s) : s[m].how = "hook"
<1> DEFINE S == {n \in DOMAIN s : s[n].how # "hook"}
<1>1. DOMAIN s = 1 .. Len(s) /\ Len(s) \in Nat /\ 1 \in DOMAIN s
  OBVIOUS
<1>2. 1 \in S
  BY <1>1 DEF Shape
<1>3. IsFiniteSet(S)
  <2>1. IsFiniteSet(1 .. Len(s))
    BY <1>1, FS_Interval
  <2>2. S \subseteq 1 .. Len(s)
    BY <1>1
  <2> QED
    BY <2>1, <2>2, FS_Subset
<1>4. S \subseteq Int /\ S # {}
  BY <1>1, <1>2
<1> HIDE DEF S
<1>5. PICK n \in S : \A m \in S : n >= m
  BY <1>3, <1>4, GreatestNumber
<1>6. ASSUME NEW m \in n + 1 .. Len(s) PROVE s[m].how = "hook"
  <2>1. m \in DOMAIN s /\ ~ n >= m
    BY <1>1, <1>5 DEF S
  <2> QED
    BY <1>5, <2>1 DEF S
<1> QED
  BY <1>5, <1>6 DEF S

LEMMA ThrowInv ==
  ASSUME Parameters, Typed, Nesting(cstack, status, allowhook), Tops(cstack), cstack # <<>>, Throw
  PROVE  /\ cstack' \in Seq(Act) /\ Tops(cstack') /\ Nesting(cstack', status', allowhook')
         /\ allowhook' \in [Threads -> BOOLEAN] /\ armed' \in BOOLEAN
         /\ status' \in {"none", "fresh", "run", "yield", "dead"}
<1> DEFINE n == CHOOSE i \in DOMAIN cstack : cstack[i].how # "hook"
                  /\ \A j \in i + 1 .. Len(cstack) : cstack[j].how = "hook"
<1>1. cstack \in Seq(Act)
  BY DEF Typed
<1>2. n \in DOMAIN cstack /\ \A j \in n + 1 .. Len(cstack) : cstack[j].how = "hook"
  <2>1. \E i \in DOMAIN cstack : cstack[i].how # "hook"
           /\ \A j \in i + 1 .. Len(cstack) : cstack[j].how = "hook"
    BY <1>1, SomeCatcher DEF Nesting
  <2> QED
    BY <2>1
<1>3. /\ cstack' = SubSeq(cstack, 1, n - 1)
      /\ allowhook' = IF cstack[n].how = "resume" THEN allowhook
                      ELSE [allowhook EXCEPT ![cstack[n].t] = cstack[n].allow]
      /\ status' = IF cstack[n].how = "resume" THEN "dead" ELSE status
      /\ armed' = (armed /\ n > 1)
  BY DEF Throw, AllowedAgain
<1> HIDE DEF n
<1>4. cstack[n].t \in Threads /\ cstack[n].allow \in BOOLEAN
  BY <1>1, <1>2, ActOf
<1>5. allowhook' \in [Threads -> BOOLEAN] /\ armed' \in BOOLEAN
  BY <1>3, <1>4 DEF Typed
<1>6. status' \in {"none", "fresh", "run", "yield", "dead"}
  BY <1>3 DEF Typed
<1>7. /\ SubSeq(cstack, 1, n - 1) \in Seq(Act)
      /\ IF cstack[n].how = "resume" THEN Nesting(SubSeq(cstack, 1, n - 1), "dead", allowhook)
         ELSE Nesting(SubSeq(cstack, 1, n - 1), status, [allowhook EXCEPT ![cstack[n].t] = cstack[n].allow])
  <2>1. allowhook \in [Threads -> BOOLEAN]
    BY DEF Typed
  <2> QED
    BY <1>1, <1>2, <2>1, ThrowNests
<1>8. Tops(cstack')
  <2>1. n - 1 \in 0 .. Len(cstack)
    BY <1>1, <1>2
  <2> QED
    BY <1>1, <1>3, <2>1, CutTops
<1>9. Nesting(cstack', status', allowhook')
  BY <1>3, <1>7
<1> QED
  BY <1>3, <1>5, <1>6, <1>7, <1>8, <1>9

(* A hook is called, or not; what is below it goes on at `after' then.     *)
LEMMA CallHookInv ==
  ASSUME Parameters, Typed, Nesting(cstack, status, allowhook), Tops(cstack), cstack # <<>>,
         NEW wanted, NEW mask \in SUBSET Event, NEW after \in At, after # "count",
         CallHook(wanted, mask, after), UNCHANGED status
  PROVE  /\ cstack' \in Seq(Act) /\ Tops(cstack') /\ Nesting(cstack', status', allowhook')
         /\ allowhook' \in [Threads -> BOOLEAN]
<1> DEFINE below == [cstack EXCEPT ![Len(cstack)].at = after, ![Len(cstack)].mask = mask]
           act == [Activation(cur, "hook") EXCEPT !.at = IF hook[cur] = "lstop" THEN "lstop" ELSE "fetch"]
<1>1. cstack \in Seq(Act) /\ allowhook \in [Threads -> BOOLEAN] /\ cur \in Threads
      /\ cur = cstack[Len(cstack)].t
  BY TopOf DEF Typed
<1>2. /\ below \in Seq(Act) /\ below # <<>> /\ SameActs(below, cstack) /\ Tops(below)
      /\ below[Len(below)].t = cur /\ below[Len(below)].at = after
  <2>1. below = [cstack EXCEPT ![Len(cstack)].at = after, ![Len(cstack)].mask = mask]
    OBVIOUS
  <2> HIDE DEF below
  <2>2. GoesOn(below, cstack, after)
    BY <1>1, <2>1, TopGoesOn
  <2> QED
    BY <1>1, <2>2 DEF GoesOn
<1>3. act \in Act /\ act.t = cur /\ act.how = "hook" /\ act.allow = allowhook[cur]
  <2> DEFINE at == IF hook[cur] = "lstop" THEN "lstop" ELSE "fetch"
  <2>1. at \in At /\ act = [t |-> cur, how |-> "hook", at |-> at, mask |-> {}, allow |-> allowhook[cur]]
    <3>1. at \in At
      BY DEF At
    <3> HIDE DEF at
    <3>2. act = [Activation(cur, "hook") EXCEPT !.at = at]
      BY DEF at
    <3> HIDE DEF act
    <3>3. Activation(cur, "hook") = [t |-> cur, how |-> "hook", at |-> "fetch", mask |-> {}, allow |-> allowhook[cur]]
      BY Zenon DEF Activation
    <3> QED
      BY <3>1, <3>2, <3>3
  <2> HIDE DEF act, at
  <2> QED
    BY <1>1, <2>1 DEF How, Act
<1>4. \/ allowhook[cur] /\ cstack' = Append(below, act) /\ allowhook' = [allowhook EXCEPT ![cur] = FALSE]
      \/ cstack' = below /\ allowhook' = allowhook
  BY DEF CallHook
<1> HIDE DEF below, act
<1>5. Nesting(below, status, allowhook)
  BY <1>1, <1>2, GoesOnNests
<1>6. CASE allowhook[cur] /\ cstack' = Append(below, act) /\ allowhook' = [allowhook EXCEPT ![cur] = FALSE]
  <2>1. Nesting(Append(below, act), status, [allowhook EXCEPT ![cur] = FALSE]) /\ Append(below, act) \in Seq(Act)
    <3>1. act.allow /\ allowhook[act.t] /\ act.t = below[Len(below)].t
      BY <1>2, <1>3, <1>6
    <3>2. below \in Seq(Act) /\ act \in Act /\ below # <<>> /\ act.how = "hook"
      BY <1>2, <1>3
    <3>3. /\ Nesting(Append(below, act), status, [allowhook EXCEPT ![act.t] = FALSE])
          /\ Append(below, act) \in Seq(Act)
      BY <1>1, <1>5, <3>1, <3>2, HookNests
    <3> QED
      BY <1>3, <3>3
  <2>2. Tops(Append(below, act))
    BY <1>2, PushTops
  <2>3. allowhook' \in [Threads -> BOOLEAN]
    BY <1>1, <1>6
  <2> QED
    BY <1>6, <2>1, <2>2, <2>3
<1>7. CASE cstack' = below /\ allowhook' = allowhook
  BY <1>1, <1>2, <1>5, <1>7
<1> QED
  BY <1>4, <1>6, <1>7

LEMMA QuietChecked ==
  ASSUME Checked, UNCHANGED limits
  PROVE  Checked'
BY DEF Checked, limits

LEMMA QuietCounted ==
  ASSUME Counted, ~ Runs("count") \/ UNCHANGED cstack, UNCHANGED <<hooks, unhooked>>
  PROVE  Counted'
<1>1. CASE UNCHANGED cstack
  BY <1>1 DEF Counted, hooks, Runs, top, cur
<1>2. CASE ~ Runs("count")
  BY <1>2 DEF Counted, hooks
<1> QED
  BY <1>1, <1>2

LEMMA HookingCounted ==
  ASSUME Typed, Counted, ~ Runs("count") \/ UNCHANGED cstack,
         NEW t \in Threads, NEW f \in {"NULL", "hookf", "lstop"}, NEW mask \in SUBSET Event,
         NEW count \in 0 .. MaxCount, MaxCount \in Nat, Hooking(t, f, mask, count)
  PROVE  /\ Counted'
         /\ hook' \in [Threads -> {"NULL", "hookf", "lstop"}] /\ hookmask' \in [Threads -> SUBSET Event]
         /\ basehookcount' \in [Threads -> 0 .. MaxCount] /\ hookcount' \in [Threads -> -1 .. MaxCount]
         /\ unhooked' \in [Threads -> Nat]
<1>1. /\ hook' \in [Threads -> {"NULL", "hookf", "lstop"}] /\ hookmask' \in [Threads -> SUBSET Event]
      /\ basehookcount' \in [Threads -> 0 .. MaxCount] /\ hookcount' \in [Threads -> -1 .. MaxCount]
      /\ unhooked' \in [Threads -> Nat]
  BY DEF Hooking, Typed
<1>2. basehookcount'[t] = count /\ hookcount'[t] = count /\ unhooked'[t] = 0
  BY DEF Hooking, Typed
<1>3. \A u \in Threads : u # t => /\ basehookcount'[u] = basehookcount[u] /\ hookcount'[u] = hookcount[u]
                                  /\ unhooked'[u] = unhooked[u] /\ hookmask'[u] = hookmask[u]
  BY DEF Hooking, Typed
<1>4. ASSUME NEW u \in Threads, "count" \in hookmask'[u], basehookcount'[u] > 0
      PROVE  /\ hookcount'[u] >= 0 /\ unhooked'[u] + hookcount'[u] = basehookcount'[u]
             /\ hookcount'[u] = 0 => Runs("count")' /\ cur' = u
  <2>1. CASE u = t
    BY <1>2, <1>4, <2>1
  <2>2. CASE u # t
    <3>1. /\ hookcount[u] >= 0 /\ unhooked[u] + hookcount[u] = basehookcount[u]
          /\ hookcount[u] = 0 => Runs("count") /\ cur = u
      BY <1>3, <1>4, <2>2 DEF Counted
    <3>2. UNCHANGED cstack => (Runs("count")' <=> Runs("count")) /\ cur' = cur
      BY DEF Runs, cur, top
    <3> QED
      BY <1>3, <2>2, <3>1, <3>2
  <2> QED
    BY <2>1, <2>2
<1>5. Counted'
  BY <1>4 DEF Counted
<1> QED
  BY <1>1, <1>5

LEMMA InLuaIs ==
  ASSUME NEW at, Runs(at)
  PROVE  cstack # <<>> /\ (at # "count" => ~ Runs("count"))
BY DEF Runs

LEMMA GoesToInv ==
  ASSUME Parameters, Typed, Nesting(cstack, status, allowhook), Tops(cstack), cstack # <<>>,
         NEW at \in At, GoesTo(at)
  PROVE  GoesOn(cstack', cstack, at) /\ Nesting(cstack', status, allowhook)
<1>1. cstack \in Seq(Act)
  BY DEF Typed
<1>2. GoesOn(cstack', cstack, at)
  <2>1. {} \in SUBSET Event /\ cstack' = [cstack EXCEPT ![Len(cstack)].at = at]
    BY DEF GoesTo
  <2> QED
    BY <1>1, <2>1, TopGoesOn
<1> QED
  BY <1>1, <1>2, GoesOnNests DEF GoesOn

LEMMA InitInv == Parameters /\ Init => Inv
<1> SUFFICES ASSUME Parameters, Init PROVE Inv
  OBVIOUS
<1>1. MaxCount \in Nat
  BY MaxCountBounds
<1>2. Typed
  <2>1. 0 \in 0 .. MaxCount /\ 0 \in -1 .. MaxCount
    BY <1>1
  <2>2. <<>> \in Seq(Act)
    OBVIOUS
  <2> QED
    BY <2>1, <2>2 DEF Init, Typed
<1>3. Nesting(cstack, status, allowhook)
  <2>1. cstack = <<>> /\ DOMAIN cstack = {}
    BY DEF Init
  <2> QED
    BY <2>1 DEF Init, Nesting, Shape, Allows, Runner, Permits, Free
<1>4. Tops(cstack) /\ Checked /\ Counted
  BY DEF Init, Tops, Checked, Counted, Threads
<1> QED
  BY <1>2, <1>3, <1>4 DEF Inv

LEMMA DoCallInv == Parameters /\ Inv /\ DoCall => Inv'
<1> SUFFICES ASSUME Parameters, Inv, DoCall PROVE Inv'
  OBVIOUS
<1>1. main \in Threads /\ Activation(main, "host") \in Act
      /\ Activation(main, "host").t = main /\ Activation(main, "host").how = "host"
      /\ Activation(main, "host").allow = allowhook[main]
  BY NewActivation DEF Inv, Threads, How
<1>2. Nesting(cstack', status, allowhook) /\ cstack' \in Seq(Act)
  BY <1>1, HostNests DEF Inv, DoCall
<1>3. Tops(cstack')
  BY DEF DoCall, Tops
<1>4. Typed'
  BY <1>2 DEF Inv, Typed, DoCall, limits
<1>5. ~ Runs("count")
  BY DEF DoCall, Runs
<1>6. Checked' /\ Counted'
  BY <1>5, QuietChecked, QuietCounted DEF Inv, DoCall, hooks
<1> QED
  BY <1>2, <1>3, <1>4, <1>6 DEF Inv, DoCall

LEMMA PlainInv == Parameters /\ Inv /\ Plain => Inv'
<1> SUFFICES ASSUME Parameters, Inv, Plain PROVE Inv'
  OBVIOUS
<1>1. cstack # <<>> /\ ~ Runs("count")
  BY InLuaIs DEF Plain, InLua
<1>2. GoesOn(cstack', cstack, "fetch") /\ Nesting(cstack', status, allowhook)
  BY <1>1, GoesToInv DEF Inv, Plain, At
<1>3. Typed'
  BY <1>2 DEF Inv, Typed, Plain, GoesOn, limits, hooks
<1>4. Checked' /\ Counted'
  BY <1>1, QuietChecked, QuietCounted DEF Inv, Plain
<1> QED
  BY <1>2, <1>3, <1>4 DEF Inv, Plain, GoesOn

LEMMA ErrorInv == Parameters /\ Inv /\ Error => Inv'
<1> SUFFICES ASSUME Parameters, Inv, Error PROVE Inv'
  OBVIOUS
<1>1. cstack # <<>> /\ ~ Runs("count")
  BY InLuaIs DEF Error, InLua
<1>2. /\ cstack' \in Seq(Act) /\ Tops(cstack') /\ Nesting(cstack', status', allowhook')
      /\ allowhook' \in [Threads -> BOOLEAN] /\ armed' \in BOOLEAN
      /\ status' \in {"none", "fresh", "run", "yield", "dead"}
  BY <1>1, ThrowInv DEF Inv, Error
<1>3. Typed'
  BY <1>2 DEF Inv, Typed, Error, limits, hooks
<1>4. Checked' /\ Counted'
  BY <1>1, QuietChecked, QuietCounted DEF Inv, Error
<1> QED
  BY <1>2, <1>3, <1>4 DEF Inv

LEMMA LStopInv == Parameters /\ Inv /\ LStop => Inv'
<1> SUFFICES ASSUME Parameters, Inv, LStop PROVE Inv'
  OBVIOUS
<1>1. cstack # <<>> /\ ~ Runs("count")
  BY InLuaIs DEF LStop
<1>2. /\ cstack' \in Seq(Act) /\ Tops(cstack') /\ Nesting(cstack', status', allowhook')
      /\ allowhook' \in [Threads -> BOOLEAN] /\ armed' \in BOOLEAN
      /\ status' \in {"none", "fresh", "run", "yield", "dead"}
  BY <1>1, ThrowInv DEF Inv, LStop
<1>3. MaxCount \in Nat /\ cur \in Threads
  BY <1>1, MaxCountBounds, TopOf DEF Inv
<1>4. /\ Counted'
      /\ hook' \in [Threads -> {"NULL", "hookf", "lstop"}] /\ hookmask' \in [Threads -> SUBSET Event]
      /\ basehookcount' \in [Threads -> 0 .. MaxCount] /\ hookcount' \in [Threads -> -1 .. MaxCount]
      /\ unhooked' \in [Threads -> Nat]
  <2>1. Hooking(cur, "NULL", {}, 0) /\ 0 \in 0 .. MaxCount /\ {} \in SUBSET Event
    BY <1>3 DEF LStop
  <2> QED
    BY <1>1, <1>3, <2>1, HookingCounted DEF Inv
<1>5. Typed'
  BY <1>2, <1>4 DEF Inv, Typed, LStop, limits
<1>6. Checked'
  BY QuietChecked DEF Inv, LStop
<1> QED
  BY <1>2, <1>4, <1>5, <1>6 DEF Inv

LEMMA InterruptInv == Parameters /\ Inv /\ Interrupt => Inv'
<1> SUFFICES ASSUME Parameters, Inv, Interrupt PROVE Inv'
  OBVIOUS
<1>1. MaxCount \in Nat /\ 1 \in 0 .. MaxCount /\ main \in Threads
  BY MaxCountBounds DEF Threads
<1>2. /\ Counted'
      /\ hook' \in [Threads -> {"NULL", "hookf", "lstop"}] /\ hookmask' \in [Threads -> SUBSET Event]
      /\ basehookcount' \in [Threads -> 0 .. MaxCount] /\ hookcount' \in [Threads -> -1 .. MaxCount]
      /\ unhooked' \in [Threads -> Nat]
  <2>1. Hooking(main, "lstop", Event, 1) /\ UNCHANGED cstack
    BY DEF Interrupt
  <2> QED
    BY <1>1, <2>1, HookingCounted DEF Inv
<1>3. Typed'
  BY <1>2 DEF Inv, Typed, Interrupt, limits
<1>4. Checked'
  BY QuietChecked DEF Inv, Interrupt
<1> QED
  BY <1>2, <1>3, <1>4 DEF Inv, Interrupt

LEMMA PCallInv == Parameters /\ Inv /\ PCall => Inv'
<1> SUFFICES ASSUME Parameters, Inv, PCall PROVE Inv'
  OBVIOUS
<1>1. cstack # <<>> /\ ~ Runs("count")
  BY InLuaIs DEF PCall, InLua
<1> DEFINE r == [cstack EXCEPT ![Len(cstack)].at = "fetch"]
           a == Activation(cur, "pcall")
<1>2. cstack \in Seq(Act) /\ Nesting(cstack, status, allowhook) /\ Tops(cstack) /\ Typed
  BY DEF Inv, Typed
<1>3. cstack' = Append(r, a)
  BY DEF PCall
<1>4. cur \in Threads /\ cur = cstack[Len(cstack)].t
  BY <1>1, <1>2, TopOf
<1>5. a \in Act /\ a.t = cur /\ a.how = "pcall" /\ a.allow = allowhook[cur]
  BY <1>2, <1>4, NewActivation DEF How
<1>6. GoesOn(r, cstack, "fetch")
  <2>1. r = [cstack EXCEPT ![Len(cstack)].at = "fetch"] /\ "fetch" \in At /\ {} \in SUBSET Event
    BY DEF At
  <2> HIDE DEF r
  <2> QED
    BY <1>1, <1>2, <2>1, TopGoesOn
<1> HIDE DEF r, a
<1>7. Nesting(r, status, allowhook)
  BY <1>2, <1>6, GoesOnNests DEF GoesOn
<1>8. Nesting(cstack', status, allowhook) /\ cstack' \in Seq(Act)
  <2>1. r \in Seq(Act) /\ r # <<>> /\ a.t = r[Len(r)].t /\ (a.allow <=> allowhook[a.t])
    BY <1>4, <1>5, <1>6 DEF GoesOn
  <2> QED
    BY <1>3, <1>5, <1>7, <2>1, PCallNests
<1>9. Tops(cstack')
  BY <1>3, <1>6, PushTops DEF GoesOn
<1>10. Typed'
  BY <1>8 DEF Inv, Typed, PCall, limits, hooks
<1>11. Checked' /\ Counted'
  BY <1>1, QuietChecked, QuietCounted DEF Inv, PCall
<1> QED
  BY <1>8, <1>9, <1>10, <1>11 DEF Inv, PCall

LEMMA ResumeInv == Parameters /\ Inv /\ Resume => Inv'
<1> SUFFICES ASSUME Parameters, Inv, Resume PROVE Inv'
  OBVIOUS
<1>1. cstack # <<>> /\ ~ Runs("count")
  BY InLuaIs DEF Resume, InLua
<1> DEFINE r == [cstack EXCEPT ![Len(cstack)].at = "fetch"]
           a == Activation(co, "resume")
<1>2. cstack \in Seq(Act) /\ Nesting(cstack, status, allowhook) /\ Tops(cstack) /\ Typed
  BY DEF Inv, Typed
<1>3. cstack' = Append(r, a) /\ cur # co /\ status \in {"fresh", "yield"} /\ status' = "run"
  BY DEF Resume
<1>4. cur \in Threads /\ cur = cstack[Len(cstack)].t
  BY <1>1, <1>2, TopOf
<1>5. a \in Act /\ a.t = co /\ a.how = "resume" /\ a.allow = allowhook[co]
  BY <1>2, NewActivation DEF How, Threads
<1>6. GoesOn(r, cstack, "fetch")
  <2>1. r = [cstack EXCEPT ![Len(cstack)].at = "fetch"] /\ "fetch" \in At /\ {} \in SUBSET Event
    BY DEF At
  <2> HIDE DEF r
  <2> QED
    BY <1>1, <1>2, <2>1, TopGoesOn
<1> HIDE DEF r, a
<1>7. Nesting(r, status, allowhook)
  BY <1>2, <1>6, GoesOnNests DEF GoesOn
<1>8. Nesting(cstack', status', allowhook) /\ cstack' \in Seq(Act)
  <2>1. r \in Seq(Act) /\ r # <<>> /\ r[Len(r)].t # co /\ (a.allow <=> allowhook[co])
    BY <1>3, <1>4, <1>5, <1>6 DEF GoesOn
  <2> QED
    BY <1>3, <1>5, <1>7, <2>1, ResumeNests
<1>9. Tops(cstack')
  BY <1>3, <1>6, PushTops DEF GoesOn
<1>10. Typed'
  BY <1>3, <1>8 DEF Inv, Typed, Resume, limits, hooks
<1>11. Checked' /\ Counted'
  BY <1>1, QuietChecked, QuietCounted DEF Inv, Resume
<1> QED
  BY <1>8, <1>9, <1>10, <1>11 DEF Inv, Resume

LEMMA ReturnInv == Parameters /\ Inv /\ Return => Inv'
<1> SUFFICES ASSUME Parameters, Inv, Return PROVE Inv'
  OBVIOUS
<1>1. cstack # <<>> /\ ~ Runs("count")
  BY InLuaIs DEF Return, InLua
<1> DEFINE n == Len(cstack)
<1>2. /\ cstack \in Seq(Act) /\ Nesting(cstack, status, allowhook) /\ Tops(cstack) /\ Typed
      /\ allowhook \in [Threads -> BOOLEAN]
  BY DEF Inv, Typed
<1>3. cur \in Threads /\ cur = cstack[n].t /\ top = cstack[n] /\ top.how \in How
  BY <1>1, <1>2, TopOf
<1>4. /\ Front(cstack) \in Seq(Act)
      /\ cstack[n].how = "hook" => Nesting(Front(cstack), status, [allowhook EXCEPT ![cstack[n].t] = TRUE])
      /\ cstack[n].how = "resume" => Nesting(Front(cstack), "dead", allowhook) /\ Nesting(Front(cstack), "yield", allowhook)
      /\ cstack[n].how \in {"host", "pcall"} => Nesting(Front(cstack), status, allowhook)
  BY <1>1, <1>2, ReturnNests
<1>5. /\ cstack' = Front(cstack)
      /\ allowhook' = IF cstack[n].how = "hook" THEN [allowhook EXCEPT ![cstack[n].t] = TRUE] ELSE allowhook
      /\ status' = IF cstack[n].how = "resume" THEN "dead" ELSE status
      /\ armed' = (armed /\ cstack[n].how # "host")
  BY <1>3 DEF Return
<1>6. Tops(cstack')
  <2>1. n - 1 \in 0 .. Len(cstack)
    BY <1>1, <1>2
  <2> QED
    BY <1>2, <1>5, <2>1, CutTops DEF Front
<1> HIDE DEF n
<1>7. Nesting(cstack', status', allowhook')
  BY <1>3, <1>4, <1>5 DEF How
<1>8. allowhook' \in [Threads -> BOOLEAN]
  BY <1>2, <1>3, <1>5
<1>9. Typed'
  BY <1>4, <1>5, <1>8 DEF Inv, Typed, Return, limits, hooks
<1>10. Checked' /\ Counted'
  BY <1>1, QuietChecked, QuietCounted DEF Inv, Return
<1> QED
  BY <1>6, <1>7, <1>9, <1>10 DEF Inv

LEMMA YieldInv == Parameters /\ Inv /\ Yield => Inv'
<1> SUFFICES ASSUME Parameters, Inv, Yield PROVE Inv'
  OBVIOUS
<1>1. cstack # <<>> /\ ~ Runs("count")
  BY InLuaIs DEF Yield, InLua
<1> DEFINE n == Len(cstack)
<1>2. /\ cstack \in Seq(Act) /\ Nesting(cstack, status, allowhook) /\ Tops(cstack) /\ Typed
      /\ allowhook \in [Threads -> BOOLEAN]
  BY DEF Inv, Typed
<1>3. top = cstack[n] /\ cstack[n].how = "resume"
  BY <1>1, <1>2, TopOf DEF Yield
<1>4. Front(cstack) \in Seq(Act) /\ Nesting(Front(cstack), "yield", allowhook)
  BY <1>1, <1>2, <1>3, ReturnNests
<1>5. cstack' = Front(cstack) /\ status' = "yield" /\ allowhook' = allowhook
  BY DEF Yield
<1>6. Tops(cstack')
  <2>1. n - 1 \in 0 .. Len(cstack)
    BY <1>1, <1>2
  <2> QED
    BY <1>2, <1>5, <2>1, CutTops DEF Front
<1>7. Typed'
  BY <1>4, <1>5 DEF Inv, Typed, Yield, limits, hooks
<1>8. Checked' /\ Counted'
  BY <1>1, QuietChecked, QuietCounted DEF Inv, Yield
<1> QED
  BY <1>4, <1>5, <1>6, <1>7, <1>8 DEF Inv

LEMMA TraceLineInv == Parameters /\ Inv /\ TraceLine => Inv'
<1> SUFFICES ASSUME Parameters, Inv, TraceLine PROVE Inv'
  OBVIOUS
<1>1. cstack # <<>> /\ ~ Runs("count")
  BY InLuaIs DEF TraceLine
<1>2. PICK newline \in BOOLEAN : CallHook("line" \in top.mask /\ newline, {}, "limit")
  BY DEF TraceLine
<1>3. /\ cstack' \in Seq(Act) /\ Tops(cstack') /\ Nesting(cstack', status', allowhook')
      /\ allowhook' \in [Threads -> BOOLEAN]
  <2>1. {} \in SUBSET Event /\ "limit" \in At
    BY DEF At
  <2> QED
    BY <1>1, <1>2, <2>1, CallHookInv DEF Inv, TraceLine
<1>4. Typed'
  BY <1>3 DEF Inv, Typed, TraceLine, limits, hooks
<1>5. Checked' /\ Counted'
  BY <1>1, QuietChecked, QuietCounted DEF Inv, TraceLine
<1> QED
  BY <1>3, <1>4, <1>5 DEF Inv

LEMMA SetHookInv ==
  Parameters /\ Inv /\ (\E t \in Threads, mask \in Masks, n \in HookCounts : SetHook(t, mask, n)) => Inv'
<1> SUFFICES ASSUME Parameters, Inv, NEW t \in Threads, NEW mask \in Masks, NEW n \in HookCounts,
                    SetHook(t, mask, n)
             PROVE  Inv'
  OBVIOUS
<1>1. cstack # <<>> /\ ~ Runs("count")
  BY InLuaIs DEF SetHook, InLua
<1>2. GoesOn(cstack', cstack, "fetch") /\ Nesting(cstack', status, allowhook)
  BY <1>1, GoesToInv DEF Inv, SetHook, At
<1>3. /\ Counted'
      /\ hook' \in [Threads -> {"NULL", "hookf", "lstop"}] /\ hookmask' \in [Threads -> SUBSET Event]
      /\ basehookcount' \in [Threads -> 0 .. MaxCount] /\ hookcount' \in [Threads -> -1 .. MaxCount]
      /\ unhooked' \in [Threads -> Nat]
  <2> DEFINE count == IF "count" \in mask THEN n ELSE 0
  <2>1. MaxCount \in Nat /\ count \in 0 .. MaxCount /\ mask \in SUBSET Event
    <3>1. MaxCount \in Nat /\ n \in 0 .. MaxCount
      BY MaxCountBounds
    <3> QED
      BY <3>1 DEF Parameters
  <2>2. Hooking(t, "hookf", mask, count)
    BY DEF SetHook
  <2> HIDE DEF count
  <2> QED
    BY <1>1, <2>1, <2>2, HookingCounted DEF Inv
<1>4. Typed'
  BY <1>2, <1>3 DEF Inv, Typed, SetHook, GoesOn, limits
<1>5. Checked'
  BY QuietChecked DEF Inv, SetHook
<1> QED
  BY <1>2, <1>3, <1>4, <1>5 DEF Inv, SetHook, GoesOn

LEMMA SetScriptTimeoutInv ==
  Parameters /\ Inv /\ (\E n \in CheckCounts : SetScriptTimeout(n)) => Inv'
<1> SUFFICES ASSUME Parameters, Inv, NEW n \in CheckCounts, SetScriptTimeout(n) PROVE Inv'
  OBVIOUS
<1>1. cstack # <<>> /\ ~ Runs("count")
  BY InLuaIs DEF SetScriptTimeout, InLua
<1>2. GoesOn(cstack', cstack, "fetch") /\ Nesting(cstack', status, allowhook)
  BY <1>1, GoesToInv DEF Inv, SetScriptTimeout, At
<1>3. MaxCount \in Nat /\ n \in 0 .. MaxCount /\ n \in -1 .. MaxCount /\ cur \in Threads
  BY <1>1, MaxCountBounds, TopOf DEF Inv
<1>4. /\ limit' = [limit EXCEPT ![cur] = n] /\ left' = [left EXCEPT ![cur] = n]
      /\ own' = own \cup {cur} /\ unchecked' = [unchecked EXCEPT ![cur] = 0]
  BY DEF SetScriptTimeout, Restart
<1>5. /\ limit' \in [Threads -> 0 .. MaxCount] /\ left' \in [Threads -> -1 .. MaxCount]
      /\ unchecked' \in [Threads -> Nat] /\ own' \subseteq Threads
  BY <1>3, <1>4 DEF Inv, Typed
<1>6. Typed'
  BY <1>2, <1>5 DEF Inv, Typed, SetScriptTimeout, GoesOn, hooks
<1>7. Checked'
  BY <1>3, <1>4 DEF Inv, Typed, Checked
<1>8. Counted'
  BY <1>1, QuietCounted DEF Inv, SetScriptTimeout
<1> QED
  BY <1>2, <1>6, <1>7, <1>8 DEF Inv, SetScriptTimeout, GoesOn

LEMMA LimitInv == Parameters /\ Inv /\ (\E late \in BOOLEAN : Limit(late)) => Inv'
<1> SUFFICES ASSUME Parameters, Inv, NEW late \in BOOLEAN, Limit(late) PROVE Inv'
  OBVIOUS
<1>1. cstack # <<>> /\ ~ Runs("count")
  BY InLuaIs DEF Limit
<1>2. cur \in Threads /\ MaxCount \in Nat
  BY <1>1, MaxCountBounds, TopOf DEF Inv
<1> DEFINE t == cur
           n == left[t] - 1
           looks == limit[t] > 0 /\ n = 0
<1>3. /\ left' = [left EXCEPT ![t] = IF limit[t] = 0 THEN left[t] ELSE IF looks THEN limit[t]
                                     ELSE IF n < 0 THEN -1 ELSE n]
      /\ unchecked' = [unchecked EXCEPT ![t] = IF looks \/ limit[t] = 0 THEN 0
                                        ELSE IF unchecked[t] <= MaxCount THEN unchecked[t] + 1
                                        ELSE unchecked[t]]
      /\ UNCHANGED <<hooks, limit, own, unhooked>>
      /\ Throw \/ (GoesTo("execute") /\ UNCHANGED <<allowhook, status, armed>>)
  <2>1. left' = [left EXCEPT ![t] = IF limit[t] = 0 THEN left[t] ELSE IF looks THEN limit[t]
                                     ELSE IF n < 0 THEN -1 ELSE n]
    BY DEF Limit
  <2>2. unchecked' = [unchecked EXCEPT ![t] = IF looks \/ limit[t] = 0 THEN 0
                                        ELSE IF unchecked[t] <= MaxCount THEN unchecked[t] + 1
                                        ELSE unchecked[t]]
    BY DEF Limit
  <2>3. UNCHANGED <<hooks, limit, own, unhooked>>
    BY DEF Limit
  <2>4. Throw \/ (GoesTo("execute") /\ UNCHANGED <<allowhook, status, armed>>)
    BY DEF Limit
  <2> QED
    BY <2>1, <2>2, <2>3, <2>4
<1>4. limit[t] \in 0 .. MaxCount /\ left[t] \in -1 .. MaxCount /\ unchecked[t] \in Nat
  BY <1>2 DEF Inv, Typed
<1>5. /\ left' \in [Threads -> -1 .. MaxCount] /\ unchecked' \in [Threads -> Nat]
  <2>1. (IF limit[t] = 0 THEN left[t] ELSE IF looks THEN limit[t] ELSE IF n < 0 THEN -1 ELSE n) \in -1 .. MaxCount
    BY <1>2, <1>4
  <2>2. (IF looks \/ limit[t] = 0 THEN 0
         ELSE IF unchecked[t] <= MaxCount THEN unchecked[t] + 1 ELSE unchecked[t]) \in Nat
    BY <1>2, <1>4
  <2> HIDE DEF t, n, looks
  <2> QED
    BY <1>3, <2>1, <2>2 DEF Inv, Typed
<1>6. Checked'
  <2> SUFFICES ASSUME NEW u \in Threads, u \in own', limit'[u] > 0
               PROVE  left'[u] >= 1 /\ unchecked'[u] + left'[u] = limit'[u]
    BY DEF Checked
  <2>1. left[u] >= 1 /\ unchecked[u] + left[u] = limit[u]
    BY <1>3 DEF Inv, Checked
  <2>2. CASE u # t
    BY <1>3, <2>1, <2>2 DEF Inv, Typed
  <2>3. CASE u = t
    <3>1. /\ left'[t] = IF limit[t] = 0 THEN left[t] ELSE IF looks THEN limit[t] ELSE IF n < 0 THEN -1 ELSE n
          /\ unchecked'[t] = IF looks \/ limit[t] = 0 THEN 0
                             ELSE IF unchecked[t] <= MaxCount THEN unchecked[t] + 1 ELSE unchecked[t]
      BY <1>2, <1>3 DEF Inv, Typed
    <3>2. limit'[t] = limit[t]
      BY <1>3
    <3> QED
      BY <1>2, <1>4, <2>1, <2>3, <3>1, <3>2
  <2> QED
    BY <2>2, <2>3
<1> HIDE DEF t, n, looks
<1>7. /\ cstack' \in Seq(Act) /\ Tops(cstack') /\ Nesting(cstack', status', allowhook')
      /\ allowhook' \in [Threads -> BOOLEAN] /\ armed' \in BOOLEAN
      /\ status' \in {"none", "fresh", "run", "yield", "dead"}
  <2>1. CASE Throw
    BY <1>1, <2>1, ThrowInv DEF Inv
  <2>2. CASE GoesTo("execute") /\ UNCHANGED <<allowhook, status, armed>>
    <3>1. GoesOn(cstack', cstack, "execute") /\ Nesting(cstack', status, allowhook)
      BY <1>1, <2>2, GoesToInv DEF Inv, At
    <3> QED
      BY <2>2, <3>1 DEF Inv, Typed, GoesOn
  <2> QED
    BY <1>3, <2>1, <2>2
<1>8. Typed'
  BY <1>3, <1>5, <1>7 DEF Inv, Typed, hooks
<1>9. Counted'
  BY <1>1, <1>3, QuietCounted DEF Inv
<1> QED
  BY <1>6, <1>7, <1>8, <1>9 DEF Inv

LEMMA FetchInv == Parameters /\ Inv /\ Fetch => Inv'
<1> SUFFICES ASSUME Parameters, Inv, Fetch PROVE Inv'
  OBVIOUS
<1>1. cstack # <<>> /\ ~ Runs("count")
  BY InLuaIs DEF Fetch
<1>2. cur \in Threads /\ cur = cstack[Len(cstack)].t /\ MaxCount \in Nat
  BY <1>1, MaxCountBounds, TopOf DEF Inv
<1> DEFINE t == cur
           counts == "count" \in hookmask[t]
           n == hookcount[t] - (IF counts THEN 1 ELSE 0)
           at == IF (counts /\ n = 0) \/ "line" \in hookmask[t] THEN "count" ELSE "limit"
<1>3. /\ hookcount' = [hookcount EXCEPT ![t] = IF n < 0 THEN -1 ELSE n]
      /\ unhooked' = [unhooked EXCEPT ![t] = IF counts /\ unhooked[t] <= MaxCount
                                             THEN unhooked[t] + 1 ELSE unhooked[t]]
      /\ cstack' = [cstack EXCEPT ![Len(cstack)].at = at]
      /\ UNCHANGED <<hook, hookmask, basehookcount, allowhook, limits, status, armed>>
  BY DEF Fetch
<1>4. hookcount[t] \in -1 .. MaxCount /\ unhooked[t] \in Nat /\ basehookcount[t] \in 0 .. MaxCount
  BY <1>2 DEF Inv, Typed
<1>5. hookcount' \in [Threads -> -1 .. MaxCount] /\ unhooked' \in [Threads -> Nat]
  <2>1. (IF n < 0 THEN -1 ELSE n) \in -1 .. MaxCount
    BY <1>2, <1>4
  <2>2. (IF counts /\ unhooked[t] <= MaxCount THEN unhooked[t] + 1 ELSE unhooked[t]) \in Nat
    BY <1>2, <1>4
  <2> HIDE DEF t, n, counts
  <2> QED
    BY <1>3, <2>1, <2>2 DEF Inv, Typed
<1>6. at \in At /\ GoesTo(at)
  BY <1>3 DEF At, GoesTo
<1>7. GoesOn(cstack', cstack, at) /\ Nesting(cstack', status, allowhook)
  <2> HIDE DEF at
  <2> QED
    BY <1>1, <1>6, GoesToInv DEF Inv
<1>8. cur' = t /\ cstack' # <<>> /\ top'.at = at
  BY <1>2, <1>7 DEF GoesOn, cur, top, Last
<1>9. Counted'
  <2> SUFFICES ASSUME NEW u \in Threads, "count" \in hookmask'[u], basehookcount'[u] > 0
               PROVE  /\ hookcount'[u] >= 0 /\ unhooked'[u] + hookcount'[u] = basehookcount'[u]
                      /\ hookcount'[u] = 0 => Runs("count")' /\ cur' = u
    BY DEF Counted
  <2>1. hookcount[u] >= 0 /\ unhooked[u] + hookcount[u] = basehookcount[u] /\ hookcount[u] # 0
    BY <1>1, <1>3 DEF Inv, Counted
  <2>2. CASE u # t
    BY <1>3, <2>1, <2>2 DEF Inv, Typed
  <2>3. CASE u = t
    <3>1. counts /\ n = hookcount[t] - 1
      BY <1>3, <2>3
    <3>2. hookcount'[t] = n /\ n >= 0 /\ unhooked'[t] = unhooked[t] + 1 /\ basehookcount'[t] = basehookcount[t]
      <4>1. /\ hookcount'[t] = IF n < 0 THEN -1 ELSE n
            /\ unhooked'[t] = IF counts /\ unhooked[t] <= MaxCount THEN unhooked[t] + 1 ELSE unhooked[t]
        BY <1>2, <1>3 DEF Inv, Typed
      <4>2. n >= 0 /\ unhooked[t] <= MaxCount
        BY <1>2, <1>4, <2>1, <2>3, <3>1
      <4> QED
        BY <1>2, <1>3, <1>4, <3>1, <4>1, <4>2
    <3>3. n = 0 => at = "count"
      BY <3>1
    <3>4. n = 0 => Runs("count")' /\ cur' = t
      BY <1>8, <3>3 DEF Runs
    <3> QED
      BY <1>4, <2>1, <2>3, <3>1, <3>2, <3>4
  <2> QED
    BY <2>2, <2>3
<1> HIDE DEF t, n, counts, at
<1>10. Typed'
  BY <1>3, <1>5, <1>7 DEF Inv, Typed, GoesOn, limits
<1>11. Checked'
  BY <1>3, QuietChecked DEF Inv
<1> QED
  BY <1>3, <1>7, <1>9, <1>10, <1>11 DEF Inv, GoesOn

LEMMA TraceCountInv == Parameters /\ Inv /\ TraceCount => Inv'
<1> SUFFICES ASSUME Parameters, Inv, TraceCount PROVE Inv'
  OBVIOUS
<1>1. cstack # <<>>
  BY InLuaIs DEF TraceCount
<1>2. cur \in Threads /\ MaxCount \in Nat
  BY <1>1, MaxCountBounds, TopOf DEF Inv
<1> DEFINE t == cur
           due == "count" \in hookmask[t] /\ hookcount[t] = 0
<1>3. /\ hookcount' = IF due THEN [hookcount EXCEPT ![t] = basehookcount[t]] ELSE hookcount
      /\ unhooked' = IF due THEN [unhooked EXCEPT ![t] = 0] ELSE unhooked
      /\ CallHook(due, hookmask[t], "line")
      /\ UNCHANGED <<hook, hookmask, basehookcount, limits, status, armed>>
  BY DEF TraceCount
<1>4. hookmask[t] \in SUBSET Event /\ basehookcount[t] \in 0 .. MaxCount
  BY <1>2 DEF Inv, Typed
<1>5. hookcount' \in [Threads -> -1 .. MaxCount] /\ unhooked' \in [Threads -> Nat]
  <2>1. basehookcount[t] \in -1 .. MaxCount
    BY <1>2, <1>4
  <2> QED
    BY <1>2, <1>3, <2>1 DEF Inv, Typed
<1>6. Counted'
  <2> SUFFICES ASSUME NEW u \in Threads, "count" \in hookmask'[u], basehookcount'[u] > 0
               PROVE  hookcount'[u] > 0 /\ unhooked'[u] + hookcount'[u] = basehookcount'[u]
    BY <1>2, <1>5 DEF Counted
  <2>1. /\ hookcount[u] >= 0 /\ unhooked[u] + hookcount[u] = basehookcount[u]
        /\ hookcount[u] = 0 => cur = u
    BY <1>3 DEF Inv, Counted
  <2>2. basehookcount[u] \in 0 .. MaxCount /\ hookcount[u] \in -1 .. MaxCount
    BY DEF Inv, Typed
  <2>3. CASE hookcount[u] = 0
    <3>1. u = t /\ due
      BY <1>3, <2>1, <2>3
    <3>2. hookcount'[u] = basehookcount[u] /\ unhooked'[u] = 0
      BY <1>2, <1>3, <3>1 DEF Inv, Typed
    <3> QED
      BY <1>3, <2>2, <3>2
  <2>4. CASE hookcount[u] # 0
    <3>1. hookcount'[u] = hookcount[u] /\ unhooked'[u] = unhooked[u]
      BY <1>2, <1>3, <2>4 DEF Inv, Typed
    <3> QED
      BY <1>3, <2>1, <2>2, <2>4, <3>1
  <2> QED
    BY <2>3, <2>4
<1>7. /\ cstack' \in Seq(Act) /\ Tops(cstack') /\ Nesting(cstack', status', allowhook')
      /\ allowhook' \in [Threads -> BOOLEAN]
  <2> HIDE DEF t, due
  <2>1. "line" \in At
    BY DEF At
  <2> QED
    BY <1>1, <1>3, <1>4, <2>1, CallHookInv DEF Inv
<1> HIDE DEF t, due
<1>8. Typed'
  BY <1>3, <1>5, <1>7 DEF Inv, Typed, limits
<1>9. Checked'
  BY <1>3, QuietChecked DEF Inv
<1> QED
  BY <1>6, <1>7, <1>8, <1>9 DEF Inv

LEMMA NewThreadInv == Parameters /\ Inv /\ NewThread => Inv'
<1> SUFFICES ASSUME Parameters, Inv, NewThread PROVE Inv'
  OBVIOUS
<1>1. cstack # <<>> /\ ~ Runs("count")
  BY InLuaIs DEF NewThread, InLua
<1>2. cur \in Threads /\ co \in Threads /\ MaxCount \in Nat
  BY <1>1, MaxCountBounds, TopOf DEF Inv, Threads
<1>3. /\ hook' = [hook EXCEPT ![co] = hook[cur]] /\ hookmask' = [hookmask EXCEPT ![co] = hookmask[cur]]
      /\ basehookcount' = [basehookcount EXCEPT ![co] = basehookcount[cur]]
      /\ hookcount' = [hookcount EXCEPT ![co] = basehookcount[cur]]
      /\ allowhook' = [allowhook EXCEPT ![co] = TRUE]
      /\ limit' = [limit EXCEPT ![co] = limit[cur]]
      /\ left' = [left EXCEPT ![co] = 0]
      /\ own' = own \ {co}
      /\ unchecked' = [unchecked EXCEPT ![co] = 0]
      /\ unhooked' = [unhooked EXCEPT ![co] = 0]
      /\ GoesTo("fetch") /\ status' = "fresh" /\ armed' = armed
      /\ status \in {"none", "dead"} /\ \A n \in DOMAIN cstack : cstack[n].t # co
  BY DEF NewThread
<1>4. GoesOn(cstack', cstack, "fetch") /\ Nesting(cstack', status, allowhook)
  BY <1>1, <1>3, GoesToInv DEF Inv, At
<1>5. Nesting(cstack', status', allowhook')
  <2>1. \A n \in DOMAIN cstack' : cstack'[n].t # co
    BY <1>3, <1>4 DEF GoesOn, SameActs
  <2>2. Runner(cstack', status')
    BY <1>3, <2>1 DEF Runner
  <2>3. Free(cstack', co)
    BY <2>1 DEF Free, IsHookOf
  <2>4. \A t \in Threads : t # co => allowhook'[t] = allowhook[t]
    BY <1>3 DEF Inv, Typed
  <2>5. allowhook'[co] = TRUE
    BY <1>2, <1>3 DEF Inv, Typed
  <2>6. Permits(cstack', status', allowhook')
    BY <1>4, <2>3, <2>4, <2>5 DEF Nesting, Permits
  <2> QED
    BY <1>4, <2>2, <2>6 DEF Nesting
<1>6. Typed'
  <2>1. /\ hook' \in [Threads -> {"NULL", "hookf", "lstop"}] /\ hookmask' \in [Threads -> SUBSET Event]
        /\ basehookcount' \in [Threads -> 0 .. MaxCount] /\ allowhook' \in [Threads -> BOOLEAN]
        /\ limit' \in [Threads -> 0 .. MaxCount]
    BY <1>2, <1>3 DEF Inv, Typed
  <2>2. basehookcount[cur] \in -1 .. MaxCount /\ 0 \in -1 .. MaxCount
    BY <1>2 DEF Inv, Typed
  <2>3. /\ hookcount' \in [Threads -> -1 .. MaxCount] /\ left' \in [Threads -> -1 .. MaxCount]
        /\ unchecked' \in [Threads -> Nat] /\ unhooked' \in [Threads -> Nat]
    BY <1>2, <1>3, <2>2 DEF Inv, Typed
  <2>4. own' \subseteq Threads /\ armed' \in BOOLEAN /\ status' \in {"none", "fresh", "run", "yield", "dead"}
    BY <1>3 DEF Inv, Typed
  <2> QED
    BY <1>4, <2>1, <2>3, <2>4 DEF Typed, GoesOn
<1>7. Checked'
  <2> SUFFICES ASSUME NEW t \in Threads, t \in own', limit'[t] > 0
               PROVE  left'[t] >= 1 /\ unchecked'[t] + left'[t] = limit'[t]
    BY DEF Checked
  <2>1. t # co /\ t \in own
    BY <1>3
  <2> QED
    BY <1>3, <2>1 DEF Inv, Typed, Checked
<1>8. Counted'
  <2> SUFFICES ASSUME NEW t \in Threads, "count" \in hookmask'[t], basehookcount'[t] > 0
               PROVE  hookcount'[t] > 0 /\ unhooked'[t] + hookcount'[t] = basehookcount'[t]
    BY <1>6 DEF Counted, Typed
  <2>1. CASE t = co
    BY <1>2, <1>3, <2>1 DEF Inv, Typed
  <2>2. CASE t # co
    <3>1. /\ hookcount'[t] = hookcount[t] /\ unhooked'[t] = unhooked[t]
          /\ basehookcount'[t] = basehookcount[t] /\ hookmask'[t] = hookmask[t]
      BY <1>3, <2>2 DEF Inv, Typed
    <3>2. hookcount[t] >= 0 /\ unhooked[t] + hookcount[t] = basehookcount[t] /\ hookcount[t] # 0
      BY <1>1, <3>1 DEF Inv, Counted
    <3>3. hookcount[t] \in -1 .. MaxCount
      BY DEF Inv, Typed
    <3> QED
      BY <1>2, <3>1, <3>2, <3>3
  <2> QED
    BY <2>1, <2>2
<1> QED
  BY <1>4, <1>5, <1>6, <1>7, <1>8 DEF Inv, GoesOn

LEMMA StutterInv == Parameters /\ Inv /\ UNCHANGED vars => Inv'
<1> SUFFICES ASSUME Inv, UNCHANGED vars PROVE Inv'
  OBVIOUS
<1>1. Typed' /\ Nesting(cstack', status', allowhook') /\ Tops(cstack')
  BY DEF Inv, Typed, vars
<1>2. Checked' /\ Counted'
  BY QuietChecked, QuietCounted DEF Inv, vars, limits, hooks
<1> QED
  BY <1>1, <1>2 DEF Inv

LEMMA NextInv == Parameters /\ Inv /\ [Next]_vars => Inv'
<1>1. Parameters /\ Inv /\ Instruction => Inv'
  BY PlainInv, PCallInv, ErrorInv, ReturnInv, NewThreadInv, ResumeInv, YieldInv, SetHookInv,
     SetScriptTimeoutInv DEF Instruction
<1> QED
  BY <1>1, StutterInv, DoCallInv, FetchInv, TraceCountInv, TraceLineInv, LStopInv, InterruptInv, LimitInv
  DEF Next

-----------------------------------------------------------------------------
(* Part 5: the theorems.                                                   *)

(* The activations of the interpreter nest as the calls of lua_pcall,      *)
(* lua_resume and luaD_callhook do that made them, each of those that      *)
(* catch errors has saved the allowhook an error must give back, and the   *)
(* counters of lvm.c agree with the instructions run since the last event. *)
THEOREM HooksAreKept == Parameters => (Spec => []Inv)
<1> SUFFICES ASSUME Parameters PROVE Spec => []Inv
  OBVIOUS
<1>1. Parameters /\ Init => Inv
  BY InitInv
<1>2. Parameters /\ Inv /\ [Next]_vars => Inv'
  BY NextInv
<1> QED
  BY <1>1, <1>2, PTL DEF Spec

(* Every field has its type, whatever the signal and the hooks write.      *)
THEOREM TypesOfHooks == Parameters => (Spec => []TypeOK)
<1> SUFFICES ASSUME Parameters PROVE Spec => []TypeOK
  OBVIOUS
<1>1. Inv => TypeOK
  <2> SUFFICES ASSUME Inv PROVE TypeOK
    OBVIOUS
  <2>1. \A n \in DOMAIN cstack : cstack[n].t \in Threads
    <3>1. cstack \in Seq(Act) /\ DOMAIN cstack = 1 .. Len(cstack)
      BY DEF Inv, Typed
    <3> QED
      BY <3>1, ActOf
  <2> QED
    BY <2>1 DEF Inv, Typed, TypeOK
<1> QED
  BY <1>1, HooksAreKept, PTL

(* A thread runs one hook at most, and luaD_callhook may call one exactly  *)
(* if none runs, after returns, errors, yields, and the signal's hook.     *)
THEOREM HooksNeverNest == Parameters => (Spec => []HooksDoNotNest)
<1> SUFFICES ASSUME Parameters PROVE Spec => []HooksDoNotNest
  OBVIOUS
<1>1. Inv => HooksDoNotNest
  <2> SUFFICES ASSUME Inv, NEW t \in Threads, t = co => status # "dead",
                      NEW running, running = {n \in DOMAIN cstack : cstack[n].t = t /\ cstack[n].how = "hook"}
               PROVE  Cardinality(running) <= 1 /\ (allowhook[t] <=> running = {})
    BY DEF HooksDoNotNest
  <2>1. \A n, m \in running : n = m
    BY DEF Inv, Nesting, Allows, IsHookOf
  <2>2. Cardinality(running) <= 1
    <3>1. CASE running = {}
      BY <3>1, FS_EmptySet
    <3>2. CASE running # {}
      <4>1. PICK n : running = {n}
        BY <2>1, <3>2
      <4> QED
        <5>1. Cardinality({n}) = 1
          BY FS_Singleton
        <5> QED
          BY <4>1, <5>1
    <3> QED
      BY <3>1, <3>2
  <2>3. Free(cstack, t) <=> running = {}
    BY DEF Free, IsHookOf
  <2> QED
    BY <2>2, <2>3 DEF Inv, Nesting, Permits
<1> QED
  BY <1>1, HooksAreKept, PTL

(* The clock is looked at, and the count hook called, as often as asked:   *)
(* luaV_execute loses no count over hooks, errors, signals and coroutines. *)
THEOREM ChecksComeRegularly == Parameters => (Spec => []ChecksAreRegular)
<1> SUFFICES ASSUME Parameters PROVE Spec => []ChecksAreRegular
  OBVIOUS
<1>1. Parameters /\ Inv => ChecksAreRegular
  <2> SUFFICES ASSUME Parameters, Inv, NEW t \in Threads
               PROVE  /\ t \in own /\ limit[t] > 0 => unchecked[t] < limit[t]
                      /\ "count" \in hookmask[t] /\ basehookcount[t] > 0 => unhooked[t] <= basehookcount[t]
    BY DEF ChecksAreRegular
  <2>1. /\ MaxCount \in Nat /\ limit[t] \in 0 .. MaxCount /\ left[t] \in -1 .. MaxCount
        /\ basehookcount[t] \in 0 .. MaxCount /\ hookcount[t] \in -1 .. MaxCount
        /\ unchecked[t] \in Nat /\ unhooked[t] \in Nat
    BY MaxCountBounds DEF Inv, Typed
  <2> QED
    BY <2>1 DEF Inv, Checked, Counted
<1> QED
  BY <1>1, HooksAreKept, PTL
=============================================================================
