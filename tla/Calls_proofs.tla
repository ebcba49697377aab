---------------------------- MODULE Calls_proofs ----------------------------
(***************************************************************************)
(* Theorems about Calls: the shape of the C stack and of the CallInfo      *)
(* arrays, the counters of C calls, the error handlers and the counts of   *)
(* open calls, for every limit and every number of threads and closures.   *)
(*                                                                         *)
(* coroutine.call on a coroutine that is suspended or finished breaks them *)
(* (OnlySuspendedAreResumed is refuted by a run), so what follows is of    *)
(* programs that do not make such calls.                                   *)
(***************************************************************************)
EXTENDS Calls, FiniteSetTheorems, TLAPS

-----------------------------------------------------------------------------
(* Part 1: the invariant.                                                  *)
Depth == Len(cstack)
Below(k) == IF k = 1 THEN Main ELSE cstack[k - 1].t    \* the thread that made activation k
Lowest(k) == \A j \in 1 .. k - 1 : cstack[j].t # cstack[k].t
Switch == {"resume", "cocall"}                         \* activations on another thread

Frames == {s \in Seq(Closure \cup {Base}) :
             Len(s) >= 1 /\ \A i \in 1 .. Len(s) : s[i] = Base <=> i = 1}

Typed ==
  /\ ci \in [Thread -> Frames]
  /\ size \in [Thread -> Nat]
  /\ \A t \in Thread : Len(ci[t]) <= size[t]
  /\ nCcalls \in [Thread -> Nat]
  /\ baseCcalls \in [Thread -> Nat]
  /\ errfunc \in [Thread -> Handler]
  /\ st \in [Thread -> Status]
  /\ cstack \in Seq(Activation)
  /\ ctl \in {"run", "error", "ERRRUN", "ERRERR"}

(* Who runs above whom.                                                    *)
Linking ==
  \A k \in 1 .. Depth :
    /\ cstack[k].at >= 1
    /\ cstack[k].how \notin Switch => cstack[k].t = Below(k)
    /\ k = 1 => cstack[k].how = "pcall"
    /\ Lowest(k) => cstack[k].at = 1

(* A coroutine is resumed without a handler, and runs a Lua function.      *)
Resumed ==
  \A k \in 1 .. Depth : cstack[k].how = "resume" =>
    /\ cstack[k].handler = "none"
    /\ st[cstack[k].t] = "ok"
    /\ baseCcalls[cstack[k].t] >= 1
    /\ Len(ci[cstack[k].t]) > 1 => ci[cstack[k].t][2] \in Fn

(* Only an error handler is called after a failed call, which has left its *)
(* activation without frames.                                              *)
Ordering ==
  \A j, k \in 1 .. Depth : j < k =>
    /\ cstack[j].t = cstack[k].t =>
         /\ cstack[k].how # "resume"
         /\ cstack[j].at <= cstack[k].at
         /\ cstack[k].how # "handler" => cstack[j].at < cstack[k].at
    /\ (\A m \in j + 1 .. k : cstack[m].how \notin Switch) => cstack[j].t = cstack[k].t

Heights ==
  \A k \in 1 .. Depth :
    /\ cstack[k].at <= Len(ci[cstack[k].t])
    /\ ctl = "run" \/ cstack[k].t # cur => cstack[k].at < Len(ci[cstack[k].t])

(* The threads that run, or are between two that run, are awake; what a    *)
(* suspended coroutine yielded from was called by a Lua function.          *)
Statuses ==
  /\ st[Main] = "ok"
  /\ Depth = 0 => ctl = "run"
  /\ \A k \in 1 .. Depth : st[cstack[k].t] \in {"ok", "fresh"}
  /\ \A t \in Thread :
       /\ st[t] \in {"none", "fresh", "ok"} /\ ~InUse(t) => Len(ci[t]) = 1
       /\ st[t] = "yield" => Len(ci[t]) > 2 /\ ci[t][2] \in Fn

Control == Linking /\ Resumed /\ Ordering /\ Heights /\ Statuses

(* What nCcalls is above activation k.                                     *)
Level(k) == IF cstack[k].how = "resume" THEN baseCcalls[cstack[k].t] ELSE cstack[k].calls + 1

(* nCcalls is that of the innermost activation of the thread, and each     *)
(* activation has saved that of the one before it.                         *)
Levels ==
  /\ \A k \in 1 .. Depth :
       /\ (\A j \in 1 .. Depth : k < j => cstack[j].t # cstack[k].t) => nCcalls[cstack[k].t] = Level(k)
       /\ cstack[k].how # "resume" => cstack[k].calls >= baseCcalls[cstack[k].t]
  /\ \A j, k \in 1 .. Depth :
       j < k /\ cstack[j].t = cstack[k].t
       /\ (\A i \in 1 .. Depth : j < i /\ i < k => cstack[i].t # cstack[j].t) => cstack[k].calls = Level(j)
  /\ \A t \in Thread : st[t] = "fresh" \/ t = Main \/ InUse(t) => nCcalls[t] >= baseCcalls[t]

(* Of the first n activations of cs, k is the innermost catcher of thread  *)
(* t; they have left handler ef in it.                                     *)
Catches(cs, t, k, n) ==
  /\ k \in 1 .. n /\ cs[k].t = t /\ cs[k].how \in Catchers
  /\ \A j \in k + 1 .. n : cs[j].t = t => cs[j].how \notin Catchers
Uncaught(cs, t, n) == \A k \in 1 .. n : cs[k].t = t => cs[k].how \notin Catchers

Handles(cs, t, n, ef) ==
  \/ Uncaught(cs, t, n) /\ ef = "none"
  \/ \E k \in 1 .. n : Catches(cs, t, k, n) /\ ef = cs[k].handler

Handlers ==
  /\ \A t \in Thread : Handles(cstack, t, Depth, errfunc[t])
  /\ \A k \in 1 .. Depth : cstack[k].how \in {"pcall", "cocall"} =>
       Handles(cstack, cstack[k].t, k - 1, cstack[k].ef)

(* The calls of closure f.                                                 *)
Opened(f) == {p \in Thread \X Nat :
                st[p[1]] # "error" /\ p[2] \in 1 .. Len(ci[p[1]]) /\ ci[p[1]][p[2]] = f}

Counted ==
  /\ open \in [Closure -> Nat]
  /\ \A f \in Closure : IsFiniteSet(Opened(f)) /\ open[f] = Cardinality(Opened(f))

Inv == Typed /\ Control /\ Levels /\ Handlers /\ Counted
-----------------------------------------------------------------------------
(* Part 2: the frames of a thread.                                         *)
LEMMA FramesAre ==
  ASSUME NEW s \in Frames
  PROVE  /\ s \in Seq(Closure \cup {Base}) /\ Len(s) \in Nat /\ Len(s) >= 1
         /\ Last(s) = s[Len(s)] /\ DOMAIN s = 1 .. Len(s)
         /\ Last(s) = Base <=> Len(s) = 1
         /\ \A i \in 1 .. Len(s) : i > 1 => s[i] \in Closure
         /\ s[1] = Base
<1>1. s \in Seq(Closure \cup {Base}) /\ Len(s) >= 1 /\ \A i \in 1 .. Len(s) : s[i] = Base <=> i = 1
  BY DEF Frames
<1>2. \A i \in 1 .. Len(s) : s[i] \in Closure \cup {Base}
  BY <1>1
<1>3. Len(s) \in Nat /\ Len(s) \in 1 .. Len(s) /\ 1 \in 1 .. Len(s) /\ DOMAIN s = 1 .. Len(s)
  BY <1>1
<1>4. Last(s) = s[Len(s)]
  BY <1>3 DEF Last
<1>5. \A i \in 1 .. Len(s) : i > 1 => s[i] \in Closure
  BY <1>1, <1>2
<1> QED
  BY <1>1, <1>3, <1>4, <1>5

LEMMA Grown ==
  ASSUME NEW s \in Frames, NEW f \in Closure
  PROVE  /\ Append(s, f) \in Frames /\ Len(Append(s, f)) = Len(s) + 1
         /\ Append(s, f)[Len(s) + 1] = f
         /\ \A i \in 1 .. Len(s) : Append(s, f)[i] = s[i]
<1> DEFINE r == Append(s, f)
<1>1. s \in Seq(Closure \cup {Base}) /\ Len(s) >= 1 /\ \A i \in 1 .. Len(s) : s[i] = Base <=> i = 1
  BY DEF Frames
<1>2. f # Base /\ f \in Closure \cup {Base}
  BY CallAssumption
<1>3. /\ r \in Seq(Closure \cup {Base}) /\ Len(r) = Len(s) + 1 /\ r[Len(s) + 1] = f
      /\ \A i \in 1 .. Len(s) : r[i] = s[i]
  BY <1>1, <1>2
<1> HIDE DEF r
<1>4. \A i \in 1 .. Len(r) : r[i] = Base <=> i = 1
  <2>1. \A i \in 1 .. Len(r) : i \in 1 .. Len(s) \/ i = Len(s) + 1
    BY <1>1, <1>3
  <2>2. Len(s) + 1 # 1
    BY <1>1
  <2> QED
    BY <1>1, <1>2, <1>3, <2>1, <2>2
<1>5. r \in Frames
  BY <1>1, <1>3, <1>4 DEF Frames
<1> QED
  BY <1>3, <1>5 DEF r

LEMMA Prefix ==
  ASSUME NEW s \in Frames, NEW n \in 1 .. Len(s)
  PROVE  /\ SubSeq(s, 1, n) \in Frames /\ Len(SubSeq(s, 1, n)) = n
         /\ \A i \in 1 .. n : SubSeq(s, 1, n)[i] = s[i]
<1> DEFINE r == SubSeq(s, 1, n)
<1>1. s \in Seq(Closure \cup {Base}) /\ Len(s) >= 1 /\ \A i \in 1 .. Len(s) : s[i] = Base <=> i = 1
  BY DEF Frames
<1>2. r \in Seq(Closure \cup {Base}) /\ Len(r) = n /\ \A i \in 1 .. n : r[i] = s[i]
  BY <1>1
<1> HIDE DEF r
<1>3. \A i \in 1 .. n : i \in 1 .. Len(s)
  BY <1>1
<1>4. r \in Frames
  BY <1>1, <1>2, <1>3 DEF Frames
<1> QED
  BY <1>2, <1>4 DEF r

LEMMA Popped ==
  ASSUME NEW s \in Frames, Len(s) > 1
  PROVE  /\ Front(s) \in Frames /\ Len(Front(s)) = Len(s) - 1
         /\ Front(s) = SubSeq(s, 1, Len(s) - 1)
         /\ \A i \in 1 .. Len(s) - 1 : Front(s)[i] = s[i]
<1>1. Len(s) - 1 \in 1 .. Len(s)
  BY FramesAre
<1> QED
  BY <1>1, Prefix DEF Front

(* OP_TAILCALL.                                                            *)
LEMMA Replaced ==
  ASSUME NEW s \in Frames, NEW f \in Closure, Len(s) > 1
  PROVE  /\ Append(Front(s), f) \in Frames /\ Len(Append(Front(s), f)) = Len(s)
         /\ Append(Front(s), f)[Len(s)] = f
         /\ \A i \in 1 .. Len(s) - 1 : Append(Front(s), f)[i] = s[i]
<1> DEFINE r == Front(s)
<1>1. r \in Frames /\ Len(r) = Len(s) - 1 /\ \A i \in 1 .. Len(s) - 1 : r[i] = s[i]
  BY Popped
<1> HIDE DEF r
<1>2. Len(r) + 1 = Len(s)
  BY <1>1, FramesAre
<1> QED
  BY <1>1, <1>2, Grown DEF r

-----------------------------------------------------------------------------
(* Part 3: the C stack.                                                    *)
LEMMA StackIs ==
  ASSUME cstack \in Seq(Activation)
  PROVE  /\ Depth \in Nat /\ DOMAIN cstack = 1 .. Depth
         /\ cstack = <<>> <=> Depth = 0
         /\ cur = IF Depth = 0 THEN Main ELSE cstack[Depth].t
         /\ cur \in Thread
         /\ \A k \in 1 .. Depth : cstack[k] \in Activation
         /\ Depth > 0 => Last(cstack) = cstack[Depth] /\ Depth \in 1 .. Depth
<1>1. Depth \in Nat /\ (cstack = <<>> <=> Depth = 0) /\ DOMAIN cstack = 1 .. Depth
      /\ \A k \in 1 .. Depth : cstack[k] \in Activation
  BY DEF Depth
<1>2. Depth > 0 => Last(cstack) = cstack[Depth] /\ Depth \in 1 .. Depth
  BY <1>1 DEF Depth, Last
<1>3. cur = IF Depth = 0 THEN Main ELSE cstack[Depth].t
  BY <1>1, <1>2 DEF cur
<1> QED
  BY <1>1, <1>2, <1>3, CallAssumption DEF Activation

(* Activation a begins.                                                    *)
Begins(a) == cstack' = Append(cstack, a)

LEMMA Pushed ==
  ASSUME cstack \in Seq(Activation), NEW a \in Activation, Begins(a)
  PROVE  /\ cstack' \in Seq(Activation) /\ Depth' = Depth + 1 /\ cur' = a.t
         /\ \A k \in 1 .. Depth : cstack'[k] = cstack[k]
         /\ cstack'[Depth + 1] = a
<1>1. /\ cstack' \in Seq(Activation) /\ Depth' = Depth + 1 /\ Depth \in Nat
      /\ \A k \in 1 .. Depth : cstack'[k] = cstack[k]
      /\ cstack'[Depth + 1] = a /\ cstack' # <<>>
  BY DEF Depth, Begins
<1>2. Last(cstack') = a
  BY <1>1 DEF Last, Depth
<1> QED
  BY <1>1, <1>2 DEF cur

(* The first n activations are left.                                       *)
Leaves(n) == cstack' = SubSeq(cstack, 1, n)

LEMMA Unwinds ==
  ASSUME cstack \in Seq(Activation), NEW n \in 0 .. Depth, Leaves(n)
  PROVE  /\ cstack' \in Seq(Activation) /\ Depth' = n
         /\ cur' = IF n = 0 THEN Main ELSE cstack[n].t
         /\ \A k \in 1 .. n : cstack'[k] = cstack[k]
<1>1. /\ cstack' \in Seq(Activation) /\ Depth' = n /\ n \in Nat
      /\ \A k \in 1 .. n : cstack'[k] = cstack[k]
  BY DEF Leaves, Depth
<1>2. /\ cstack' = <<>> <=> n = 0
      /\ n > 0 => Last(cstack') = cstack'[n] /\ n \in 1 .. n
  BY <1>1 DEF Depth, Last
<1> QED
  BY <1>1, <1>2 DEF cur

LEMMA FrontLeaves ==
  ASSUME cstack \in Seq(Activation), cstack # <<>>, cstack' = Front(cstack)
  PROVE  Depth \in 1 .. Depth /\ Leaves(Depth - 1)
  BY DEF Leaves, Front, Depth
-----------------------------------------------------------------------------
(* Part 4: what steps do to the shape of the two stacks.                   *)
LEMMA TypedIs ==
  ASSUME Typed
  PROVE  /\ Depth \in Nat /\ cur \in Thread /\ cstack \in Seq(Activation) /\ DOMAIN cstack = 1 .. Depth
         /\ cur = IF Depth = 0 THEN Main ELSE cstack[Depth].t
         /\ Depth > 0 => Last(cstack) = cstack[Depth] /\ Depth \in 1 .. Depth
         /\ \A k \in 1 .. Depth :
              /\ cstack[k].t \in Thread /\ cstack[k].at \in Nat /\ cstack[k].calls \in Nat
              /\ cstack[k].how \in How /\ cstack[k].ef \in Handler /\ cstack[k].handler \in Handler
         /\ \A t \in Thread :
              /\ ci[t] \in Frames /\ Len(ci[t]) \in Nat /\ Len(ci[t]) >= 1 /\ Len(ci[t]) <= size[t]
              /\ size[t] \in Nat /\ nCcalls[t] \in Nat /\ baseCcalls[t] \in Nat
              /\ errfunc[t] \in Handler /\ st[t] \in Status
<1>1. \A k \in 1 .. Depth : cstack[k] \in Activation
  BY StackIs DEF Typed
<1>2. \A t \in Thread : ci[t] \in Frames
  BY DEF Typed
<1>3. \A t \in Thread : Len(ci[t]) \in Nat /\ Len(ci[t]) >= 1
  BY <1>2, FramesAre
<1> QED
  BY <1>1, <1>2, <1>3, StackIs DEF Typed, Activation

LEMMA UsedIs ==
  ASSUME Typed, NEW t \in Thread
  PROVE  InUse(t) <=> \E k \in 1 .. Depth : cstack[k].t = t
  BY TypedIs DEF InUse

(* The thread that runs, and its frames.                                   *)
LEMMA CurRuns ==
  ASSUME Typed, Control
  PROVE  /\ st[cur] \in {"ok", "fresh"}
         /\ Depth > 0 => InUse(cur)
         /\ Depth = 0 => Len(ci[cur]) = 1 /\ ctl = "run"
         /\ \A k \in 1 .. Depth : cstack[k].t = cur => cstack[k].at <= cstack[Depth].at
<1>1. st[cur] \in {"ok", "fresh"}
  BY TypedIs DEF Control, Statuses
<1>2. Depth > 0 => InUse(cur)
  BY TypedIs, UsedIs
<1>3. Depth = 0 => Len(ci[cur]) = 1 /\ ctl = "run"
  BY TypedIs, UsedIs DEF Control, Statuses
<1>4. ASSUME NEW k \in 1 .. Depth, cstack[k].t = cur PROVE cstack[k].at <= cstack[Depth].at
  <2>1. /\ Depth \in Nat /\ Depth \in 1 .. Depth /\ cstack[Depth].t = cur
        /\ cstack[Depth].at \in Nat /\ cstack[k].at \in Nat
    BY TypedIs
  <2>2. k = Depth \/ k < Depth
    BY <2>1
  <2> QED
    BY <1>4, <2>1, <2>2 DEF Control, Ordering
<1> QED
  BY <1>1, <1>2, <1>3, <1>4

LEMMA TopIs ==
  ASSUME Typed, Control
  PROVE  /\ top = ci[cur][Len(ci[cur])] /\ top \in Closure \cup {Base}
         /\ top = Base <=> Len(ci[cur]) = 1
         /\ top # Base => top \in Closure /\ Len(ci[cur]) > 1 /\ Depth > 0
         /\ InLua \/ InC => /\ Len(ci[cur]) > 1 /\ Depth > 0 /\ ctl = "run" /\ top \in Closure
                            /\ cstack[Depth].at < Len(ci[cur])
<1>1. ci[cur] \in Frames /\ Len(ci[cur]) \in Nat /\ Len(ci[cur]) >= 1
  BY TypedIs
<1>2. /\ top = ci[cur][Len(ci[cur])]
      /\ top = Base <=> Len(ci[cur]) = 1
      /\ Len(ci[cur]) > 1 => top \in Closure
  BY <1>1, FramesAre DEF top
<1>3. top # Base => top \in Closure /\ Len(ci[cur]) > 1 /\ Depth > 0
  <2>1. Depth \in Nat /\ (Len(ci[cur]) # 1 => Depth # 0)
    BY CurRuns, TypedIs
  <2> DEFINE d == Depth
             n == Len(ci[cur])
  <2>2. d \in Nat /\ (n # 1 => d # 0) /\ n \in Nat /\ n >= 1 /\ (top = Base <=> n = 1)
        /\ (n > 1 => top \in Closure)
    BY <1>1, <1>2, <2>1
  <2> HIDE DEF d, n
  <2>3. top # Base => top \in Closure /\ n > 1 /\ d > 0
    BY <2>2
  <2> QED
    BY <2>3 DEF d, n
<1>4. InLua \/ InC => top # Base /\ ctl = "run"
  BY CallAssumption DEF InLua, InC, Closure
<1>5. InLua \/ InC => cstack[Depth].at < Len(ci[cur])
  BY <1>3, <1>4, TypedIs DEF Control, Heights
<1> QED
  BY <1>1, <1>2, <1>3, <1>4, <1>5

(* The thread that runs gets other frames, and nothing is entered or left. *)
LEMMA QuietControl ==
  ASSUME Typed, Control, Depth > 0, UNCHANGED <<cstack, st, baseCcalls>>,
         \A t \in Thread : t # cur => ci'[t] = ci[t],
         Len(ci'[cur]) \in Nat, cstack[Depth].at <= Len(ci'[cur]),
         ctl' = "run" => cstack[Depth].at < Len(ci'[cur]),
         ctl = "run" \/ ci'[cur] = ci[cur],
         Len(ci'[cur]) > 1 => Len(ci[cur]) > 1 /\ (ci[cur][2] \in Fn => ci'[cur][2] \in Fn)
  PROVE  Control'
<1>1. /\ Depth' = Depth /\ cur' = cur
      /\ \A k \in 1 .. Depth : cstack'[k] = cstack[k] /\ Below(k)' = Below(k) /\ (Lowest(k)' <=> Lowest(k))
      /\ \A t \in Thread : InUse(t)' <=> InUse(t)
  BY DEF Depth, cur, Below, Lowest, InUse
<1>2. Linking'
  BY <1>1 DEF Linking, Control
<1>3. Resumed'
  <2> SUFFICES ASSUME NEW k \in 1 .. Depth, cstack[k].how = "resume"
               PROVE  /\ cstack[k].handler = "none"
                      /\ st[cstack[k].t] = "ok"
                      /\ baseCcalls[cstack[k].t] >= 1
                      /\ Len(ci'[cstack[k].t]) > 1 => ci'[cstack[k].t][2] \in Fn
    BY <1>1 DEF Resumed
  <2>1. cstack[k].t \in Thread
    BY TypedIs
  <2> QED
    BY <2>1 DEF Resumed, Control
<1>4. Ordering'
  BY <1>1 DEF Ordering, Control
<1>5. Heights'
  <2> SUFFICES ASSUME NEW k \in 1 .. Depth
               PROVE  /\ cstack[k].at <= Len(ci'[cstack[k].t])
                      /\ ctl' = "run" \/ cstack[k].t # cur => cstack[k].at < Len(ci'[cstack[k].t])
    BY <1>1 DEF Heights
  <2>1. /\ cstack[k].t \in Thread /\ cstack[k].at \in Nat /\ cstack[Depth].at \in Nat
        /\ Len(ci[cstack[k].t]) \in Nat
    BY TypedIs
  <2>2. CASE cstack[k].t = cur
    <3>1. cstack[k].at <= cstack[Depth].at
      BY <2>2, CurRuns
    <3> QED
      BY <2>1, <2>2, <3>1
  <2>3. CASE cstack[k].t # cur
    BY <2>1, <2>3 DEF Heights, Control
  <2> QED
    BY <2>2, <2>3
<1>6. Statuses'
  <2>1. ASSUME NEW t \in Thread
        PROVE  /\ st[t] \in {"none", "fresh", "ok"} /\ ~InUse(t) => Len(ci'[t]) = 1
               /\ st[t] = "yield" => Len(ci'[t]) > 2 /\ ci'[t][2] \in Fn
    <3>1. t = cur => InUse(t) /\ st[t] # "yield"
      BY CurRuns
    <3> QED
      BY <3>1 DEF Statuses, Control
  <2> QED
    BY <1>1, <2>1 DEF Statuses, Control
<1> QED
  BY <1>2, <1>3, <1>4, <1>5, <1>6 DEF Control

(* Activation a is above all others.                                       *)
LEMMA BeginsIs ==
  ASSUME Typed, NEW a \in Activation, Begins(a)
  PROVE  /\ Depth' = Depth + 1 /\ cur' = a.t /\ cstack'[Depth + 1] = a
         /\ \A k \in 1 .. Depth : cstack'[k] = cstack[k]
         /\ \A k \in 1 .. Depth' : k \in 1 .. Depth \/ k = Depth + 1
         /\ \A n \in Nat : n = Depth + 1 => Below(n)' = cur
         /\ \A k \in 1 .. Depth : Below(k)' = Below(k) /\ (Lowest(k)' <=> Lowest(k))
         /\ \A t \in Thread : InUse(t)' <=> InUse(t) \/ t = a.t
         /\ \A k \in Nat : k = Depth + 1 => (Lowest(k)' <=> ~InUse(a.t))
<1>1. /\ a.t \in Thread /\ a.at \in Nat /\ a.how \in How
      /\ \A k \in 1 .. Depth : cstack[k].t \in Thread /\ cstack[k].at \in Nat
      /\ \A t \in Thread : Len(ci[t]) \in Nat /\ Len(ci[t]) >= 1
      /\ Depth \in Nat /\ cur \in Thread
  BY TypedIs DEF Activation
<1>2. /\ Depth' = Depth + 1 /\ cur' = a.t /\ cstack'[Depth + 1] = a
      /\ \A k \in 1 .. Depth : cstack'[k] = cstack[k]
  BY TypedIs, Pushed
<1>3. \A k \in 1 .. Depth' : k \in 1 .. Depth \/ k = Depth + 1
  BY <1>1, <1>2
<1>4. (\A n \in Nat : n = Depth + 1 => Below(n)' = cur) /\ \A k \in 1 .. Depth : Below(k)' = Below(k) /\ (Lowest(k)' <=> Lowest(k))
  <2>2. ASSUME NEW n \in Nat, n = Depth + 1 PROVE Below(n)' = cur
    <3>1. Below(n)' = IF n = 1 THEN Main ELSE cstack'[n - 1].t
      BY DEF Below
    <3>2. n - 1 = Depth /\ (n = 1 <=> Depth = 0) /\ (n # 1 => Depth \in 1 .. Depth)
      BY <1>1, <2>2
    <3> QED
      BY <1>2, <3>1, <3>2, TypedIs
  <2>3. ASSUME NEW k \in 1 .. Depth PROVE Below(k)' = Below(k) /\ (Lowest(k)' <=> Lowest(k))
    <3>1. k - 1 \in 1 .. Depth \/ k = 1
      BY <1>1
    <3>2. \A j \in 1 .. k - 1 : j \in 1 .. Depth
      BY <1>1
    <3> QED
      BY <1>2, <3>1, <3>2 DEF Below, Lowest
  <2> QED
    BY <2>2, <2>3
<1>5. \A t \in Thread : InUse(t)' <=> InUse(t) \/ t = a.t
  <2>1. cstack' \in Seq(Activation)
    BY TypedIs, Pushed
  <2>2. DOMAIN cstack' = 1 .. Depth + 1
    BY <1>2, <2>1 DEF Depth
  <2>3. \A t \in Thread : InUse(t)' <=> \E k \in 1 .. Depth + 1 : cstack'[k].t = t
    BY <2>2 DEF InUse
  <2>4. Depth + 1 \in 1 .. Depth + 1 /\ \A k \in 1 .. Depth : k \in 1 .. Depth + 1
    BY <1>1
  <2> QED
    BY <1>2, <1>3, <2>3, <2>4, UsedIs
<1>6. ASSUME NEW k \in Nat, k = Depth + 1 PROVE Lowest(k)' <=> ~InUse(a.t)
  <2>1. \A j : j \in 1 .. Depth <=> j \in 1 .. k - 1
    BY <1>1, <1>6
  <2> QED
    BY <1>1, <1>2, <1>6, <2>1, UsedIs DEF Lowest
<1> QED
  BY <1>2, <1>3, <1>4, <1>5, <1>6

(* Code on the running thread calls on thread a.t.  The call may fail; an  *)
(* error handler is called in spite of it.                                 *)
LEMMA CallControl ==
  ASSUME Typed, Control, NEW a \in Activation, Begins(a), UNCHANGED <<st, baseCcalls>>,
         a.how # "resume", a.at = Len(ci[a.t]), st[a.t] \in {"ok", "fresh"},
         a.how \notin Switch => a.t = cur,
         Depth = 0 => a.how = "pcall",
         ctl = "run" \/ a.how = "handler",
         ctl = "run" \/ Len(ci[cur]) > 1 \/ \A k \in 1 .. Depth : cstack[k].t = cur => cstack[k].how # "resume",
         \A t \in Thread : t # a.t => ci'[t] = ci[t],
         \/ ctl' # "run" /\ ci'[a.t] = ci[a.t]
         \/ /\ ctl' = "run" /\ Len(ci'[a.t]) = Len(ci[a.t]) + 1
            /\ \A i \in 1 .. Len(ci[a.t]) : ci'[a.t][i] = ci[a.t][i]
  PROVE  Control'
<1>1. /\ a.t \in Thread /\ a.at \in Nat /\ a.how \in How
      /\ \A k \in 1 .. Depth : cstack[k].t \in Thread /\ cstack[k].at \in Nat
      /\ \A t \in Thread : Len(ci[t]) \in Nat /\ Len(ci[t]) >= 1
      /\ Depth \in Nat /\ cur \in Thread
  BY TypedIs DEF Activation
<1>2. /\ Depth' = Depth + 1 /\ cur' = a.t /\ cstack'[Depth + 1] = a
      /\ \A k \in 1 .. Depth : cstack'[k] = cstack[k]
  BY BeginsIs
<1>3. \A k \in 1 .. Depth' : k \in 1 .. Depth \/ k = Depth + 1
  BY BeginsIs
<1>4. /\ \A n \in Nat : n = Depth + 1 => Below(n)' = cur /\ (Lowest(n)' <=> ~InUse(a.t))
      /\ \A k \in 1 .. Depth : Below(k)' = Below(k) /\ (Lowest(k)' <=> Lowest(k))
  BY BeginsIs
<1>5. \A t \in Thread : InUse(t)' <=> InUse(t) \/ t = a.t
  BY BeginsIs
<1>6. /\ \A t \in Thread : Len(ci'[t]) \in Nat /\ Len(ci'[t]) >= Len(ci[t])
                           /\ \A i \in 1 .. Len(ci[t]) : ci'[t][i] = ci[t][i]
      /\ ctl' = "run" => Len(ci'[a.t]) = Len(ci[a.t]) + 1
  BY <1>1
<1>7. Linking'
  <2> SUFFICES ASSUME NEW k \in 1 .. Depth'
               PROVE  /\ cstack'[k].at >= 1
                      /\ cstack'[k].how \notin Switch => cstack'[k].t = Below(k)'
                      /\ k = 1 => cstack'[k].how = "pcall"
                      /\ Lowest(k)' => cstack'[k].at = 1
    BY DEF Linking
  <2>1. CASE k \in 1 .. Depth
    BY <1>2, <1>4, <2>1 DEF Control, Linking
  <2>2. CASE k = Depth + 1
    <3>1. Lowest(k)' => ~InUse(a.t)
      BY <1>1, <1>4, <2>2
    <3>2. Lowest(k)' => a.at = 1
      BY <1>1, <3>1 DEF Control, Statuses
    <3>3. (k = 1 => Depth = 0) /\ k \in Nat
      BY <1>1, <2>2
    <3>4. a.at >= 1
      BY <1>1
    <3>5. Below(k)' = cur /\ cstack'[k] = a
      BY <1>2, <1>4, <2>2, <3>3
    <3> QED
      BY <3>2, <3>3, <3>4, <3>5
  <2> QED
    BY <1>3, <2>1, <2>2
<1>8. Resumed'
  <2> SUFFICES ASSUME NEW k \in 1 .. Depth, cstack[k].how = "resume"
               PROVE  /\ cstack[k].handler = "none"
                      /\ st[cstack[k].t] = "ok"
                      /\ baseCcalls[cstack[k].t] >= 1
                      /\ Len(ci'[cstack[k].t]) > 1 => ci'[cstack[k].t][2] \in Fn
    BY <1>2, <1>3 DEF Resumed
  <2>1. /\ cstack[k].handler = "none"
        /\ st[cstack[k].t] = "ok"
        /\ baseCcalls[cstack[k].t] >= 1
        /\ Len(ci[cstack[k].t]) > 1 => ci[cstack[k].t][2] \in Fn
    BY DEF Control, Resumed
  <2>2. cstack[k].t = a.t => Len(ci[a.t]) > 1
    <3>1. CASE ctl = "run"
      BY <1>1, <3>1 DEF Control, Heights, Linking
    <3>2. CASE ctl # "run"
      <4>1. a.t = cur
        BY <3>2 DEF Switch
      <4> QED
        BY <3>2, <4>1
    <3> QED
      BY <3>1, <3>2
  <2>3. Len(ci[cstack[k].t]) > 1 => ci'[cstack[k].t][2] = ci[cstack[k].t][2]
    <3>1. Len(ci[cstack[k].t]) > 1 => 2 \in 1 .. Len(ci[cstack[k].t])
      BY <1>1
    <3> QED
      BY <1>1, <1>6, <3>1
  <2>4. cstack[k].t # a.t => ci'[cstack[k].t] = ci[cstack[k].t]
    BY <1>1
  <2> QED
    BY <2>1, <2>2, <2>3, <2>4
<1>9. Ordering'
  <2>1. \A k \in 1 .. Depth : cstack[k].t = a.t => cstack[k].at <= a.at /\ (ctl = "run" => cstack[k].at < a.at)
    BY <1>1 DEF Control, Heights
  <2> SUFFICES ASSUME NEW j \in 1 .. Depth', NEW k \in 1 .. Depth', j < k
               PROVE  /\ cstack'[j].t = cstack'[k].t =>
                           /\ cstack'[k].how # "resume"
                           /\ cstack'[j].at <= cstack'[k].at
                           /\ cstack'[k].how # "handler" => cstack'[j].at < cstack'[k].at
                      /\ (\A m \in j + 1 .. k : cstack'[m].how \notin Switch) => cstack'[j].t = cstack'[k].t
    BY DEF Ordering
  <2>2. j \in 1 .. Depth
    BY <1>1, <1>2
  <2>3. CASE k \in 1 .. Depth
    <3>1. \A m \in j + 1 .. k : m \in 1 .. Depth
      BY <1>1, <2>2, <2>3
    <3>2. (\A m \in j + 1 .. k : cstack'[m].how \notin Switch) <=> (\A m \in j + 1 .. k : cstack[m].how \notin Switch)
      BY <1>2, <3>1
    <3> QED
      BY <1>2, <2>2, <2>3, <3>2 DEF Control, Ordering
  <2>4. CASE k = Depth + 1
    <3>1. /\ cstack'[j].t = cstack'[k].t =>
               /\ cstack'[k].how # "resume"
               /\ cstack'[j].at <= cstack'[k].at
               /\ cstack'[k].how # "handler" => cstack'[j].at < cstack'[k].at
      BY <1>2, <2>1, <2>2, <2>4
    <3>2. ASSUME \A m \in j + 1 .. k : cstack'[m].how \notin Switch
          PROVE  cstack'[j].t = cstack'[k].t
      <4>1. k \in j + 1 .. k /\ \A m \in j + 1 .. Depth : m \in j + 1 .. k /\ m \in 1 .. Depth
        BY <1>1, <2>2, <2>4
      <4>2. a.t = cur /\ \A m \in j + 1 .. Depth : cstack[m].how \notin Switch
        BY <1>2, <2>4, <3>2, <4>1
      <4>3. cstack[Depth].t = cur /\ Depth \in 1 .. Depth /\ (j = Depth \/ j < Depth)
        BY <1>1, <2>2, TypedIs
      <4>4. cstack[j].t = cstack[Depth].t
        BY <2>2, <4>2, <4>3 DEF Control, Ordering
      <4> QED
        BY <1>2, <2>2, <2>4, <4>2, <4>3, <4>4
    <3> QED
      BY <3>1, <3>2
  <2> QED
    BY <1>3, <2>3, <2>4
<1>10. Heights'
  <2> SUFFICES ASSUME NEW k \in 1 .. Depth'
               PROVE  /\ cstack'[k].at <= Len(ci'[cstack'[k].t])
                      /\ ctl' = "run" \/ cstack'[k].t # a.t => cstack'[k].at < Len(ci'[cstack'[k].t])
    BY <1>2 DEF Heights
  <2>1. CASE k = Depth + 1
    BY <1>1, <1>2, <1>6, <2>1
  <2>2. CASE k \in 1 .. Depth
    <3> DEFINE t == cstack[k].t
               at == cstack[k].at
               n == Len(ci[t])
               m == Len(ci'[t])
    <3>1. /\ at \in Nat /\ n \in Nat /\ m \in Nat /\ m >= n
          /\ at <= n /\ (ctl = "run" \/ t # cur => at < n)
          /\ ctl' = "run" /\ t = a.t => m = n + 1
      BY <1>1, <1>6, <2>2 DEF Control, Heights
    <3>2. t # a.t => (ctl = "run" \/ t # cur)
      BY DEF Switch
    <3>3. cstack'[k].t = t /\ cstack'[k].at = at
      BY <1>2, <2>2
    <3> HIDE DEF t, at, n, m
    <3>4. at <= m /\ (ctl' = "run" \/ t # a.t => at < m)
      BY <3>1, <3>2
    <3> QED
      BY <3>3, <3>4 DEF m
  <2> QED
    BY <1>3, <2>1, <2>2
<1>11. Statuses'
  <2>1. Depth' # 0
    BY <1>1, <1>2
  <2>2. \A k \in 1 .. Depth' : st[cstack'[k].t] \in {"ok", "fresh"}
    BY <1>2, <1>3 DEF Control, Statuses
  <2>3. ASSUME NEW t \in Thread
        PROVE  /\ st[t] \in {"none", "fresh", "ok"} /\ ~InUse(t)' => Len(ci'[t]) = 1
               /\ st[t] = "yield" => Len(ci'[t]) > 2 /\ ci'[t][2] \in Fn
    <3>1. CASE t = a.t
      BY <1>5, <3>1
    <3>2. CASE t # a.t
      BY <1>5, <3>2 DEF Control, Statuses
    <3> QED
      BY <3>1, <3>2
  <2> QED
    BY <2>1, <2>2, <2>3 DEF Control, Statuses
<1> QED
  BY <1>7, <1>8, <1>9, <1>10, <1>11 DEF Control

(* lua_resumefrom.                                                         *)
LEMMA ResumeControl ==
  ASSUME Typed, Control, NEW a \in Activation, Begins(a), ctl = "run", Depth > 0,
         a.how = "resume", a.handler = "none", a.at = 1, ~InUse(a.t),
         st' = [st EXCEPT ![a.t] = "ok"], baseCcalls'[a.t] >= 1,
         \A t \in Thread : t # a.t => ci'[t] = ci[t] /\ baseCcalls'[t] = baseCcalls[t],
         \/ ctl' = "run" /\ Len(ci'[a.t]) \in Nat /\ Len(ci'[a.t]) > 1 /\ ci'[a.t][2] \in Fn
         \/ ctl' # "run" /\ Len(ci'[a.t]) = 1
  PROVE  Control'
<1>1. /\ a.t \in Thread /\ Depth \in Nat /\ cur \in Thread
      /\ \A k \in 1 .. Depth : cstack[k].t \in Thread /\ cstack[k].at \in Nat /\ cstack[k].t # a.t
      /\ \A t \in Thread : t # a.t => st'[t] = st[t]
      /\ st'[a.t] = "ok"
  BY TypedIs, UsedIs DEF Activation, Typed
<1>2. /\ Depth' = Depth + 1 /\ cur' = a.t /\ cstack'[Depth + 1] = a
      /\ \A k \in 1 .. Depth : cstack'[k] = cstack[k]
  BY BeginsIs
<1>3. \A k \in 1 .. Depth' : k \in 1 .. Depth \/ k = Depth + 1
  BY BeginsIs
<1>4. \A k \in 1 .. Depth : Below(k)' = Below(k) /\ (Lowest(k)' <=> Lowest(k))
  BY BeginsIs
<1>5. \A t \in Thread : InUse(t)' <=> InUse(t) \/ t = a.t
  BY BeginsIs
<1>6. a.how \in Switch
  BY DEF Switch
<1>7. Linking'
  <2> SUFFICES ASSUME NEW k \in 1 .. Depth'
               PROVE  /\ cstack'[k].at >= 1
                      /\ cstack'[k].how \notin Switch => cstack'[k].t = Below(k)'
                      /\ k = 1 => cstack'[k].how = "pcall"
                      /\ Lowest(k)' => cstack'[k].at = 1
    BY DEF Linking
  <2>1. CASE k \in 1 .. Depth
    BY <1>2, <1>4, <2>1 DEF Control, Linking
  <2>2. CASE k = Depth + 1
    BY <1>1, <1>2, <1>6, <2>2
  <2> QED
    BY <1>3, <2>1, <2>2
<1>8. Resumed'
  <2> SUFFICES ASSUME NEW k \in 1 .. Depth', cstack'[k].how = "resume"
               PROVE  /\ cstack'[k].handler = "none"
                      /\ st'[cstack'[k].t] = "ok"
                      /\ baseCcalls'[cstack'[k].t] >= 1
                      /\ Len(ci'[cstack'[k].t]) > 1 => ci'[cstack'[k].t][2] \in Fn
    BY DEF Resumed
  <2>1. CASE k \in 1 .. Depth
    BY <1>1, <1>2, <2>1 DEF Control, Resumed
  <2>2. CASE k = Depth + 1
    BY <1>1, <1>2, <2>2
  <2> QED
    BY <1>3, <2>1, <2>2
<1>9. Ordering'
  <2> SUFFICES ASSUME NEW j \in 1 .. Depth', NEW k \in 1 .. Depth', j < k
               PROVE  /\ cstack'[j].t = cstack'[k].t =>
                           /\ cstack'[k].how # "resume"
                           /\ cstack'[j].at <= cstack'[k].at
                           /\ cstack'[k].how # "handler" => cstack'[j].at < cstack'[k].at
                      /\ (\A m \in j + 1 .. k : cstack'[m].how \notin Switch) => cstack'[j].t = cstack'[k].t
    BY DEF Ordering
  <2>2. j \in 1 .. Depth
    BY <1>1, <1>2
  <2>3. CASE k \in 1 .. Depth
    <3>1. \A m \in j + 1 .. k : m \in 1 .. Depth
      BY <1>1, <2>2, <2>3
    <3>2. (\A m \in j + 1 .. k : cstack'[m].how \notin Switch) <=> (\A m \in j + 1 .. k : cstack[m].how \notin Switch)
      BY <1>2, <3>1
    <3> QED
      BY <1>2, <2>2, <2>3, <3>2 DEF Control, Ordering
  <2>4. CASE k = Depth + 1
    <3>1. k \in j + 1 .. k
      BY <1>1, <2>2, <2>4
    <3> QED
      BY <1>1, <1>2, <1>6, <2>2, <2>4, <3>1
  <2> QED
    BY <1>3, <2>3, <2>4
<1>10. Heights'
  <2> SUFFICES ASSUME NEW k \in 1 .. Depth'
               PROVE  /\ cstack'[k].at <= Len(ci'[cstack'[k].t])
                      /\ ctl' = "run" \/ cstack'[k].t # a.t => cstack'[k].at < Len(ci'[cstack'[k].t])
    BY <1>2 DEF Heights
  <2>1. CASE k = Depth + 1
    <3>1. cstack'[k].t = a.t /\ cstack'[k].at = 1
      BY <1>2, <2>1
    <3> DEFINE n == Len(ci'[a.t])
    <3>2. (ctl' = "run" /\ n \in Nat /\ n > 1) \/ (ctl' # "run" /\ n = 1)
      OBVIOUS
    <3> HIDE DEF n
    <3>3. 1 <= n /\ (ctl' = "run" => 1 < n)
      BY <3>2
    <3> QED
      BY <3>1, <3>3 DEF n
  <2>2. CASE k \in 1 .. Depth
    <3>1. cstack[k].at <= Len(ci[cstack[k].t]) /\ cstack[k].at < Len(ci[cstack[k].t])
      BY <2>2 DEF Control, Heights
    <3> QED
      BY <1>1, <1>2, <2>2, <3>1
  <2> QED
    BY <1>3, <2>1, <2>2
<1>11. Statuses'
  <2>1. Depth' # 0
    BY <1>1, <1>2
  <2>2. ASSUME NEW k \in 1 .. Depth' PROVE st'[cstack'[k].t] \in {"ok", "fresh"}
    <3>1. CASE k \in 1 .. Depth
      BY <1>1, <1>2, <3>1 DEF Control, Statuses
    <3>2. CASE k = Depth + 1
      BY <1>1, <1>2, <3>2
    <3> QED
      BY <1>3, <3>1, <3>2
  <2>3. ASSUME NEW t \in Thread
        PROVE  /\ st'[t] \in {"none", "fresh", "ok"} /\ ~InUse(t)' => Len(ci'[t]) = 1
               /\ st'[t] = "yield" => Len(ci'[t]) > 2 /\ ci'[t][2] \in Fn
    <3>1. CASE t = a.t
      BY <1>1, <1>5, <3>1
    <3>2. CASE t # a.t
      BY <1>1, <1>5, <3>2 DEF Control, Statuses
    <3> QED
      BY <3>1, <3>2
  <2>4. st'[Main] = "ok"
    BY <1>1, CallAssumption DEF Control, Statuses
  <2> QED
    BY <2>1, <2>2, <2>3, <2>4 DEF Statuses
<1> QED
  BY <1>7, <1>8, <1>9, <1>10, <1>11 DEF Control

(* Activation k ends, with those above it, which catch nothing.            *)
Ends(k) == Leaves(k - 1) /\ \A m \in k + 1 .. Depth : cstack[m].how \notin Catchers

LEMMA EndsIs ==
  ASSUME Typed, Control, NEW k \in 1 .. Depth, Ends(k)
  PROVE  /\ Depth' = k - 1 /\ cur' = Below(k)
         /\ \A j \in 1 .. k - 1 : /\ j \in 1 .. Depth /\ cstack'[j] = cstack[j]
                                  /\ Below(j)' = Below(j) /\ (Lowest(j)' <=> Lowest(j))
         /\ cstack[k].t = cur /\ \A j \in k .. Depth : cstack[j].t = cur
         /\ \A j \in 1 .. k - 1 : cstack[j].t = cur =>
              /\ cstack[k].how # "resume" /\ cstack[j].at <= cstack[k].at
              /\ cstack[k].how # "handler" => cstack[j].at < cstack[k].at
         /\ \A t \in Thread : InUse(t) => InUse(t)' \/ t = cur
         /\ \A t \in Thread : InUse(t)' => InUse(t)
         /\ \A t \in Thread : t = cur /\ ~InUse(t)' => Lowest(k)
         /\ \A t \in Thread : (\E j \in 1 .. k - 1 : cstack[j].t = t) => InUse(t)'
<1>1. /\ Depth \in Nat /\ k \in Nat /\ k >= 1 /\ k <= Depth
      /\ cstack \in Seq(Activation) /\ k - 1 \in 0 .. Depth
  BY TypedIs
<1>2. /\ cstack' \in Seq(Activation) /\ Depth' = k - 1
      /\ cur' = IF k - 1 = 0 THEN Main ELSE cstack[k - 1].t
      /\ \A j \in 1 .. k - 1 : cstack'[j] = cstack[j]
  BY <1>1, Unwinds DEF Ends
<1>3. cur' = Below(k)
  BY <1>1, <1>2 DEF Below
<1>4. ASSUME NEW j \in 1 .. k - 1
      PROVE  j \in 1 .. Depth /\ Below(j)' = Below(j) /\ (Lowest(j)' <=> Lowest(j))
  <2>1. j \in 1 .. Depth /\ (j = 1 \/ j - 1 \in 1 .. k - 1)
    BY <1>1
  <2>2. \A i \in 1 .. j - 1 : i \in 1 .. k - 1
    BY <1>1
  <2> QED
    BY <1>2, <2>1, <2>2 DEF Below, Lowest
<1>5. ASSUME NEW j \in k .. Depth PROVE cstack[j].t = cur
  <2>1. /\ Depth \in 1 .. Depth /\ cstack[Depth].t = cur /\ j \in 1 .. Depth
        /\ j = Depth \/ j < Depth
    BY <1>1, TypedIs
  <2>2. \A m \in j + 1 .. Depth : cstack[m].how \notin Switch
    <3>1. \A m \in j + 1 .. Depth : m \in k + 1 .. Depth
      BY <1>1
    <3> QED
      BY <3>1 DEF Ends, Switch, Catchers
  <2> QED
    BY <2>1, <2>2 DEF Control, Ordering
<1>6. cstack[k].t = cur
  BY <1>1, <1>5
<1>7. ASSUME NEW j \in 1 .. k - 1, cstack[j].t = cur
      PROVE  /\ cstack[k].how # "resume" /\ cstack[j].at <= cstack[k].at
             /\ cstack[k].how # "handler" => cstack[j].at < cstack[k].at
  <2>1. j < k
    BY <1>1
  <2> QED
    BY <1>4, <1>6, <1>7, <2>1 DEF Control, Ordering
<1>8. \A t \in Thread : InUse(t)' <=> \E j \in 1 .. k - 1 : cstack'[j].t = t
  <2>1. DOMAIN cstack' = 1 .. k - 1
    BY <1>2 DEF Depth
  <2> QED
    BY <2>1 DEF InUse
<1>9. \A t \in Thread : (InUse(t) => InUse(t)' \/ t = cur) /\ (InUse(t)' => InUse(t))
  <2>1. \A j \in 1 .. Depth : j \in 1 .. k - 1 \/ j \in k .. Depth
    BY <1>1
  <2> QED
    BY <1>2, <1>4, <1>5, <1>8, <2>1, UsedIs
<1>10. \A t \in Thread : t = cur /\ ~InUse(t)' => Lowest(k)
  BY <1>2, <1>6, <1>8, TypedIs DEF Lowest
<1>11. \A t \in Thread : (\E j \in 1 .. k - 1 : cstack[j].t = t) => InUse(t)'
  BY <1>2, <1>8
<1> QED
  BY <1>2, <1>3, <1>4, <1>5, <1>6, <1>7, <1>9, <1>10, <1>11

(* What is left of the C stack keeps its shape.                            *)
LEMMA EndsLinks ==
  ASSUME Typed, Control, NEW k \in 1 .. Depth, Ends(k)
  PROVE  Linking' /\ Ordering'
<1>1. /\ Depth' = k - 1
      /\ \A j \in 1 .. k - 1 : /\ j \in 1 .. Depth /\ cstack'[j] = cstack[j]
                               /\ Below(j)' = Below(j) /\ (Lowest(j)' <=> Lowest(j))
  BY EndsIs
<1>2. Linking'
  BY <1>1 DEF Control, Linking
<1>3. Ordering'
  <2> SUFFICES ASSUME NEW i \in 1 .. k - 1, NEW j \in 1 .. k - 1, i < j
               PROVE  /\ cstack'[i].t = cstack'[j].t =>
                           /\ cstack'[j].how # "resume"
                           /\ cstack'[i].at <= cstack'[j].at
                           /\ cstack'[j].how # "handler" => cstack'[i].at < cstack'[j].at
                      /\ (\A m \in i + 1 .. j : cstack'[m].how \notin Switch) => cstack'[i].t = cstack'[j].t
    BY <1>1 DEF Ordering
  <2>1. \A m \in i + 1 .. j : m \in 1 .. k - 1
    BY TypedIs
  <2>2. (\A m \in i + 1 .. j : cstack'[m].how \notin Switch) <=> (\A m \in i + 1 .. j : cstack[m].how \notin Switch)
    BY <1>1, <2>1
  <2> QED
    BY <1>1, <2>2 DEF Control, Ordering
<1> QED
  BY <1>2, <1>3

(* luaD_poscall and luaD_pcall: the frames of activation k go.             *)
LEMMA DropControl ==
  ASSUME Typed, Control, NEW k \in 1 .. Depth, Ends(k), UNCHANGED <<st, baseCcalls>>,
         Len(ci'[cur]) = cstack[k].at, cstack[k].at <= Len(ci[cur]),
         \A i \in 1 .. cstack[k].at : ci'[cur][i] = ci[cur][i],
         \A t \in Thread : t # cur => ci'[t] = ci[t],
         IF ctl' = "run" THEN cstack[k].how # "handler" ELSE cstack[k].how \in {"handler", "cocall"}
  PROVE  Control'
<1>1. /\ Depth' = k - 1 /\ cur' = Below(k) /\ k \in Nat
      /\ \A j \in 1 .. k - 1 : j \in 1 .. Depth /\ cstack'[j] = cstack[j]
      /\ cstack[k].t = cur /\ cstack[k].at \in Nat /\ cstack[k].at >= 1
      /\ \A j \in 1 .. k - 1 : cstack[j].t = cur =>
           /\ cstack[k].how # "resume" /\ cstack[j].at <= cstack[k].at
           /\ cstack[k].how # "handler" => cstack[j].at < cstack[k].at
      /\ \A t \in Thread : Len(ci[t]) \in Nat
      /\ \A j \in 1 .. Depth : cstack[j].t \in Thread /\ cstack[j].at \in Nat
  BY EndsIs, TypedIs DEF Control, Linking
<1>2. Resumed'
  <2> SUFFICES ASSUME NEW j \in 1 .. k - 1, cstack[j].how = "resume"
               PROVE  /\ cstack[j].handler = "none"
                      /\ st[cstack[j].t] = "ok"
                      /\ baseCcalls[cstack[j].t] >= 1
                      /\ Len(ci'[cstack[j].t]) > 1 => ci'[cstack[j].t][2] \in Fn
    BY <1>1 DEF Resumed
  <2>1. /\ cstack[j].handler = "none"
        /\ st[cstack[j].t] = "ok"
        /\ baseCcalls[cstack[j].t] >= 1
        /\ Len(ci[cstack[j].t]) > 1 => ci[cstack[j].t][2] \in Fn
    BY <1>1 DEF Control, Resumed
  <2>2. CASE cstack[j].t = cur
    <3>1. Len(ci'[cur]) > 1 => 2 \in 1 .. cstack[k].at /\ Len(ci[cur]) > 1
      BY <1>1
    <3> QED
      BY <2>1, <2>2, <3>1
  <2>3. CASE cstack[j].t # cur
    BY <1>1, <2>1, <2>3
  <2> QED
    BY <2>2, <2>3
<1>3. Heights'
  <2> SUFFICES ASSUME NEW j \in 1 .. k - 1
               PROVE  /\ cstack[j].at <= Len(ci'[cstack[j].t])
                      /\ ctl' = "run" \/ cstack[j].t # Below(k) => cstack[j].at < Len(ci'[cstack[j].t])
    BY <1>1 DEF Heights
  <2>1. CASE cstack[j].t = cur
    <3>1. cstack[k].how = "handler" => Below(k) = cur
      BY <1>1 DEF Control, Linking, Switch
    <3>2. cstack[k].how # "handler" => cstack[j].at < cstack[k].at
      BY <1>1, <2>1
    <3> QED
      BY <1>1, <2>1, <3>1, <3>2
  <2>2. CASE cstack[j].t # cur
    BY <1>1, <2>2 DEF Control, Heights
  <2> QED
    BY <2>1, <2>2
<1>4. Statuses'
  <2>1. Depth' = 0 => ctl' = "run"
    BY <1>1 DEF Control, Linking
  <2>2. ASSUME NEW t \in Thread
        PROVE  /\ st[t] \in {"none", "fresh", "ok"} /\ ~InUse(t)' => Len(ci'[t]) = 1
               /\ st[t] = "yield" => Len(ci'[t]) > 2 /\ ci'[t][2] \in Fn
    <3>1. CASE t = cur
      <4>1. st[cur] # "yield"
        BY CurRuns
      <4>2. ~InUse(t)' => Lowest(k)
        BY <3>1, EndsIs
      <4>3. Lowest(k) => cstack[k].at = 1
        BY DEF Control, Linking
      <4>4. ~InUse(t)' => Len(ci'[t]) = 1
        BY <3>1, <4>2, <4>3
      <4> QED
        BY <3>1, <4>1, <4>4
    <3>2. CASE t # cur
      BY <3>2, EndsIs DEF Control, Statuses
    <3> QED
      BY <3>1, <3>2
  <2> QED
    BY <1>1, <2>1, <2>2 DEF Control, Statuses
<1> QED
  BY <1>2, <1>3, <1>4, EndsLinks DEF Control

(* The main thread is never resumed, and what is resumed did not run.      *)
LEMMA ResumedIs ==
  ASSUME Typed, Control, NEW k \in 1 .. Depth, cstack[k].how = "resume"
  PROVE  /\ cstack[k].t # Main /\ k > 1 /\ cstack[k].at = 1
         /\ \A j \in 1 .. k - 1 : cstack[j].t # cstack[k].t
<1>1. /\ Depth \in Nat /\ k \in Nat /\ 1 <= k /\ 1 \in 1 .. Depth
      /\ \A j \in 1 .. k - 1 : j \in 1 .. Depth /\ j < k
  BY TypedIs
<1>2. \A j \in 1 .. k - 1 : cstack[j].t # cstack[k].t
  BY <1>1 DEF Control, Ordering
<1>3. cstack[1].how = "pcall" /\ cstack[1].t = Main
  BY <1>1 DEF Control, Linking, Switch, Below
<1>4. k > 1
  BY <1>1, <1>3
<1>5. cstack[k].at = 1
  BY <1>2 DEF Control, Linking, Lowest
<1>6. 1 \in 1 .. k - 1
  BY <1>1, <1>4
<1> QED
  BY <1>2, <1>3, <1>4, <1>5, <1>6

(* lua_yield, and an error that ends a coroutine.                          *)
LEMMA AbandonControl ==
  ASSUME Typed, Control, NEW k \in 1 .. Depth, Ends(k), cstack[k].how = "resume",
         NEW s \in {"yield", "error"}, st' = [st EXCEPT ![cur] = s],
         s = "yield" => Len(ci[cur]) > 2, ctl' = "run", UNCHANGED <<ci, baseCcalls>>
  PROVE  Control'
<1>1. /\ Depth' = k - 1 /\ cur' = Below(k) /\ k > 1 /\ k \in Nat /\ cur \in Thread
      /\ cstack[k].t = cur /\ cur # Main
      /\ \A j \in 1 .. k - 1 : /\ j \in 1 .. Depth /\ cstack'[j] = cstack[j]
                               /\ cstack[j].t # cur /\ cstack[j].t \in Thread
      /\ \A t \in Thread : t # cur => st'[t] = st[t]
      /\ st'[cur] = s
  <2>1. /\ Depth' = k - 1 /\ cur' = Below(k) /\ cstack[k].t = cur
        /\ \A j \in 1 .. k - 1 : j \in 1 .. Depth /\ cstack'[j] = cstack[j]
    BY EndsIs
  <2>2. /\ k > 1 /\ k \in Nat /\ cur \in Thread /\ cstack[k].t # Main
        /\ \A j \in 1 .. k - 1 : cstack[j].t # cstack[k].t
        /\ \A j \in 1 .. Depth : cstack[j].t \in Thread
    BY TypedIs, ResumedIs
  <2>3. /\ \A t \in Thread : t # cur => st'[t] = st[t]
        /\ st'[cur] = s
    BY <2>2 DEF Typed
  <2> QED
    BY <2>1, <2>2, <2>3
<1>2. Resumed'
  BY <1>1 DEF Control, Resumed
<1>3. Heights'
  BY <1>1 DEF Control, Heights
<1>4. Statuses'
  <2>1. \A j \in 1 .. k - 1 : st'[cstack[j].t] \in {"ok", "fresh"}
    BY <1>1 DEF Control, Statuses
  <2>2. ASSUME NEW t \in Thread
        PROVE  /\ st'[t] \in {"none", "fresh", "ok"} /\ ~InUse(t)' => Len(ci[t]) = 1
               /\ st'[t] = "yield" => Len(ci[t]) > 2 /\ ci[t][2] \in Fn
    <3>1. CASE t = cur
      <4>1. Len(ci[cur]) > 1 => ci[cur][2] \in Fn
        BY <1>1 DEF Control, Resumed
      <4>2. Len(ci[cur]) \in Nat
        BY TypedIs
      <4>3. Len(ci[cur]) > 2 => ci[cur][2] \in Fn
        BY <4>1, <4>2
      <4> QED
        BY <1>1, <3>1, <4>3
    <3>2. CASE t # cur
      BY <1>1, <3>2, EndsIs DEF Control, Statuses
    <3> QED
      BY <3>1, <3>2
  <2>3. st'[Main] = "ok"
    BY <1>1, CallAssumption DEF Control, Statuses
  <2> QED
    BY <1>1, <2>1, <2>2, <2>3 DEF Statuses
<1> QED
  BY <1>2, <1>3, <1>4, EndsLinks DEF Control

(* coroutine.create.                                                       *)
LEMMA CreateControl ==
  ASSUME Typed, Control, Depth > 0, NEW co \in Thread, co # Main, ~InUse(co), UNCHANGED <<cstack, ctl>>,
         st' = [st EXCEPT ![co] = "fresh"], Len(ci'[co]) = 1,
         \A t \in Thread : t # co => ci'[t] = ci[t] /\ baseCcalls'[t] = baseCcalls[t]
  PROVE  Control'
<1>1. /\ Depth' = Depth /\ cur' = cur
      /\ \A k \in 1 .. Depth : /\ cstack'[k] = cstack[k] /\ Below(k)' = Below(k)
                               /\ Lowest(k)' <=> Lowest(k)
                               /\ cstack[k].t # co /\ cstack[k].t \in Thread
      /\ \A t \in Thread : InUse(t)' <=> InUse(t)
      /\ \A t \in Thread : t # co => st'[t] = st[t]
      /\ st'[co] = "fresh"
  BY TypedIs, UsedIs DEF Depth, cur, Below, Lowest, InUse, Typed
<1>2. Linking' /\ Ordering'
  BY <1>1 DEF Control, Linking, Ordering
<1>3. Resumed'
  BY <1>1 DEF Control, Resumed
<1>4. Heights'
  BY <1>1 DEF Control, Heights
<1>5. Statuses'
  <2>1. ASSUME NEW t \in Thread
        PROVE  /\ st'[t] \in {"none", "fresh", "ok"} /\ ~InUse(t)' => Len(ci'[t]) = 1
               /\ st'[t] = "yield" => Len(ci'[t]) > 2 /\ ci'[t][2] \in Fn
    BY <1>1 DEF Control, Statuses
  <2>2. st'[Main] = "ok"
    BY <1>1, CallAssumption DEF Control, Statuses
  <2>3. /\ Depth' = 0 => ctl' = "run"
        /\ \A k \in 1 .. Depth : st'[cstack[k].t] \in {"ok", "fresh"}
    BY <1>1 DEF Control, Statuses
  <2> QED
    BY <1>1, <2>1, <2>2, <2>3 DEF Statuses
<1> QED
  BY <1>2, <1>3, <1>4, <1>5 DEF Control
-----------------------------------------------------------------------------
(* Part 5: what steps do to the counters of C calls.                       *)
(* luaD_call.                                                              *)
LEMMA CallLevels ==
  ASSUME Typed, Typed', Levels, NEW a \in Activation, Begins(a), UNCHANGED <<st, baseCcalls>>,
         a.how # "resume", a.calls = nCcalls[a.t],
         st[a.t] = "fresh" \/ a.t = Main \/ InUse(a.t),
         nCcalls' = [nCcalls EXCEPT ![a.t] = @ + 1]
  PROVE  Levels'
<1>1. /\ Depth \in Nat /\ a.t \in Thread /\ nCcalls[a.t] \in Nat /\ baseCcalls[a.t] \in Nat
      /\ \A k \in 1 .. Depth : cstack[k].t \in Thread
  BY TypedIs DEF Activation
<1>2. /\ Depth' = Depth + 1 /\ cstack'[Depth + 1] = a
      /\ \A k \in 1 .. Depth : cstack'[k] = cstack[k]
      /\ \A t \in Thread : InUse(t)' <=> InUse(t) \/ t = a.t
  BY BeginsIs
<1>3. /\ \A k \in 1 .. Depth' : k \in 1 .. Depth \/ k = Depth + 1
      /\ Depth + 1 \in 1 .. Depth' /\ \A k \in 1 .. Depth : k \in 1 .. Depth' /\ k < Depth + 1
  BY <1>1, <1>2
<1>4. /\ \A t \in Thread : t # a.t => nCcalls'[t] = nCcalls[t]
      /\ nCcalls'[a.t] = nCcalls[a.t] + 1
  BY <1>1 DEF Typed
<1>5. /\ \A k \in 1 .. Depth : Level(k)' = Level(k)
      /\ \A k \in 1 .. Depth' : k = Depth + 1 => Level(k)' = nCcalls[a.t] + 1
  BY <1>2 DEF Level
<1>6. /\ \A k \in 1 .. Depth :
           /\ (\A j \in 1 .. Depth : k < j => cstack[j].t # cstack[k].t) => nCcalls[cstack[k].t] = Level(k)
           /\ cstack[k].how # "resume" => cstack[k].calls >= baseCcalls[cstack[k].t]
      /\ \A j, k \in 1 .. Depth :
           j < k /\ cstack[j].t = cstack[k].t
           /\ (\A i \in 1 .. Depth : j < i /\ i < k => cstack[i].t # cstack[j].t) => cstack[k].calls = Level(j)
      /\ \A t \in Thread : st[t] = "fresh" \/ t = Main \/ InUse(t) => nCcalls[t] >= baseCcalls[t]
  BY DEF Levels
<1>7. ASSUME NEW k \in 1 .. Depth',
             \A j \in 1 .. Depth' : k < j => cstack'[j].t # cstack'[k].t
      PROVE  nCcalls'[cstack'[k].t] = Level(k)'
  <2>1. CASE k = Depth + 1
    BY <1>2, <1>4, <1>5, <2>1
  <2>2. CASE k \in 1 .. Depth
    <3>1. cstack[k].t # a.t
      BY <1>2, <1>3, <1>7, <2>2
    <3>2. \A j \in 1 .. Depth : k < j => cstack[j].t # cstack[k].t
      BY <1>2, <1>3, <1>7, <2>2
    <3>3. nCcalls[cstack[k].t] = Level(k)
      BY <1>6, <2>2, <3>2
    <3> QED
      BY <1>1, <1>2, <1>4, <1>5, <2>2, <3>1, <3>3
  <2> QED
    BY <1>3, <2>1, <2>2
<1>8. ASSUME NEW k \in 1 .. Depth', cstack'[k].how # "resume"
      PROVE  cstack'[k].calls >= baseCcalls'[cstack'[k].t]
  <2>1. CASE k = Depth + 1
    BY <1>2, <1>6, <1>1, <2>1
  <2>2. CASE k \in 1 .. Depth
    BY <1>2, <1>6, <1>8, <2>2
  <2> QED
    BY <1>3, <2>1, <2>2
<1>9. ASSUME NEW j \in 1 .. Depth', NEW k \in 1 .. Depth', j < k, cstack'[j].t = cstack'[k].t,
             \A i \in 1 .. Depth' : j < i /\ i < k => cstack'[i].t # cstack'[j].t
      PROVE  cstack'[k].calls = Level(j)'
  <2>0. j \in 1 .. Depth
    BY <1>1, <1>2, <1>9
  <2>1. CASE k = Depth + 1
    <3>1. \A i \in 1 .. Depth : j < i => cstack[i].t # cstack[j].t
      BY <1>2, <1>3, <1>9, <2>0, <2>1
    <3> QED
      BY <1>2, <1>5, <1>6, <1>9, <2>0, <2>1, <3>1
  <2>2. CASE k \in 1 .. Depth
    <3>1. \A i \in 1 .. Depth : j < i /\ i < k => cstack[i].t # cstack[j].t
      BY <1>2, <1>3, <1>9, <2>0, <2>2
    <3> QED
      BY <1>2, <1>5, <1>6, <1>9, <2>0, <2>2, <3>1
  <2> QED
    BY <1>3, <2>1, <2>2
<1>10. ASSUME NEW t \in Thread, st[t] = "fresh" \/ t = Main \/ InUse(t)'
       PROVE  nCcalls'[t] >= baseCcalls'[t]
  <2>1. nCcalls[t] >= baseCcalls[t] /\ nCcalls[t] \in Nat /\ baseCcalls[t] \in Nat
    BY <1>2, <1>6, <1>10, TypedIs
  <2> QED
    BY <1>4, <2>1
<1>11. /\ \A k \in 1 .. Depth' :
            /\ (\A j \in 1 .. Depth' : k < j => cstack'[j].t # cstack'[k].t) => nCcalls'[cstack'[k].t] = Level(k)'
            /\ cstack'[k].how # "resume" => cstack'[k].calls >= baseCcalls'[cstack'[k].t]
       /\ \A j, k \in 1 .. Depth' :
            j < k /\ cstack'[j].t = cstack'[k].t
            /\ (\A i \in 1 .. Depth' : j < i /\ i < k => cstack'[i].t # cstack'[j].t) => cstack'[k].calls = Level(j)'
       /\ \A t \in Thread : st'[t] = "fresh" \/ t = Main \/ InUse(t)' => nCcalls'[t] >= baseCcalls'[t]
  BY <1>7, <1>8, <1>9, <1>10
<1> QED
  BY <1>11 DEF Levels

(* lua_resumefrom.                                                         *)
LEMMA ResumeLevels ==
  ASSUME Typed, Levels, NEW a \in Activation, Begins(a), a.how = "resume", ~InUse(a.t),
         st'[a.t] = "ok", nCcalls'[a.t] = baseCcalls'[a.t], nCcalls'[a.t] \in Nat,
         \A t \in Thread : t # a.t => /\ st'[t] = st[t] /\ nCcalls'[t] = nCcalls[t]
                                      /\ baseCcalls'[t] = baseCcalls[t]
  PROVE  Levels'
<1>1. /\ Depth \in Nat /\ a.t \in Thread
      /\ \A k \in 1 .. Depth : cstack[k].t \in Thread /\ cstack[k].t # a.t
  BY TypedIs, UsedIs DEF Activation
<1>2. /\ Depth' = Depth + 1 /\ cstack'[Depth + 1] = a
      /\ \A k \in 1 .. Depth : cstack'[k] = cstack[k]
      /\ \A t \in Thread : InUse(t)' <=> InUse(t) \/ t = a.t
  BY BeginsIs
<1>3. /\ \A k \in 1 .. Depth' : k \in 1 .. Depth \/ k = Depth + 1
      /\ Depth + 1 \in 1 .. Depth' /\ \A k \in 1 .. Depth : k \in 1 .. Depth' /\ k < Depth + 1
  BY <1>1, <1>2
<1>4. /\ \A k \in 1 .. Depth : Level(k)' = Level(k)
      /\ \A k \in 1 .. Depth' : k = Depth + 1 => Level(k)' = baseCcalls'[a.t]
  BY <1>1, <1>2 DEF Level
<1>5. ASSUME NEW k \in 1 .. Depth',
             \A j \in 1 .. Depth' : k < j => cstack'[j].t # cstack'[k].t
      PROVE  nCcalls'[cstack'[k].t] = Level(k)'
  <2>1. CASE k = Depth + 1
    BY <1>2, <1>4, <2>1
  <2>2. CASE k \in 1 .. Depth
    <3>1. \A j \in 1 .. Depth : k < j => cstack[j].t # cstack[k].t
      BY <1>2, <1>3, <1>5, <2>2
    <3>2. nCcalls[cstack[k].t] = Level(k)
      BY <2>2, <3>1 DEF Levels
    <3> QED
      BY <1>1, <1>2, <1>4, <2>2, <3>2
  <2> QED
    BY <1>3, <2>1, <2>2
<1>6. ASSUME NEW k \in 1 .. Depth', cstack'[k].how # "resume"
      PROVE  cstack'[k].calls >= baseCcalls'[cstack'[k].t]
  <2>1. k \in 1 .. Depth
    BY <1>2, <1>3, <1>6
  <2> QED
    BY <1>1, <1>2, <1>6, <2>1 DEF Levels
<1>7. ASSUME NEW j \in 1 .. Depth', NEW k \in 1 .. Depth', j < k, cstack'[j].t = cstack'[k].t,
             \A i \in 1 .. Depth' : j < i /\ i < k => cstack'[i].t # cstack'[j].t
      PROVE  cstack'[k].calls = Level(j)'
  <2>1. j \in 1 .. Depth
    BY <1>1, <1>2, <1>7
  <2>2. k \in 1 .. Depth
    BY <1>1, <1>2, <1>3, <1>7, <2>1
  <2>3. \A i \in 1 .. Depth : j < i /\ i < k => cstack[i].t # cstack[j].t
    BY <1>2, <1>3, <1>7, <2>1, <2>2
  <2> QED
    BY <1>2, <1>4, <1>7, <2>1, <2>2, <2>3 DEF Levels
<1>8. ASSUME NEW t \in Thread, st'[t] = "fresh" \/ t = Main \/ InUse(t)'
      PROVE  nCcalls'[t] >= baseCcalls'[t]
  <2>1. CASE t = a.t
    BY <2>1
  <2>2. CASE t # a.t
    BY <1>2, <1>8, <2>2 DEF Levels
  <2> QED
    BY <2>1, <2>2
<1> QED
  BY <1>5, <1>6, <1>7, <1>8 DEF Levels

(* An activation ends: nCcalls is again what it has saved.                 *)
LEMMA EndLevels ==
  ASSUME Typed, Control, Levels, NEW k \in 1 .. Depth, Ends(k), UNCHANGED baseCcalls,
         \A t \in Thread : t # cur => nCcalls'[t] = nCcalls[t],
         \A t \in Thread : st'[t] = "fresh" => st[t] = "fresh",
         IF cstack[k].how = "resume" THEN st'[cur] # "fresh" ELSE nCcalls'[cur] = cstack[k].calls
  PROVE  Levels'
<1>1. /\ Depth \in Nat /\ k \in Nat /\ k <= Depth
      /\ \A j \in 1 .. Depth : cstack[j].t \in Thread
      /\ \A t \in Thread : nCcalls[t] \in Nat /\ baseCcalls[t] \in Nat
  BY TypedIs
<1>2. /\ Depth' = k - 1 /\ cstack[k].t = cur
      /\ \A j \in 1 .. k - 1 : j \in 1 .. Depth /\ cstack'[j] = cstack[j] /\ j < k
      /\ \A j \in k .. Depth : cstack[j].t = cur
      /\ \A t \in Thread : InUse(t)' => InUse(t)
  <2>1. \A j \in 1 .. k - 1 : j < k
    BY <1>1
  <2> QED
    BY <2>1, EndsIs
<1>3. \A j \in 1 .. Depth : j \in 1 .. k - 1 \/ j \in k .. Depth
  BY <1>1
<1>4. \A j \in 1 .. k - 1 : Level(j)' = Level(j)
  BY <1>2 DEF Level
<1>5. cstack[k].how = "resume" => \A j \in 1 .. k - 1 : cstack[j].t # cur
  BY <1>2, ResumedIs
<1>6. ASSUME NEW j \in 1 .. k - 1, \A i \in 1 .. k - 1 : j < i => cstack'[i].t # cstack'[j].t
      PROVE  nCcalls'[cstack'[j].t] = Level(j)'
  <2>1. CASE cstack[j].t = cur
    <3>1. \A i \in 1 .. Depth : j < i /\ i < k => cstack[i].t # cstack[j].t
      <4>1. \A i \in 1 .. Depth : i < k => i \in 1 .. k - 1
        BY <1>1
      <4> QED
        BY <1>2, <1>6, <4>1
    <3>2. cstack[k].calls = Level(j)
      BY <1>2, <2>1, <3>1 DEF Levels
    <3> QED
      BY <1>2, <1>4, <1>5, <2>1, <3>2
  <2>2. CASE cstack[j].t # cur
    <3>1. \A i \in 1 .. Depth : j < i => cstack[i].t # cstack[j].t
      BY <1>2, <1>3, <1>6, <2>2
    <3>2. nCcalls[cstack[j].t] = Level(j)
      BY <1>2, <3>1 DEF Levels
    <3> QED
      BY <1>1, <1>2, <1>4, <2>2, <3>2
  <2> QED
    BY <2>1, <2>2
<1>7. \A j \in 1 .. k - 1 : cstack'[j].how # "resume" => cstack'[j].calls >= baseCcalls'[cstack'[j].t]
  BY <1>2 DEF Levels
<1>8. ASSUME NEW i \in 1 .. k - 1, NEW j \in 1 .. k - 1, i < j, cstack'[i].t = cstack'[j].t,
             \A m \in 1 .. k - 1 : i < m /\ m < j => cstack'[m].t # cstack'[i].t
      PROVE  cstack'[j].calls = Level(i)'
  <2>1. \A m \in 1 .. Depth : i < m /\ m < j => cstack[m].t # cstack[i].t
    <3>1. \A m \in 1 .. Depth : m < j => m \in 1 .. k - 1
      BY <1>1
    <3> QED
      BY <1>2, <1>8, <3>1
  <2> QED
    BY <1>2, <1>4, <1>8, <2>1 DEF Levels
<1>9. ASSUME NEW t \in Thread, st'[t] = "fresh" \/ t = Main \/ InUse(t)'
      PROVE  nCcalls'[t] >= baseCcalls'[t]
  <2>1. nCcalls[t] >= baseCcalls[t]
    BY <1>2, <1>9 DEF Levels
  <2>2. CASE t # cur
    BY <2>1, <2>2
  <2>3. CASE t = cur /\ cstack[k].how # "resume"
    BY <1>2, <2>3 DEF Levels
  <2>4. CASE t = cur /\ cstack[k].how = "resume"
    <3>1. t # Main /\ st'[t] # "fresh"
      BY <1>2, <2>4, ResumedIs
    <3>2. ~InUse(t)'
      <4>1. cstack' \in Seq(Activation)
        <5>1. k - 1 \in 0 .. Depth /\ cstack \in Seq(Activation)
          BY <1>1, TypedIs
        <5> QED
          BY <5>1, Unwinds DEF Ends
      <4>2. DOMAIN cstack' = 1 .. k - 1
        BY <1>2, <4>1 DEF Depth
      <4> QED
        BY <1>2, <1>5, <2>4, <4>2 DEF InUse
    <3> QED
      BY <1>9, <3>1, <3>2
  <2> QED
    BY <2>2, <2>3, <2>4
<1> QED
  BY <1>2, <1>6, <1>7, <1>8, <1>9 DEF Levels

(* luaE_newthread.                                                         *)
LEMMA CreateLevels ==
  ASSUME Typed, Levels, NEW co \in Thread, ~InUse(co), UNCHANGED cstack,
         nCcalls'[co] = 0, baseCcalls'[co] = 0,
         \A t \in Thread : t # co => /\ st'[t] = st[t] /\ nCcalls'[t] = nCcalls[t]
                                     /\ baseCcalls'[t] = baseCcalls[t]
  PROVE  Levels'
<1>1. /\ Depth' = Depth
      /\ \A k \in 1 .. Depth : cstack[k].t # co /\ cstack[k].t \in Thread
      /\ \A t \in Thread : InUse(t)' <=> InUse(t)
  BY TypedIs, UsedIs DEF Depth, InUse
<1>2. \A k \in 1 .. Depth : Level(k)' = Level(k)
  BY <1>1 DEF Level
<1>3. /\ \A k \in 1 .. Depth :
           /\ (\A j \in 1 .. Depth : k < j => cstack[j].t # cstack[k].t) => nCcalls'[cstack[k].t] = Level(k)
           /\ cstack[k].how # "resume" => cstack[k].calls >= baseCcalls'[cstack[k].t]
      /\ \A j, k \in 1 .. Depth :
           j < k /\ cstack[j].t = cstack[k].t
           /\ (\A i \in 1 .. Depth : j < i /\ i < k => cstack[i].t # cstack[j].t) => cstack[k].calls = Level(j)
  BY <1>1 DEF Levels
<1>4. \A t \in Thread : st'[t] = "fresh" \/ t = Main \/ InUse(t) => nCcalls'[t] >= baseCcalls'[t]
  BY <1>1 DEF Levels
<1> QED
  BY <1>1, <1>2, <1>3, <1>4 DEF Levels
-----------------------------------------------------------------------------
(* Part 6: what steps do to the error handlers.                            *)
LEMMA HandlesSame ==
  ASSUME NEW cs, NEW ds, NEW t, NEW n \in Nat, \A j \in 1 .. n : cs[j] = ds[j]
  PROVE  \A ef : Handles(cs, t, n, ef) <=> Handles(ds, t, n, ef)
<1>1. Uncaught(cs, t, n) <=> Uncaught(ds, t, n)
  BY DEF Uncaught
<1>2. ASSUME NEW k \in 1 .. n PROVE Catches(cs, t, k, n) <=> Catches(ds, t, k, n)
  <2>1. \A j \in k + 1 .. n : j \in 1 .. n
    OBVIOUS
  <2> QED
    BY <2>1 DEF Catches
<1> QED
  BY <1>1, <1>2 DEF Handles

(* Activations that are not catchers of the thread make no difference.     *)
LEMMA HandlesShorter ==
  ASSUME NEW cs, NEW t, NEW m \in Nat, NEW n \in Nat, m <= n,
         \A j \in m + 1 .. n : cs[j].t = t => cs[j].how \notin Catchers
  PROVE  \A ef : Handles(cs, t, n, ef) <=> Handles(cs, t, m, ef)
<1>1. /\ \A j \in 1 .. m : j \in 1 .. n
      /\ \A j \in 1 .. n : j \in 1 .. m \/ j \in m + 1 .. n
  OBVIOUS
<1>2. Uncaught(cs, t, n) <=> Uncaught(cs, t, m)
  BY <1>1 DEF Uncaught
<1>3. ASSUME NEW k \in 1 .. m PROVE Catches(cs, t, k, n) <=> Catches(cs, t, k, m)
  <2>1. /\ \A j \in k + 1 .. m : j \in k + 1 .. n
        /\ \A j \in k + 1 .. n : j \in k + 1 .. m \/ j \in m + 1 .. n
    OBVIOUS
  <2> QED
    BY <1>1, <2>1 DEF Catches
<1>4. \A k \in 1 .. n : Catches(cs, t, k, n) => k \in 1 .. m
  BY <1>1 DEF Catches
<1> QED
  BY <1>1, <1>2, <1>3, <1>4 DEF Handles

LEMMA HandlesLast ==
  \A cs, t, ef : \A n \in Nat : n >= 1 /\ cs[n].t = t /\ cs[n].how \in Catchers =>
    (Handles(cs, t, n, ef) <=> ef = cs[n].handler)
<1> SUFFICES ASSUME NEW cs, NEW t, NEW ef, NEW n \in Nat, n >= 1, cs[n].t = t, cs[n].how \in Catchers
             PROVE  Handles(cs, t, n, ef) <=> ef = cs[n].handler
  OBVIOUS
<1>1. n \in 1 .. n /\ \A j \in n + 1 .. n : FALSE
  OBVIOUS
<1>2. Catches(cs, t, n, n) /\ ~Uncaught(cs, t, n)
  BY <1>1 DEF Catches, Uncaught
<1>3. ASSUME NEW k \in 1 .. n, Catches(cs, t, k, n) PROVE k = n
  <2>1. k = n \/ n \in k + 1 .. n
    OBVIOUS
  <2> QED
    BY <1>3, <2>1 DEF Catches
<1> QED
  BY <1>1, <1>2, <1>3 DEF Handles

LEMMA HandlesNone ==
  ASSUME NEW cs, NEW t, NEW n \in Nat, \A j \in 1 .. n : cs[j].t # t
  PROVE  \A ef : Handles(cs, t, n, ef) <=> ef = "none"
  BY DEF Handles, Uncaught, Catches

(* A thread that does not run has no handler.                              *)
LEMMA IdleHandler ==
  ASSUME Typed, Handlers, NEW t \in Thread, ~InUse(t)
  PROVE  errfunc[t] = "none"
<1>1. Depth \in Nat /\ \A j \in 1 .. Depth : cstack[j].t # t
  BY TypedIs, UsedIs
<1> QED
  BY <1>1, HandlesNone DEF Handlers

LEMMA BeginHandlers ==
  ASSUME Typed, Handlers, NEW a \in Activation, Begins(a), a.ef = errfunc[a.t],
         \A t \in Thread : t # a.t => errfunc'[t] = errfunc[t],
         errfunc'[a.t] = IF a.how \in Catchers THEN a.handler ELSE errfunc[a.t]
  PROVE  Handlers'
<1>1. Depth \in Nat /\ a.t \in Thread /\ \A k \in 1 .. Depth : cstack[k].t \in Thread
  BY TypedIs DEF Activation
<1>2. /\ Depth' = Depth + 1 /\ cstack'[Depth + 1] = a
      /\ \A k \in 1 .. Depth : cstack'[k] = cstack[k]
      /\ \A k \in 1 .. Depth' : k \in 1 .. Depth \/ k = Depth + 1
  BY BeginsIs
<1>3. \A t \in Thread : \A ef : Handles(cstack', t, Depth, ef) <=> Handles(cstack, t, Depth, ef)
  BY <1>1, <1>2, HandlesSame
<1>4. ASSUME NEW t \in Thread PROVE Handles(cstack', t, Depth + 1, errfunc'[t])
  <2>1. CASE t = a.t /\ a.how \in Catchers
    <3>1. Depth + 1 \in Nat /\ Depth + 1 >= 1 /\ errfunc'[t] = a.handler
      BY <1>1, <2>1
    <3>2. ASSUME NEW n \in Nat, n = Depth + 1, NEW ef
          PROVE  Handles(cstack', t, n, ef) <=> ef = a.handler
      <4>1. n \in Nat /\ n >= 1 /\ cstack'[n] = a
        BY <1>1, <1>2, <3>2
      <4>2. n >= 1 /\ cstack'[n].t = t /\ cstack'[n].how \in Catchers
        BY <2>1, <4>1
      <4>3. Handles(cstack', t, n, ef) <=> ef = cstack'[n].handler
        BY <4>2, HandlesLast
      <4> QED
        BY <4>1, <4>3
    <3> QED
      BY <1>2, <3>1, <3>2
  <2>2. CASE ~(t = a.t /\ a.how \in Catchers)
    <3>1. \A j \in Depth + 1 .. Depth + 1 : cstack'[j].t = t => cstack'[j].how \notin Catchers
      BY <1>1, <1>2, <2>2
    <3>2. Handles(cstack', t, Depth, errfunc[t])
      BY <1>3 DEF Handlers
    <3>3. errfunc'[t] = errfunc[t]
      BY <2>2
    <3>4. Handles(cstack', t, Depth + 1, errfunc[t])
      BY <1>1, <3>1, <3>2, HandlesShorter
    <3> QED
      BY <3>3, <3>4
  <2> QED
    BY <2>1, <2>2
<1>5. ASSUME NEW k \in 1 .. Depth', cstack'[k].how \in {"pcall", "cocall"}
      PROVE  Handles(cstack', cstack'[k].t, k - 1, cstack'[k].ef)
  <2>1. CASE k = Depth + 1
    <3>1. k - 1 = Depth /\ cstack'[k] = a
      BY <1>1, <1>2, <2>1
    <3> QED
      BY <1>1, <1>3, <3>1 DEF Handlers
  <2>2. CASE k \in 1 .. Depth
    <3>1. k - 1 \in Nat /\ \A j \in 1 .. k - 1 : cstack'[j] = cstack[j]
      BY <1>1, <1>2, <2>2
    <3>2. Handles(cstack, cstack[k].t, k - 1, cstack[k].ef)
      BY <1>2, <1>5, <2>2 DEF Handlers
    <3> QED
      BY <1>2, <2>2, <3>1, <3>2, HandlesSame
  <2> QED
    BY <1>2, <2>1, <2>2
<1> QED
  BY <1>2, <1>4, <1>5 DEF Handlers

LEMMA EndHandlers ==
  ASSUME Typed, Control, Handlers, NEW k \in 1 .. Depth, Ends(k),
         errfunc' = RestoredHandler(cstack[k])
  PROVE  Handlers'
<1>1. /\ Depth \in Nat /\ k \in Nat /\ k >= 1 /\ k <= Depth /\ k - 1 \in Nat /\ cur \in Thread
      /\ Depth' = k - 1 /\ cstack[k].t = cur
      /\ \A j \in 1 .. k - 1 : j \in 1 .. Depth /\ cstack'[j] = cstack[j]
      /\ \A j \in k .. Depth : cstack[j].t = cur
      /\ \A t \in Thread : errfunc[t] \in Handler
  BY EndsIs, TypedIs
<1>2. \A j \in k + 1 .. Depth : cstack[j].how \notin Catchers
  BY DEF Ends
<1>3. \A t \in Thread : Handles(cstack, t, Depth, errfunc[t])
  BY DEF Handlers
<1>4. \A t \in Thread : t # cur => errfunc'[t] = errfunc[t]
  BY <1>1 DEF RestoredHandler, Typed
<1>5. ASSUME NEW t \in Thread PROVE Handles(cstack, t, k - 1, errfunc'[t])
  <2>1. CASE t # cur
    <3>1. \A j \in (k - 1) + 1 .. Depth : cstack[j].t = t => cstack[j].how \notin Catchers
      BY <1>1, <2>1
    <3>2. Handles(cstack, t, k - 1, errfunc[t])
      BY <1>1, <1>3, <3>1, HandlesShorter
    <3> QED
      BY <1>4, <2>1, <3>2
  <2>2. CASE t = cur /\ cstack[k].how \in {"pcall", "cocall"}
    <3>1. errfunc'[t] = cstack[k].ef
      BY <1>1, <2>2 DEF RestoredHandler, Typed
    <3> QED
      BY <1>1, <2>2, <3>1 DEF Handlers
  <2>3. CASE t = cur /\ cstack[k].how = "resume"
    <3>1. errfunc'[t] = errfunc[t]
      BY <2>3 DEF RestoredHandler
    <3>2. Handles(cstack, t, k, errfunc[t])
      BY <1>1, <1>2, <1>3, HandlesShorter
    <3>3. errfunc[t] = cstack[k].handler
      <4>1. k \in Nat /\ k >= 1 /\ cstack[k].how \in Catchers /\ t = cstack[k].t
        BY <1>1, <2>3 DEF Catchers
      <4>2. ASSUME NEW ef PROVE Handles(cstack, t, k, ef) <=> ef = cstack[k].handler
        BY <4>1, HandlesLast
      <4> QED
        BY <3>2, <4>2
    <3>4. cstack[k].handler = "none" /\ \A j \in 1 .. k - 1 : cstack[j].t # t
      BY <1>1, <2>3, ResumedIs DEF Control, Resumed
    <3> QED
      BY <1>1, <3>1, <3>3, <3>4, HandlesNone
  <2>4. CASE t = cur /\ cstack[k].how \notin Catchers
    <3>1. errfunc'[t] = errfunc[t]
      BY <2>4 DEF RestoredHandler, Catchers
    <3>2. \A j \in (k - 1) + 1 .. Depth : cstack[j].how \notin Catchers
      <4>1. \A j \in (k - 1) + 1 .. Depth : j = k \/ j \in k + 1 .. Depth
        BY <1>1
      <4> QED
        BY <1>2, <2>4, <4>1
    <3>3. Handles(cstack, t, k - 1, errfunc[t])
      BY <1>1, <1>3, <3>2, HandlesShorter
    <3> QED
      BY <3>1, <3>3
  <2> QED
    BY <2>1, <2>2, <2>3, <2>4 DEF Catchers
<1>6. \A t \in Thread : Handles(cstack', t, k - 1, errfunc'[t])
  BY <1>1, <1>5, HandlesSame
<1>7. ASSUME NEW j \in 1 .. k - 1, cstack'[j].how \in {"pcall", "cocall"}
      PROVE  Handles(cstack', cstack'[j].t, j - 1, cstack'[j].ef)
  <2>1. j - 1 \in Nat /\ \A i \in 1 .. j - 1 : cstack'[i] = cstack[i]
    BY <1>1
  <2>2. Handles(cstack, cstack[j].t, j - 1, cstack[j].ef)
    BY <1>1, <1>7 DEF Handlers
  <2> QED
    BY <1>1, <2>1, <2>2, HandlesSame
<1> QED
  BY <1>1, <1>6, <1>7 DEF Handlers

LEMMA CreateHandlers ==
  ASSUME Typed, Handlers, NEW co \in Thread, ~InUse(co), UNCHANGED cstack,
         errfunc' = [errfunc EXCEPT ![co] = "none"]
  PROVE  Handlers'
<1>1. errfunc[co] = "none"
  BY IdleHandler
<1>2. errfunc' = errfunc
  BY <1>1 DEF Typed
<1> QED
  BY <1>2 DEF Handlers, Depth

(* No handler is called for a coroutine whose first call fails.            *)
LEMMA FirstCallHandler ==
  ASSUME Typed, Control, Handlers, Len(ci[cur]) = 1,
         NEW k \in 1 .. Depth, cstack[k].t = cur, cstack[k].how = "resume"
  PROVE  errfunc[cur] = "none"
<1>1. /\ Depth \in Nat /\ k \in Nat /\ k >= 1 /\ k <= Depth /\ cur \in Thread
      /\ \A j \in 1 .. Depth : cstack[j].at \in Nat
  BY TypedIs
<1>2. ASSUME NEW j \in k + 1 .. Depth, cstack[j].t = cur PROVE cstack[j].how \notin Catchers
  <2>1. j \in 1 .. Depth /\ k < j
    BY <1>1
  <2>2. cstack[j].at <= 1 /\ cstack[k].at >= 1
    BY <1>2, <2>1 DEF Control, Heights, Linking
  <2>3. ~(cstack[k].at < cstack[j].at)
    BY <1>1, <2>1, <2>2
  <2>4. cstack[j].how = "handler"
    BY <1>2, <2>1, <2>3 DEF Control, Ordering
  <2> QED
    BY <2>4 DEF Catchers
<1>3. Handles(cstack, cur, k, errfunc[cur])
  <2>1. Handles(cstack, cur, Depth, errfunc[cur])
    BY <1>1 DEF Handlers
  <2> QED
    BY <1>1, <1>2, <2>1, HandlesShorter
<1>4. errfunc[cur] = cstack[k].handler
  <2>1. cstack[k].how \in Catchers
    BY DEF Catchers
  <2>2. \A ef : Handles(cstack, cur, k, ef) <=> ef = cstack[k].handler
    <3> DEFINE t == cur
    <3>1. k \in Nat /\ k >= 1 /\ cstack[k].t = t
      BY <1>1
    <3> HIDE DEF t
    <3>2. ASSUME NEW ef PROVE Handles(cstack, t, k, ef) <=> ef = cstack[k].handler
      BY <2>1, <3>1, HandlesLast
    <3> QED
      BY <3>2 DEF t
  <2> QED
    BY <1>3, <2>2
<1> QED
  BY <1>4 DEF Control, Resumed
-----------------------------------------------------------------------------
(* Part 7: what steps do to the counts of open calls.                      *)

(* Whether frame i of thread t, of those in c, is a call of f in progress. *)
IsCall(s, c, f, p) == s[p[1]] # "error" /\ p[2] \in 1 .. Len(c[p[1]]) /\ c[p[1]][p[2]] = f

LEMMA OpenedIs ==
  ASSUME NEW f
  PROVE  /\ Opened(f) = {p \in Thread \X Nat : IsCall(st, ci, f, p)}
         /\ Opened(f)' = {p \in Thread \X Nat : IsCall(st', ci', f, p)}
  BY DEF Opened, IsCall

(* The call of one more closure, the end of one, and both.                 *)
LEMMA MoreOpened ==
  ASSUME NEW f, NEW q \in Thread \X Nat, ~IsCall(st, ci, f, q), IsFiniteSet(Opened(f)),
         \A p \in Thread \X Nat : IsCall(st', ci', f, p) <=> IsCall(st, ci, f, p) \/ p = q
  PROVE  IsFiniteSet(Opened(f)') /\ Cardinality(Opened(f)') = Cardinality(Opened(f)) + 1
<1>1. Opened(f)' = Opened(f) \cup {q} /\ q \notin Opened(f)
  BY OpenedIs
<1> QED
  BY <1>1, FS_AddElement

LEMMA FewerOpened ==
  ASSUME NEW f, NEW q \in Thread \X Nat, IsCall(st, ci, f, q), IsFiniteSet(Opened(f)),
         \A p \in Thread \X Nat : IsCall(st', ci', f, p) <=> IsCall(st, ci, f, p) /\ p # q
  PROVE  IsFiniteSet(Opened(f)') /\ Cardinality(Opened(f)') = Cardinality(Opened(f)) - 1
<1>1. Opened(f)' = Opened(f) \ {q} /\ q \in Opened(f)
  BY OpenedIs
<1> QED
  BY <1>1, FS_RemoveElement

LEMMA SameOpened ==
  ASSUME NEW f, \A p \in Thread \X Nat : IsCall(st', ci', f, p) <=> IsCall(st, ci, f, p)
  PROVE  Opened(f)' = Opened(f)
  BY OpenedIs

LEMMA CardinalityIs ==
  ASSUME Counted, NEW f \in Closure
  PROVE  open[f] = Cardinality(Opened(f)) /\ Cardinality(Opened(f)) \in Nat /\ IsFiniteSet(Opened(f))
  BY FS_CardinalityType DEF Counted

(* Nothing is called and nothing ends.                                     *)
LEMMA QuietCount ==
  ASSUME Counted, open' = open,
         \A f \in Closure : \A p \in Thread \X Nat : IsCall(st', ci', f, p) <=> IsCall(st, ci, f, p)
  PROVE  Counted'
<1>1. \A f \in Closure : Opened(f)' = Opened(f)
  BY SameOpened
<1> QED
  BY <1>1 DEF Counted

(* luaD_precall.                                                           *)
LEMMA PushCount ==
  ASSUME Typed, Counted, NEW t \in Thread, NEW f \in Closure, st'[t] # "error",
         \A u \in Thread : st'[u] = "error" <=> st[u] = "error",
         ci' = [ci EXCEPT ![t] = Append(ci[t], f)], open' = Counts({}, f)
  PROVE  Counted'
<1> DEFINE q == <<t, Len(ci[t]) + 1>>
<1>1. /\ Len(ci[t]) \in Nat /\ Len(Append(ci[t], f)) = Len(ci[t]) + 1
      /\ Append(ci[t], f)[Len(ci[t]) + 1] = f
      /\ \A i \in 1 .. Len(ci[t]) : Append(ci[t], f)[i] = ci[t][i]
  BY Grown, TypedIs
<1>2. ci'[t] = Append(ci[t], f) /\ \A u \in Thread : u # t => ci'[u] = ci[u]
  BY DEF Typed
<1>3. q \in Thread \X Nat /\ q[1] = t /\ q[2] = Len(ci[t]) + 1
  BY <1>1
<1>4. \A g : ~IsCall(st, ci, g, q)
  BY <1>1, <1>3 DEF IsCall
<1>5. ASSUME NEW g \in Closure, NEW p \in Thread \X Nat
      PROVE  IsCall(st', ci', g, p) <=> IsCall(st, ci, g, p) \/ (g = f /\ p = q)
  <2>1. p[1] \in Thread /\ p[2] \in Nat /\ (p = q <=> p[1] = t /\ p[2] = Len(ci[t]) + 1)
    BY <1>1
  <2>2. CASE p[1] # t
    BY <1>2, <2>1, <2>2 DEF IsCall
  <2>3. CASE p[1] = t
    <3>1. p[2] \in 1 .. Len(ci'[t]) <=> p[2] \in 1 .. Len(ci[t]) \/ p[2] = Len(ci[t]) + 1
      BY <1>1, <1>2, <2>1
    <3>2. p[2] \in 1 .. Len(ci[t]) => ci'[t][p[2]] = ci[t][p[2]] /\ p[2] # Len(ci[t]) + 1
      BY <1>1, <1>2
    <3>3. ci'[t][Len(ci[t]) + 1] = f
      BY <1>1, <1>2
    <3> QED
      BY <2>1, <2>3, <3>1, <3>2, <3>3 DEF IsCall
  <2> QED
    BY <2>2, <2>3
<1> HIDE DEF q
<1>6. ASSUME NEW g \in Closure
      PROVE  IsFiniteSet(Opened(g)') /\ open'[g] = Cardinality(Opened(g)') /\ open'[g] \in Nat
  <2>1. open[g] = Cardinality(Opened(g)) /\ open[g] \in Nat /\ IsFiniteSet(Opened(g))
    BY CardinalityIs
  <2>2. CASE g = f
    <3>1. open'[g] = open[g] + 1
      BY <2>1, <2>2 DEF Counts
    <3>2. IsFiniteSet(Opened(g)') /\ Cardinality(Opened(g)') = Cardinality(Opened(g)) + 1
      BY <1>3, <1>4, <1>5, <2>1, <2>2, MoreOpened
    <3> QED
      BY <2>1, <3>1, <3>2
  <2>3. CASE g # f
    <3>1. open'[g] = open[g]
      BY <2>1, <2>3 DEF Counts
    <3>2. Opened(g)' = Opened(g)
      BY <1>5, <2>3, SameOpened
    <3> QED
      BY <2>1, <3>1, <3>2
  <2> QED
    BY <2>2, <2>3
<1>7. open' \in [Closure -> Nat]
  BY <1>6 DEF Counts
<1> QED
  BY <1>6, <1>7 DEF Counted

(* luaD_poscall.                                                           *)
LEMMA PopCount ==
  ASSUME Typed, Counted, NEW t \in Thread, Len(ci[t]) > 1, st[t] # "error", st'[t] # "error",
         \A u \in Thread : st'[u] = "error" <=> st[u] = "error",
         ci' = [ci EXCEPT ![t] = Front(ci[t])],
         open' = [open EXCEPT ![Last(ci[t])] = open[Last(ci[t])] - 1]
  PROVE  Counted'
<1> DEFINE q == <<t, Len(ci[t])>>
           f == Last(ci[t])
<1>1. /\ Len(ci[t]) \in Nat /\ Len(Front(ci[t])) = Len(ci[t]) - 1
      /\ \A i \in 1 .. Len(ci[t]) - 1 : Front(ci[t])[i] = ci[t][i]
      /\ f = ci[t][Len(ci[t])] /\ f \in Closure
  <2>1. ci[t] \in Frames /\ Len(ci[t]) \in 1 .. Len(ci[t])
    BY TypedIs
  <2> QED
    BY <2>1, Popped, FramesAre
<1>2. ci'[t] = Front(ci[t]) /\ \A u \in Thread : u # t => ci'[u] = ci[u]
  BY DEF Typed
<1>3. q \in Thread \X Nat /\ q[1] = t /\ q[2] = Len(ci[t])
  BY <1>1
<1>4. IsCall(st, ci, f, q) /\ \A g : g # f => ~IsCall(st, ci, g, q)
  BY <1>1, <1>3 DEF IsCall
<1>5. ASSUME NEW g \in Closure, NEW p \in Thread \X Nat
      PROVE  IsCall(st', ci', g, p) <=> IsCall(st, ci, g, p) /\ p # q
  <2>1. p[1] \in Thread /\ p[2] \in Nat /\ (p = q <=> p[1] = t /\ p[2] = Len(ci[t]))
    BY <1>1
  <2>2. CASE p[1] # t
    BY <1>2, <2>1, <2>2 DEF IsCall
  <2>3. CASE p[1] = t
    <3>1. p[2] \in 1 .. Len(ci'[t]) <=> p[2] \in 1 .. Len(ci[t]) /\ p[2] # Len(ci[t])
      BY <1>1, <1>2, <2>1
    <3>2. p[2] \in 1 .. Len(ci'[t]) => ci'[t][p[2]] = ci[t][p[2]]
      BY <1>1, <1>2
    <3> QED
      BY <2>1, <2>3, <3>1, <3>2 DEF IsCall
  <2> QED
    BY <2>2, <2>3
<1>6. open' = [open EXCEPT ![f] = open[f] - 1]
  OBVIOUS
<1> HIDE DEF q, f
<1>7. ASSUME NEW g \in Closure
      PROVE  IsFiniteSet(Opened(g)') /\ open'[g] = Cardinality(Opened(g)') /\ open'[g] \in Nat
  <2>1. open[g] = Cardinality(Opened(g)) /\ open[g] \in Nat /\ IsFiniteSet(Opened(g))
    BY CardinalityIs
  <2>2. CASE g = f
    <3>1. open'[g] = open[g] - 1
      BY <1>6, <2>1, <2>2 DEF Counted
    <3>2. IsFiniteSet(Opened(g)') /\ Cardinality(Opened(g)') = Cardinality(Opened(g)) - 1
      BY <1>3, <1>4, <1>5, <2>1, <2>2, FewerOpened
    <3> QED
      BY <2>1, <3>1, <3>2, FS_CardinalityType
  <2>3. CASE g # f
    <3>1. open'[g] = open[g]
      BY <1>6, <2>1, <2>3 DEF Counted
    <3>2. Opened(g)' = Opened(g)
      BY <1>3, <1>4, <1>5, <2>3, SameOpened
    <3> QED
      BY <2>1, <3>1, <3>2
  <2> QED
    BY <2>2, <2>3
<1>8. open' \in [Closure -> Nat]
  BY <1>6, <1>7 DEF Counted
<1> QED
  BY <1>7, <1>8 DEF Counted

(* OP_TAILCALL: the frame of the caller becomes that of f.                 *)
LEMMA ReplaceCount ==
  ASSUME Typed, Counted, NEW t \in Thread, NEW f \in Closure, Len(ci[t]) > 1, st[t] # "error",
         st' = st, ci' = [ci EXCEPT ![t] = Append(Front(ci[t]), f)],
         open' = Counts({Last(ci[t])}, f)
  PROVE  Counted'
<1> DEFINE q == <<t, Len(ci[t])>>
           e == Last(ci[t])
<1>1. /\ Len(ci[t]) \in Nat /\ Len(Append(Front(ci[t]), f)) = Len(ci[t])
      /\ Append(Front(ci[t]), f)[Len(ci[t])] = f
      /\ \A i \in 1 .. Len(ci[t]) - 1 : Append(Front(ci[t]), f)[i] = ci[t][i]
      /\ e = ci[t][Len(ci[t])] /\ e \in Closure
  <2>1. ci[t] \in Frames /\ Len(ci[t]) \in 1 .. Len(ci[t])
    BY TypedIs
  <2> QED
    BY <2>1, Replaced, FramesAre
<1>2. ci'[t] = Append(Front(ci[t]), f) /\ \A u \in Thread : u # t => ci'[u] = ci[u]
  BY DEF Typed
<1>3. q \in Thread \X Nat /\ q[1] = t /\ q[2] = Len(ci[t])
  BY <1>1
<1>4. IsCall(st, ci, e, q) /\ \A g : g # e => ~IsCall(st, ci, g, q)
  BY <1>1, <1>3 DEF IsCall
<1>5. ASSUME NEW g \in Closure, NEW p \in Thread \X Nat
      PROVE  IsCall(st', ci', g, p) <=> (IsCall(st, ci, g, p) /\ p # q) \/ (g = f /\ p = q)
  <2>1. p[1] \in Thread /\ p[2] \in Nat /\ (p = q <=> p[1] = t /\ p[2] = Len(ci[t]))
    BY <1>1
  <2>2. CASE p[1] # t
    BY <1>2, <2>1, <2>2 DEF IsCall
  <2>3. CASE p[1] = t /\ p[2] = Len(ci[t])
    BY <1>1, <1>2, <2>1, <2>3 DEF IsCall
  <2>4. CASE p[1] = t /\ p[2] # Len(ci[t])
    <3>1. p[2] \in 1 .. Len(ci'[t]) <=> p[2] \in 1 .. Len(ci[t])
      BY <1>1, <1>2
    <3>2. p[2] \in 1 .. Len(ci[t]) => ci'[t][p[2]] = ci[t][p[2]]
      BY <1>1, <1>2, <2>4
    <3> QED
      BY <2>1, <2>4, <3>1, <3>2 DEF IsCall
  <2> QED
    BY <2>2, <2>3, <2>4
<1>6. open' = Counts({e}, f)
  OBVIOUS
<1> HIDE DEF q, e
<1>7. ASSUME NEW g \in Closure
      PROVE  IsFiniteSet(Opened(g)') /\ open'[g] = Cardinality(Opened(g)') /\ open'[g] \in Nat
  <2>1. open[g] = Cardinality(Opened(g)) /\ open[g] \in Nat /\ IsFiniteSet(Opened(g))
    BY CardinalityIs
  <2>2. open'[g] = open[g] + (IF g = f THEN 1 ELSE 0) - (IF g = e THEN 1 ELSE 0)
    BY <1>6 DEF Counts
  <2>3. CASE (g = f /\ g = e) \/ (g # f /\ g # e)
    <3>1. Opened(g)' = Opened(g)
      BY <1>3, <1>4, <1>5, <2>3, SameOpened
    <3> QED
      BY <2>1, <2>2, <2>3, <3>1
  <2>4. CASE g = f /\ g # e
    <3>1. IsFiniteSet(Opened(g)') /\ Cardinality(Opened(g)') = Cardinality(Opened(g)) + 1
      <4>1. ~IsCall(st, ci, g, q)
        BY <1>4, <2>4
      <4>2. \A p \in Thread \X Nat : IsCall(st', ci', g, p) <=> IsCall(st, ci, g, p) \/ p = q
        BY <1>5, <2>4, <4>1
      <4> QED
        BY <1>3, <2>1, <4>1, <4>2, MoreOpened
    <3> QED
      BY <2>1, <2>2, <2>4, <3>1
  <2>5. CASE g # f /\ g = e
    <3>1. IsFiniteSet(Opened(g)') /\ Cardinality(Opened(g)') = Cardinality(Opened(g)) - 1
      <4>1. IsCall(st, ci, g, q)
        BY <1>4, <2>5
      <4>2. \A p \in Thread \X Nat : IsCall(st', ci', g, p) <=> IsCall(st, ci, g, p) /\ p # q
        BY <1>5, <2>5
      <4> QED
        BY <1>3, <2>1, <4>1, <4>2, FewerOpened
    <3> QED
      BY <2>1, <2>2, <2>5, <3>1, FS_CardinalityType
  <2> QED
    BY <2>3, <2>4, <2>5
<1>8. open' \in [Closure -> Nat]
  BY <1>6, <1>7 DEF Counts
<1> QED
  BY <1>7, <1>8 DEF Counted

LEMMA BijectionIs ==
  ASSUME NEW S, NEW T, NEW F \in [S -> T],
         \A a, b \in S : F[a] = F[b] => a = b, \A c \in T : \E a \in S : F[a] = c
  PROVE  ExistsBijection(S, T)
<1>1. F \in Injection(S, T)
  BY DEF Injection, IsInjective
<1>2. F \in Surjection(S, T)
  BY DEF Surjection
<1> QED
  BY <1>1, <1>2 DEF ExistsBijection, Bijection

(* luaD_unwindci: the frames of thread t above the first at are no longer  *)
(* calls in progress, because they go or because the coroutine is dead.    *)
LEMMA UnwindCount ==
  ASSUME Typed, Counted, NEW t \in Thread, NEW at \in 1 .. Len(ci[t]), st[t] # "error",
         \A u \in Thread : u # t => ci'[u] = ci[u] /\ (st'[u] = "error" <=> st[u] = "error"),
         \/ ci'[t] = SubSeq(ci[t], 1, at) /\ st'[t] # "error"
         \/ at = 1 /\ st'[t] = "error",
         open' = Unwound(t, at)
  PROVE  Counted'
<1> DEFINE Ended(g) == {i \in DOMAIN ci[t] : i > at /\ ci[t][i] = g}
<1>1. /\ Len(ci[t]) \in Nat /\ at \in Nat /\ at >= 1 /\ at <= Len(ci[t]) /\ DOMAIN ci[t] = 1 .. Len(ci[t])
      /\ Len(SubSeq(ci[t], 1, at)) = at
      /\ \A i \in 1 .. at : SubSeq(ci[t], 1, at)[i] = ci[t][i]
      /\ ci[t][1] = Base
  <2>1. ci[t] \in Frames /\ Len(ci[t]) \in Nat
    BY TypedIs
  <2> QED
    BY <2>1, Prefix, FramesAre
<1>2. ASSUME NEW g \in Closure, NEW p \in Thread \X Nat
      PROVE  IsCall(st', ci', g, p) <=> IsCall(st, ci, g, p) /\ ~(p[1] = t /\ p[2] > at)
  <2>1. p[1] \in Thread /\ p[2] \in Nat
    OBVIOUS
  <2>2. CASE p[1] # t
    BY <2>1, <2>2 DEF IsCall
  <2>3. CASE p[1] = t /\ ci'[t] = SubSeq(ci[t], 1, at) /\ st'[t] # "error"
    <3>1. p[2] \in 1 .. at <=> p[2] \in 1 .. Len(ci[t]) /\ ~(p[2] > at)
      BY <1>1, <2>1
    <3>2. p[2] \in 1 .. at => ci'[t][p[2]] = ci[t][p[2]]
      BY <1>1, <2>3
    <3> QED
      BY <1>1, <2>1, <2>3, <3>1, <3>2 DEF IsCall
  <2>4. CASE p[1] = t /\ at = 1 /\ st'[t] = "error"
    <3>1. p[2] \in 1 .. Len(ci[t]) /\ ~(p[2] > at) => p[2] = 1
      BY <1>1, <2>1, <2>4
    <3>2. ci[t][1] # g
      BY <1>1, CallAssumption
    <3> QED
      BY <2>1, <2>4, <3>1, <3>2 DEF IsCall
  <2> QED
    BY <2>2, <2>3, <2>4
<1>3. ASSUME NEW g \in Closure
      PROVE  IsFiniteSet(Opened(g)') /\ Cardinality(Opened(g)') = Cardinality(Opened(g)) - Cardinality(Ended(g))
  <2> DEFINE E == Ended(g)
             K == {p \in Opened(g) : p[1] = t /\ p[2] > at}
             F == [i \in E |-> <<t, i>>]
  <2>1. Opened(g)' = Opened(g) \ K /\ Opened(g) \cap K = K
    BY <1>2, OpenedIs
  <2>2. IsFiniteSet(Opened(g))
    BY CardinalityIs
  <2>3. IsFiniteSet(E)
    <3>1. IsFiniteSet(1 .. Len(ci[t])) /\ E \in SUBSET (1 .. Len(ci[t]))
      BY <1>1, FS_Interval
    <3> HIDE DEF E
    <3> QED
      BY <3>1, FS_Subset
  <2>4. ASSUME NEW i \in E PROVE <<t, i>> \in K
    <3>1. i \in Nat /\ i \in 1 .. Len(ci[t]) /\ i > at /\ ci[t][i] = g
      BY <1>1
    <3> QED
      BY <3>1 DEF Opened
  <2>5. ASSUME NEW p \in K PROVE p[2] \in E /\ p = <<t, p[2]>>
    <3>1. p \in Thread \X Nat /\ p[1] = t /\ p[2] > at /\ p[2] \in 1 .. Len(ci[t]) /\ ci[t][p[2]] = g
      BY DEF Opened
    <3> QED
      BY <1>1, <3>1
  <2> HIDE DEF E, K
  <2>6. /\ F \in [E -> K]
        /\ \A a, b \in E : F[a] = F[b] => a = b
        /\ \A c \in K : \E a \in E : F[a] = c
    BY <2>4, <2>5
  <2> HIDE DEF F
  <2>7. ExistsBijection(E, K)
    BY <2>6, BijectionIs
  <2>8. Cardinality(K) = Cardinality(E)
    BY <2>3, <2>7, FS_Bijection
  <2>9. IsFiniteSet(Opened(g) \ K) /\ Cardinality(Opened(g) \ K) = Cardinality(Opened(g)) - Cardinality(Opened(g) \cap K)
    BY <2>2, FS_Difference
  <2> QED
    BY <2>1, <2>8, <2>9 DEF E
<1>4. ASSUME NEW g \in Closure
      PROVE  IsFiniteSet(Opened(g)') /\ open'[g] = Cardinality(Opened(g)') /\ open'[g] \in Nat
  <2>1. open'[g] = open[g] - Cardinality(Ended(g))
    BY DEF Unwound
  <2>2. open[g] = Cardinality(Opened(g))
    BY CardinalityIs
  <2> HIDE DEF Ended
  <2> QED
    BY <1>3, <2>1, <2>2, FS_CardinalityType
<1>5. open' \in [Closure -> Nat]
  BY <1>4 DEF Unwound
<1> QED
  BY <1>4, <1>5 DEF Counted

(* luaE_newthread, for a thread that has no calls.                         *)
LEMMA CreateCount ==
  ASSUME Typed, Counted, NEW co \in Thread, st[co] = "error" \/ Len(ci[co]) = 1,
         st' = [st EXCEPT ![co] = "fresh"], ci' = [ci EXCEPT ![co] = <<Base>>], open' = open
  PROVE  Counted'
<1>1. \A u \in Thread : u # co => ci'[u] = ci[u] /\ st'[u] = st[u]
  BY DEF Typed
<1>2. ci'[co] = <<Base>> /\ ci[co][1] = Base
  BY TypedIs, FramesAre DEF Typed
<1>3. ASSUME NEW f \in Closure, NEW p \in Thread \X Nat
      PROVE  IsCall(st', ci', f, p) <=> IsCall(st, ci, f, p)
  <2>1. p[1] \in Thread /\ p[2] \in Nat /\ f # Base
    BY CallAssumption
  <2>2. CASE p[1] # co
    BY <1>1, <2>1, <2>2 DEF IsCall
  <2>3. CASE p[1] = co
    <3>1. ~IsCall(st', ci', f, p)
      BY <1>2, <2>1, <2>3 DEF IsCall
    <3>2. ~IsCall(st, ci, f, p)
      <4>1. Len(ci[co]) = 1 /\ p[2] \in 1 .. Len(ci[co]) => p[2] = 1
        BY <2>1
      <4> QED
        BY <1>2, <2>1, <2>3, <4>1 DEF IsCall
    <3> QED
      BY <3>1, <3>2
  <2> QED
    BY <2>2, <2>3
<1> QED
  BY <1>3, QuietCount
-----------------------------------------------------------------------------
(* Part 8: every step keeps the invariant.                                 *)

(* luaD_precall: the CallInfos in use fit the array, or there is an error. *)
LEMMA PrecallIs ==
  ASSUME Typed, NEW t \in Thread, NEW r \in Frames, NEW counts,
         Len(r) <= Len(ci[t]) + 1, Precall(t, r, counts)
  PROVE  /\ ci' \in [Thread -> Frames] /\ size' \in [Thread -> Nat]
         /\ \A u \in Thread : Len(ci'[u]) <= size'[u]
         /\ \A u \in Thread : u # t => ci'[u] = ci[u]
         /\ ctl' \in {"run", "error", "ERRERR"}
         /\ \/ ctl' = "run" /\ ci' = [ci EXCEPT ![t] = r] /\ ci'[t] = r /\ open' = counts
            \/ ctl' # "run" /\ ci' = ci /\ open' = open
<1> DEFINE double == 2 * size[t]
<1>1. /\ Len(ci[t]) \in Nat /\ Len(ci[t]) >= 1 /\ Len(ci[t]) <= size[t] /\ size[t] \in Nat
      /\ double \in Nat /\ Len(r) \in Nat /\ LUAI_MAXCALLS \in Nat
      /\ size[t] >= 1 /\ double >= size[t] + 1
  <2>1. Len(ci[t]) \in Nat /\ Len(ci[t]) >= 1 /\ Len(ci[t]) <= size[t] /\ size[t] \in Nat
    BY TypedIs
  <2>2. Len(r) \in Nat /\ LUAI_MAXCALLS \in Nat
    BY FramesAre, CallAssumption
  <2>3. double \in Nat /\ size[t] >= 1 /\ double >= size[t] + 1
    BY <2>1
  <2> QED
    BY <2>1, <2>2, <2>3
<1>2. /\ ci \in [Thread -> Frames] /\ size \in [Thread -> Nat]
      /\ \A u \in Thread : Len(ci[u]) <= size[u] /\ Len(ci[u]) \in Nat
  BY TypedIs DEF Typed
<1>3. \/ /\ ctl' = "run" /\ ci' = [ci EXCEPT ![t] = r] /\ open' = counts
         /\ size' = IF Len(ci[t]) = size[t] THEN [size EXCEPT ![t] = double] ELSE size
      \/ /\ ctl' \in {"error", "ERRERR"} /\ ci' = ci /\ open' = open
         /\ size' \in {size, [size EXCEPT ![t] = double]}
  BY DEF Precall
<1> HIDE DEF double
<1>4. CASE /\ ctl' = "run" /\ ci' = [ci EXCEPT ![t] = r] /\ open' = counts
           /\ size' = IF Len(ci[t]) = size[t] THEN [size EXCEPT ![t] = double] ELSE size
  <2>1. /\ ci' \in [Thread -> Frames] /\ ci'[t] = r
        /\ \A u \in Thread : u # t => ci'[u] = ci[u]
    BY <1>2, <1>4
  <2>2. /\ size' \in [Thread -> Nat]
        /\ \A u \in Thread : u # t => size'[u] = size[u]
        /\ size'[t] = IF Len(ci[t]) = size[t] THEN double ELSE size[t]
    BY <1>1, <1>2, <1>4
  <2>3. Len(r) <= size'[t]
    BY <1>1, <2>2
  <2> QED
    BY <1>2, <1>4, <2>1, <2>2, <2>3
<1>5. CASE /\ ctl' \in {"error", "ERRERR"} /\ ci' = ci /\ open' = open
           /\ size' \in {size, [size EXCEPT ![t] = double]}
  <2>1. /\ size' \in [Thread -> Nat]
        /\ \A u \in Thread : size'[u] \in Nat /\ size'[u] >= size[u]
    BY <1>1, <1>2, <1>5
  <2>2. \A u \in Thread : Len(ci'[u]) <= size'[u]
    BY <1>2, <1>5, <2>1
  <2> QED
    BY <1>2, <1>5, <2>1, <2>2
<1> QED
  BY <1>3, <1>4, <1>5

(* luaD_call.                                                              *)
Activated(how, t, handler) ==
  [how |-> how, t |-> t, at |-> Len(ci[t]), calls |-> nCcalls[t],
   ef |-> errfunc[t], handler |-> handler]

LEMMA CallIs ==
  ASSUME Typed, NEW how \in How, NEW t \in Thread, NEW f \in Closure, NEW handler \in Handler,
         Call(how, t, f, handler)
  PROVE  /\ Activated(how, t, handler) \in Activation /\ Begins(Activated(how, t, handler))
         /\ nCcalls' = [nCcalls EXCEPT ![t] = @ + 1] /\ nCcalls' \in [Thread -> Nat]
         /\ ci' \in [Thread -> Frames] /\ size' \in [Thread -> Nat]
         /\ \A u \in Thread : Len(ci'[u]) <= size'[u]
         /\ \A u \in Thread : u # t => ci'[u] = ci[u]
         /\ ctl' \in {"run", "error", "ERRERR"}
         /\ \/ ctl' = "run" /\ ci' = [ci EXCEPT ![t] = Append(ci[t], f)] /\ open' = Counts({}, f)
            \/ ctl' # "run" /\ ci' = ci /\ open' = open
<1>1. /\ Len(ci[t]) \in Nat /\ nCcalls[t] \in Nat /\ errfunc[t] \in Handler
      /\ ci \in [Thread -> Frames] /\ size \in [Thread -> Nat] /\ nCcalls \in [Thread -> Nat]
      /\ \A u \in Thread : Len(ci[u]) <= size[u]
  BY TypedIs DEF Typed
<1>2. Activated(how, t, handler) \in Activation
  BY <1>1 DEF Activated, Activation
<1>3. Begins(Activated(how, t, handler))
  BY DEF Call, Activate, Begins, Activated
<1>4. nCcalls' = [nCcalls EXCEPT ![t] = @ + 1] /\ nCcalls' \in [Thread -> Nat]
  BY <1>1 DEF Call
<1>5. \/ ctl' \in {"error", "ERRERR"} /\ UNCHANGED <<ci, size, open>>
      \/ Precall(t, Append(ci[t], f), Counts({}, f))
  BY DEF Call, CallOf
<1>6. CASE ctl' \in {"error", "ERRERR"} /\ UNCHANGED <<ci, size, open>>
  BY <1>1, <1>2, <1>3, <1>4, <1>6
<1>7. CASE Precall(t, Append(ci[t], f), Counts({}, f))
  <2>1. Append(ci[t], f) \in Frames /\ Len(Append(ci[t], f)) <= Len(ci[t]) + 1
    BY <1>1, Grown
  <2> DEFINE r == Append(ci[t], f)
             counts == Counts({}, f)
  <2>2. r \in Frames /\ Len(r) <= Len(ci[t]) + 1 /\ Precall(t, r, counts)
    BY <1>7, <2>1
  <2> HIDE DEF r, counts
  <2>3. /\ ci' \in [Thread -> Frames] /\ size' \in [Thread -> Nat]
        /\ \A u \in Thread : Len(ci'[u]) <= size'[u]
        /\ \A u \in Thread : u # t => ci'[u] = ci[u]
        /\ ctl' \in {"run", "error", "ERRERR"}
        /\ \/ ctl' = "run" /\ ci' = [ci EXCEPT ![t] = r] /\ open' = counts
           \/ ctl' # "run" /\ ci' = ci /\ open' = open
    BY <2>2, PrecallIs
  <2> QED
    BY <1>2, <1>3, <1>4, <2>3 DEF r, counts
<1> QED
  BY <1>5, <1>6, <1>7

(* A call on the C stack keeps the invariant.                              *)
LEMMA CallStep ==
  ASSUME Inv, NEW how \in How \ {"resume"}, NEW t \in Thread, NEW f \in Closure, NEW handler \in Handler,
         Call(how, t, f, handler), UNCHANGED <<baseCcalls, st>>,
         errfunc' = IF how \in Catchers THEN [errfunc EXCEPT ![t] = handler] ELSE errfunc,
         st[t] \in {"ok", "fresh"}, st[t] = "fresh" \/ t = Main \/ InUse(t),
         how \notin Switch => t = cur,
         Depth = 0 => how = "pcall",
         ctl = "run" \/ how = "handler",
         ctl = "run" \/ Len(ci[cur]) > 1 \/ \A k \in 1 .. Depth : cstack[k].t = cur => cstack[k].how # "resume"
  PROVE  Inv'
<1> DEFINE a == Activated(how, t, handler)
<1>1. Typed /\ Control /\ Levels /\ Handlers /\ Counted
  BY DEF Inv
<1>2. /\ a \in Activation /\ Begins(a)
      /\ nCcalls' = [nCcalls EXCEPT ![t] = @ + 1] /\ nCcalls' \in [Thread -> Nat]
      /\ ci' \in [Thread -> Frames] /\ size' \in [Thread -> Nat]
      /\ \A u \in Thread : Len(ci'[u]) <= size'[u]
      /\ \A u \in Thread : u # t => ci'[u] = ci[u]
      /\ ctl' \in {"run", "error", "ERRERR"}
      /\ \/ ctl' = "run" /\ ci' = [ci EXCEPT ![t] = Append(ci[t], f)] /\ open' = Counts({}, f)
         \/ ctl' # "run" /\ ci' = ci /\ open' = open
  BY <1>1, CallIs
<1>3. /\ a.how = how /\ a.t = t /\ a.at = Len(ci[t]) /\ a.calls = nCcalls[t]
      /\ a.ef = errfunc[t] /\ a.handler = handler
  BY DEF Activated
<1> HIDE DEF a
<1>4. Typed'
  <2>1. cstack' \in Seq(Activation)
    BY <1>1, <1>2, Pushed DEF Typed
  <2>2. errfunc' \in [Thread -> Handler]
    BY <1>1 DEF Typed
  <2> QED
    BY <1>1, <1>2, <2>1, <2>2 DEF Typed
<1>5. Control'
  <2>1. \/ ctl' # "run" /\ ci'[t] = ci[t]
        \/ /\ ctl' = "run" /\ Len(ci'[t]) = Len(ci[t]) + 1
           /\ \A i \in 1 .. Len(ci[t]) : ci'[t][i] = ci[t][i]
    <3>1. /\ Len(Append(ci[t], f)) = Len(ci[t]) + 1
          /\ \A i \in 1 .. Len(ci[t]) : Append(ci[t], f)[i] = ci[t][i]
      BY <1>1, TypedIs, Grown
    <3>2. ci' = [ci EXCEPT ![t] = Append(ci[t], f)] => ci'[t] = Append(ci[t], f)
      BY <1>1 DEF Typed
    <3> QED
      BY <1>2, <3>1, <3>2
  <2> QED
    BY <1>1, <1>2, <1>3, <2>1, CallControl
<1>6. Levels'
  BY <1>1, <1>2, <1>3, <1>4, CallLevels
<1>7. Handlers'
  <2>1. \A u \in Thread : u # t => errfunc'[u] = errfunc[u]
    BY <1>1 DEF Typed
  <2>2. errfunc'[t] = IF how \in Catchers THEN handler ELSE errfunc[t]
    BY <1>1 DEF Typed
  <2> QED
    BY <1>1, <1>2, <1>3, <2>1, <2>2, BeginHandlers
<1>8. Counted'
  <2>1. CASE ctl' = "run" /\ ci' = [ci EXCEPT ![t] = Append(ci[t], f)] /\ open' = Counts({}, f)
    BY <1>1, <2>1, PushCount
  <2>2. CASE ctl' # "run" /\ ci' = ci /\ open' = open
    <3>1. \A g \in Closure : \A p \in Thread \X Nat : IsCall(st', ci', g, p) <=> IsCall(st, ci, g, p)
      BY <2>2
    <3> QED
      BY <1>1, <2>2, <3>1, QuietCount
  <2> QED
    BY <1>2, <2>1, <2>2
<1> QED
  BY <1>4, <1>5, <1>6, <1>7, <1>8 DEF Inv

LEMMA CurReady ==
  ASSUME Inv
  PROVE  /\ st[cur] \in {"ok", "fresh"} /\ cur \in Thread /\ errfunc[cur] \in Handler
         /\ st[cur] = "fresh" \/ cur = Main \/ InUse(cur)
         /\ InLua \/ InC => ctl = "run" /\ Depth > 0
         /\ InC \/ InHost => ctl = "run"
  BY CurRuns, TopIs, TypedIs DEF Inv, InC, InHost

LEMMA NestedCallStep ==
  ASSUME Inv, NEW f \in Closure, NestedCall(f)
  PROVE  Inv'
<1>1. /\ st[cur] \in {"ok", "fresh"} /\ cur \in Thread /\ errfunc[cur] \in Handler
      /\ st[cur] = "fresh" \/ cur = Main \/ InUse(cur)
      /\ ctl = "run" /\ Depth > 0 /\ Depth # 0
  BY CurReady DEF NestedCall
<1>2. "call" \in How \ {"resume"} /\ "call" \notin Catchers
  BY DEF How, Catchers
<1>3. Call("call", cur, f, errfunc[cur]) /\ UNCHANGED <<baseCcalls, errfunc, st>>
  BY DEF NestedCall
<1> QED
  BY <1>1, <1>2, <1>3, CallStep

LEMMA PCallStep ==
  ASSUME Inv, NEW f \in Closure, NEW handler \in Handler, PCall(f, handler)
  PROVE  Inv'
<1>1. /\ st[cur] \in {"ok", "fresh"} /\ cur \in Thread
      /\ st[cur] = "fresh" \/ cur = Main \/ InUse(cur)
      /\ ctl = "run"
  BY CurReady DEF PCall
<1>2. "pcall" \in How \ {"resume"} /\ "pcall" \in Catchers
  BY DEF How, Catchers
<1>3. /\ Call("pcall", cur, f, handler) /\ UNCHANGED <<baseCcalls, st>>
      /\ errfunc' = [errfunc EXCEPT ![cur] = handler]
  BY DEF PCall
<1> QED
  BY <1>1, <1>2, <1>3, CallStep

LEMMA HandleStep ==
  ASSUME Inv, NEW f \in Closure, Handle(f)
  PROVE  Inv'
<1>1. /\ st[cur] \in {"ok", "fresh"} /\ cur \in Thread /\ errfunc[cur] \in Handler
      /\ st[cur] = "fresh" \/ cur = Main \/ InUse(cur)
  BY CurReady
<1>2. "handler" \in How \ {"resume"} /\ "handler" \notin Catchers
  BY DEF How, Catchers
<1>3. /\ Call("handler", cur, f, errfunc[cur]) /\ UNCHANGED <<baseCcalls, errfunc, st>>
      /\ ctl = "error" /\ errfunc[cur] # "none"
  BY DEF Handle
<1>4. Typed /\ Control /\ Handlers
  BY DEF Inv
<1>5. Depth # 0
  BY <1>3, <1>4 DEF Control, Statuses
<1>6. Len(ci[cur]) > 1 \/ \A k \in 1 .. Depth : cstack[k].t = cur => cstack[k].how # "resume"
  <2>1. Len(ci[cur]) \in Nat /\ Len(ci[cur]) >= 1
    BY <1>1, <1>4, TypedIs
  <2>2. ASSUME Len(ci[cur]) = 1, NEW k \in 1 .. Depth, cstack[k].t = cur, cstack[k].how = "resume"
        PROVE  FALSE
    <3>1. errfunc[cur] = "none"
      BY <1>4, <2>2, FirstCallHandler
    <3> QED
      BY <1>3, <3>1
  <2> DEFINE n == Len(ci[cur])
  <2>3. n \in Nat /\ n >= 1
    BY <2>1
  <2> HIDE DEF n
  <2>4. n = 1 \/ n > 1
    BY <2>3
  <2>5. Len(ci[cur]) = 1 \/ Len(ci[cur]) > 1
    BY <2>4 DEF n
  <2> QED
    BY <2>2, <2>5
<1> QED
  BY <1>1, <1>2, <1>3, <1>5, <1>6, CallStep

(* coroutine.call, of a thread that is not idle.                           *)
LEMMA CoCallStep ==
  ASSUME Inv, "call_idle" \notin Ops, NEW to \in Thread, NEW f \in Closure, CoCall(to, f)
  PROVE  Inv'
<1>1. Typed /\ Control /\ CallAssumption
  BY CallAssumption DEF Inv
<1>2. ctl = "run" /\ Depth # 0
  <2>1. InC
    BY DEF CoCall
  <2> QED
    BY <2>1, CurReady
<1>3. st[to] \in {"ok", "fresh"} /\ (st[to] = "fresh" \/ to = Main \/ InUse(to))
  <2>1. st[to] \in Status /\ st[to] # "none" /\ ~Idle(to)
    BY <1>1, TypedIs DEF CoCall
  <2>2. CASE to = Main
    BY <1>1, <2>2 DEF Control, Statuses
  <2>3. CASE to # Main
    BY <2>1, <2>3 DEF Idle, Status
  <2> QED
    BY <2>2, <2>3
<1>4. "cocall" \in How \ {"resume"} /\ "cocall" \in Catchers /\ "cocall" \in Switch /\ "none" \in Handler
  BY <1>1 DEF How, Catchers, Switch, CallAssumption
<1>5. /\ Call("cocall", to, f, "none") /\ UNCHANGED <<baseCcalls, st>>
      /\ errfunc' = [errfunc EXCEPT ![to] = "none"]
  BY DEF CoCall
<1> QED
  BY <1>2, <1>3, <1>4, <1>5, CallStep

-----------------------------------------------------------------------------
(* Calls and returns inside the interpreter.                               *)
LEMMA SameLevels ==
  ASSUME Levels, UNCHANGED <<cstack, nCcalls, baseCcalls, st>>
  PROVE  Levels'
<1>1. /\ Depth' = Depth /\ \A k : Level(k)' = Level(k)
      /\ \A t : InUse(t)' <=> InUse(t)
  BY DEF Depth, Level, InUse
<1> QED
  BY <1>1 DEF Levels

LEMMA SameHandlers ==
  ASSUME Handlers, UNCHANGED <<cstack, errfunc>>
  PROVE  Handlers'
  BY DEF Handlers, Depth

LEMMA LuaCallStep ==
  ASSUME Inv, NEW f \in Closure, LuaCall(f)
  PROVE  Inv'
<1>1. Typed /\ Control /\ Levels /\ Handlers /\ Counted
  BY DEF Inv
<1>2. /\ InLua /\ CallOf(cur, f) /\ UNCHANGED <<nCcalls, baseCcalls, errfunc, st, cstack>>
  BY DEF LuaCall
<1>3. /\ Len(ci[cur]) > 1 /\ Depth > 0 /\ ctl = "run" /\ cur \in Thread
      /\ cstack[Depth].at < Len(ci[cur]) /\ Len(ci[cur]) \in Nat /\ cstack[Depth].at \in Nat
      /\ st[cur] \in {"ok", "fresh"}
  BY <1>1, <1>2, TopIs, TypedIs, CurRuns
<1> DEFINE r == Append(ci[cur], f)
           counts == Counts({}, f)
<1>4. r \in Frames /\ Len(r) = Len(ci[cur]) + 1 /\ \A i \in 1 .. Len(ci[cur]) : r[i] = ci[cur][i]
  BY <1>1, <1>3, TypedIs, Grown
<1>5. Precall(cur, r, counts)
  BY <1>2 DEF CallOf
<1> HIDE DEF r, counts
<1>6. /\ ci' \in [Thread -> Frames] /\ size' \in [Thread -> Nat]
      /\ \A u \in Thread : Len(ci'[u]) <= size'[u]
      /\ \A u \in Thread : u # cur => ci'[u] = ci[u]
      /\ ctl' \in {"run", "error", "ERRERR"}
      /\ \/ ctl' = "run" /\ ci' = [ci EXCEPT ![cur] = r] /\ ci'[cur] = r /\ open' = counts
         \/ ctl' # "run" /\ ci' = ci /\ open' = open
  BY <1>1, <1>3, <1>4, <1>5, PrecallIs
<1>7. Typed'
  BY <1>1, <1>2, <1>6 DEF Typed
<1>8. Control'
  <2>1. /\ Len(ci'[cur]) \in Nat /\ Len(ci'[cur]) >= Len(ci[cur])
        /\ ci'[cur][2] = ci[cur][2]
    <3>1. 2 \in 1 .. Len(ci[cur]) /\ Len(r) \in Nat /\ Len(r) >= Len(ci[cur])
      BY <1>3, <1>4
    <3>2. r[2] = ci[cur][2]
      BY <1>4, <3>1
    <3>3. CASE ci'[cur] = r
      BY <3>1, <3>2, <3>3
    <3>4. CASE ci' = ci
      BY <1>3, <3>4
    <3> QED
      BY <1>6, <3>3, <3>4
  <2>2. /\ cstack[Depth].at <= Len(ci'[cur])
        /\ ctl' = "run" => cstack[Depth].at < Len(ci'[cur])
        /\ Len(ci'[cur]) > 1 => Len(ci[cur]) > 1 /\ (ci[cur][2] \in Fn => ci'[cur][2] \in Fn)
    BY <1>3, <2>1
  <2> QED
    BY <1>1, <1>2, <1>3, <1>6, <2>1, <2>2, QuietControl
<1>9. Levels' /\ Handlers'
  BY <1>1, <1>2, SameLevels, SameHandlers
<1>10. Counted'
  <2>1. CASE ctl' = "run" /\ ci' = [ci EXCEPT ![cur] = r] /\ open' = counts
    BY <1>1, <1>2, <1>3, <2>1, PushCount DEF r, counts
  <2>2. CASE ctl' # "run" /\ ci' = ci /\ open' = open
    <3>1. \A g \in Closure : \A p \in Thread \X Nat : IsCall(st', ci', g, p) <=> IsCall(st, ci, g, p)
      BY <1>2, <2>2
    <3> QED
      BY <1>1, <2>2, <3>1, QuietCount
  <2> QED
    BY <1>6, <2>1, <2>2
<1> QED
  BY <1>7, <1>8, <1>9, <1>10 DEF Inv

LEMMA TailCallStep ==
  ASSUME Inv, NEW f \in Fn, TailCall(f)
  PROVE  Inv'
<1>1. Typed /\ Control /\ Levels /\ Handlers /\ Counted
  BY DEF Inv
<1>2. /\ InLua /\ Precall(cur, Append(Front(ci[cur]), f), Counts({top}, f))
      /\ UNCHANGED <<nCcalls, baseCcalls, errfunc, st, cstack>>
  BY DEF TailCall
<1>3. /\ Len(ci[cur]) > 1 /\ Depth > 0 /\ ctl = "run" /\ cur \in Thread /\ f \in Closure
      /\ cstack[Depth].at < Len(ci[cur]) /\ Len(ci[cur]) \in Nat /\ cstack[Depth].at \in Nat
      /\ st[cur] \in {"ok", "fresh"}
  BY <1>1, <1>2, TopIs, TypedIs, CurRuns DEF Closure
<1> DEFINE r == Append(Front(ci[cur]), f)
           counts == Counts({top}, f)
<1>4. /\ r \in Frames /\ Len(r) = Len(ci[cur]) /\ r[Len(ci[cur])] = f
      /\ \A i \in 1 .. Len(ci[cur]) - 1 : r[i] = ci[cur][i]
  BY <1>1, <1>3, TypedIs, Replaced
<1>5. Precall(cur, r, counts)
  BY <1>2
<1> HIDE DEF r, counts
<1>6. /\ ci' \in [Thread -> Frames] /\ size' \in [Thread -> Nat]
      /\ \A u \in Thread : Len(ci'[u]) <= size'[u]
      /\ \A u \in Thread : u # cur => ci'[u] = ci[u]
      /\ ctl' \in {"run", "error", "ERRERR"}
      /\ \/ ctl' = "run" /\ ci' = [ci EXCEPT ![cur] = r] /\ ci'[cur] = r /\ open' = counts
         \/ ctl' # "run" /\ ci' = ci /\ open' = open
  <2>1. Len(r) <= Len(ci[cur]) + 1
    BY <1>3, <1>4
  <2> QED
    BY <1>1, <1>3, <1>4, <1>5, <2>1, PrecallIs
<1>7. Typed'
  BY <1>1, <1>2, <1>6 DEF Typed
<1>8. Control'
  <2>1. Len(ci'[cur]) = Len(ci[cur])
    BY <1>4, <1>6
  <2>2. ci'[cur][2] = ci[cur][2] \/ ci'[cur][2] \in Fn
    <3>1. Len(ci[cur]) = 2 => r[2] = f
      BY <1>4
    <3>2. Len(ci[cur]) # 2 => r[2] = ci[cur][2]
      <4> DEFINE n == Len(ci[cur])
      <4>1. n \in Nat /\ n > 1
        BY <1>3
      <4> HIDE DEF n
      <4>2. n # 2 => 2 \in 1 .. n - 1
        BY <4>1
      <4>3. Len(ci[cur]) # 2 => 2 \in 1 .. Len(ci[cur]) - 1
        BY <4>2 DEF n
      <4> QED
        BY <1>4, <4>3
    <3> QED
      BY <1>6, <3>1, <3>2
  <2>3. /\ Len(ci'[cur]) \in Nat /\ cstack[Depth].at <= Len(ci'[cur])
        /\ ctl' = "run" => cstack[Depth].at < Len(ci'[cur])
        /\ Len(ci'[cur]) > 1 => Len(ci[cur]) > 1 /\ (ci[cur][2] \in Fn => ci'[cur][2] \in Fn)
    BY <1>3, <2>1, <2>2
  <2> QED
    BY <1>1, <1>2, <1>3, <1>6, <2>3, QuietControl
<1>9. Levels' /\ Handlers'
  BY <1>1, <1>2, SameLevels, SameHandlers
<1>10. Counted'
  <2>1. CASE ctl' = "run" /\ ci' = [ci EXCEPT ![cur] = r] /\ open' = counts
    <3>1. open' = Counts({Last(ci[cur])}, f) /\ ci' = [ci EXCEPT ![cur] = Append(Front(ci[cur]), f)]
      BY <2>1 DEF counts, r, top
    <3> QED
      BY <1>1, <1>2, <1>3, <3>1, ReplaceCount
  <2>2. CASE ctl' # "run" /\ ci' = ci /\ open' = open
    <3>1. \A g \in Closure : \A p \in Thread \X Nat : IsCall(st', ci', g, p) <=> IsCall(st, ci, g, p)
      BY <1>2, <2>2
    <3> QED
      BY <1>1, <2>2, <3>1, QuietCount
  <2> QED
    BY <1>6, <2>1, <2>2
<1> QED
  BY <1>7, <1>8, <1>9, <1>10 DEF Inv

(* luaD_poscall.                                                           *)
LEMMA ReturnToLuaStep ==
  ASSUME Inv, ReturnToLua
  PROVE  Inv'
<1>1. Typed /\ Control /\ Levels /\ Handlers /\ Counted
  BY DEF Inv
<1>2. /\ ctl = "run" /\ ~AtActivation /\ Len(ci[cur]) > 1
      /\ ci' = [ci EXCEPT ![cur] = Front(ci[cur])]
      /\ open' = [open EXCEPT ![Last(ci[cur])] = open[Last(ci[cur])] - 1]
      /\ UNCHANGED <<size, nCcalls, baseCcalls, errfunc, st, cstack, ctl>>
  BY DEF ReturnToLua, Closed, top
<1>3. /\ cur \in Thread /\ ci[cur] \in Frames /\ Len(ci[cur]) \in Nat /\ Depth \in Nat
      /\ ci \in [Thread -> Frames] /\ size \in [Thread -> Nat] /\ st[cur] \in {"ok", "fresh"}
      /\ \A t \in Thread : Len(ci[t]) \in Nat /\ Len(ci[t]) <= size[t] /\ size[t] \in Nat
  BY <1>1, TypedIs, CurRuns DEF Typed
<1>4. /\ Front(ci[cur]) \in Frames /\ Len(Front(ci[cur])) = Len(ci[cur]) - 1
      /\ \A i \in 1 .. Len(ci[cur]) - 1 : Front(ci[cur])[i] = ci[cur][i]
  BY <1>2, <1>3, Popped
<1>5. /\ ci' \in [Thread -> Frames] /\ ci'[cur] = Front(ci[cur])
      /\ \A t \in Thread : t # cur => ci'[t] = ci[t]
  BY <1>2, <1>3, <1>4
<1>6. Depth > 0
  <2>1. Len(ci[cur]) # 1
    <3> DEFINE n == Len(ci[cur])
    <3>1. n \in Nat /\ n > 1
      BY <1>2, <1>3
    <3> HIDE DEF n
    <3>2. n # 1
      BY <3>1
    <3> QED
      BY <3>2 DEF n
  <2>2. Depth # 0
    BY <1>1, <2>1, CurRuns
  <2> QED
    BY <1>3, <2>2
<1>7. Typed'
  <2>1. \A t \in Thread : Len(ci'[t]) <= size[t]
    BY <1>3, <1>4, <1>5
  <2> QED
    BY <1>1, <1>2, <1>5, <2>1 DEF Typed
<1>8. Control'
  <2>1. cstack[Depth].at < Len(ci[cur]) /\ cstack[Depth].at \in Nat /\ Len(ci[cur]) # cstack[Depth].at + 1
    <3>1. Depth \in 1 .. Depth /\ cstack # <<>> /\ Last(cstack) = cstack[Depth] /\ cstack[Depth].t = cur
          /\ cstack[Depth].at \in Nat
      BY <1>1, <1>6, TypedIs, StackIs
    <3> QED
      BY <1>1, <1>2, <3>1 DEF AtActivation, Control, Heights
  <2>2. Len(ci'[cur]) \in Nat /\ cstack[Depth].at < Len(ci'[cur]) /\ cstack[Depth].at <= Len(ci'[cur])
    BY <1>3, <1>4, <1>5, <2>1
  <2>3. Len(ci'[cur]) > 1 => ci'[cur][2] = ci[cur][2]
    <3>1. Len(ci[cur]) - 1 > 1 => 2 \in 1 .. Len(ci[cur]) - 1
      BY <1>3
    <3> QED
      BY <1>4, <1>5, <3>1
  <2> QED
    BY <1>1, <1>2, <1>5, <1>6, <2>2, <2>3, QuietControl
<1>9. Levels' /\ Handlers'
  BY <1>1, <1>2, SameLevels, SameHandlers
<1>10. Counted'
  <2>1. st[cur] # "error"
    BY <1>3
  <2> QED
    BY <1>1, <1>2, <1>3, <2>1, PopCount
<1> QED
  BY <1>7, <1>8, <1>9, <1>10 DEF Inv

(* nCcalls of the thread that runs.                                        *)
LEMMA LevelOfCur ==
  ASSUME Typed, Levels, Depth > 0
  PROVE  /\ nCcalls[cur] = Level(Depth)
         /\ cstack[Depth].how # "resume" => cstack[Depth].calls >= baseCcalls[cur]
<1>1. /\ Depth \in Nat /\ Depth \in 1 .. Depth /\ cstack[Depth].t = cur
      /\ \A j \in 1 .. Depth : ~(Depth < j)
  BY TypedIs
<1> QED
  BY <1>1 DEF Levels

(* The end of luaD_call.                                                   *)
LEMMA ReturnToCStep ==
  ASSUME Inv, ReturnToC
  PROVE  Inv'
<1> DEFINE a == cstack[Depth]
<1>1. Typed /\ Control /\ Levels /\ Handlers /\ Counted
  BY DEF Inv
<1>2. /\ cstack # <<>> /\ Depth > 0 /\ Last(cstack) = a /\ a.t = cur /\ Depth \in 1 .. Depth
      /\ a.at \in Nat /\ a.calls \in Nat /\ a.how \in How /\ a.ef \in Handler
  BY <1>1, TypedIs, StackIs DEF ReturnToC, AtActivation
<1>3. /\ ctl = "run" /\ Len(ci[cur]) = a.at + 1
      /\ ci' = [ci EXCEPT ![cur] = Front(ci[cur])]
      /\ open' = [open EXCEPT ![Last(ci[cur])] = open[Last(ci[cur])] - 1]
      /\ nCcalls' = [nCcalls EXCEPT ![cur] = nCcalls[cur] - 1]
      /\ errfunc' = RestoredHandler(a)
      /\ cstack' = Front(cstack)
      /\ ctl' = IF a.how = "handler" THEN "ERRRUN" ELSE "run"
      /\ UNCHANGED <<size, baseCcalls, st>>
  BY <1>2 DEF ReturnToC, AtActivation, Closed, top
<1>4. /\ cur \in Thread /\ ci[cur] \in Frames /\ Len(ci[cur]) \in Nat /\ Depth \in Nat
      /\ ci \in [Thread -> Frames] /\ size \in [Thread -> Nat] /\ st[cur] \in {"ok", "fresh"}
      /\ nCcalls \in [Thread -> Nat] /\ errfunc \in [Thread -> Handler]
      /\ \A t \in Thread : Len(ci[t]) \in Nat /\ Len(ci[t]) <= size[t] /\ size[t] \in Nat
      /\ nCcalls[cur] \in Nat /\ baseCcalls[cur] \in Nat
  BY <1>1, TypedIs, CurRuns DEF Typed
<1>5. a.at >= 1
  BY <1>1, <1>2 DEF Control, Linking
<1>6. Ends(Depth)
  <2>1. Leaves(Depth - 1)
    BY <1>1, <1>2, <1>3, TypedIs, FrontLeaves
  <2>2. \A m \in Depth + 1 .. Depth : FALSE
    BY <1>4
  <2> QED
    BY <2>1, <2>2 DEF Ends
<1> HIDE DEF a
<1>7. Len(ci[cur]) > 1
  BY <1>2, <1>3, <1>5
<1>8. /\ Front(ci[cur]) \in Frames /\ Len(Front(ci[cur])) = Len(ci[cur]) - 1
      /\ \A i \in 1 .. Len(ci[cur]) - 1 : Front(ci[cur])[i] = ci[cur][i]
  BY <1>4, <1>7, Popped
<1>9. /\ ci' \in [Thread -> Frames] /\ ci'[cur] = Front(ci[cur]) /\ Len(ci'[cur]) = a.at
      /\ \A i \in 1 .. a.at : ci'[cur][i] = ci[cur][i]
      /\ \A t \in Thread : t # cur => ci'[t] = ci[t]
  <2>1. Len(ci[cur]) - 1 = a.at
    BY <1>2, <1>3
  <2>2. ci' \in [Thread -> Frames] /\ ci'[cur] = Front(ci[cur]) /\ \A t \in Thread : t # cur => ci'[t] = ci[t]
    BY <1>3, <1>4, <1>8
  <2> QED
    BY <1>8, <2>1, <2>2
<1>10. /\ nCcalls[cur] - 1 \in Nat
       /\ a.how # "resume" => nCcalls[cur] - 1 = a.calls
  <2>1. nCcalls[cur] = Level(Depth)
    BY <1>1, <1>2, LevelOfCur
  <2>2. CASE a.how = "resume"
    <3>1. baseCcalls[cur] >= 1
      BY <1>1, <1>2, <2>2 DEF Control, Resumed, a
    <3>2. nCcalls[cur] = baseCcalls[cur]
      BY <1>2, <2>1, <2>2 DEF Level, a
    <3> QED
      BY <1>4, <2>2, <3>1, <3>2
  <2>3. CASE a.how # "resume"
    <3>1. nCcalls[cur] = a.calls + 1
      BY <2>1, <2>3 DEF Level, a
    <3> QED
      BY <1>2, <3>1
  <2> QED
    BY <2>2, <2>3
<1>11. Typed'
  <2>1. \A t \in Thread : Len(ci'[t]) <= size[t]
    BY <1>2, <1>3, <1>4, <1>9
  <2>2. nCcalls' \in [Thread -> Nat]
    BY <1>3, <1>4, <1>10
  <2>3. errfunc' \in [Thread -> Handler]
    BY <1>2, <1>3, <1>4 DEF RestoredHandler
  <2>4. cstack' \in Seq(Activation)
    <3>1. Depth - 1 \in 0 .. Depth
      BY <1>2, <1>4
    <3> QED
      BY <1>1, <1>6, <3>1, Unwinds DEF Ends, Typed
  <2> QED
    BY <1>1, <1>3, <1>9, <2>1, <2>2, <2>3, <2>4 DEF Typed
<1>12. Control'
  <2>1. a.at <= Len(ci[cur])
    BY <1>2, <1>3
  <2>2. IF ctl' = "run" THEN a.how # "handler" ELSE a.how \in {"handler", "cocall"}
    BY <1>3
  <2> QED
    BY <1>1, <1>2, <1>3, <1>6, <1>9, <2>1, <2>2, DropControl DEF a
<1>13. Levels'
  <2>1. \A t \in Thread : t # cur => nCcalls'[t] = nCcalls[t]
    BY <1>3, <1>4
  <2>2. nCcalls'[cur] = nCcalls[cur] - 1
    BY <1>3, <1>4
  <2>3. IF a.how = "resume" THEN st'[cur] # "fresh" ELSE nCcalls'[cur] = a.calls
    <3>1. a.how = "resume" => st[cur] = "ok"
      BY <1>1, <1>2 DEF Control, Resumed, a
    <3> QED
      BY <1>3, <1>10, <2>2, <3>1
  <2> QED
    BY <1>1, <1>2, <1>3, <1>6, <2>1, <2>3, EndLevels DEF a
<1>14. Handlers'
  BY <1>1, <1>2, <1>3, <1>6, EndHandlers DEF a
<1>15. Counted'
  <2>1. st[cur] # "error"
    BY <1>4
  <2> QED
    BY <1>1, <1>3, <1>4, <1>7, <2>1, PopCount
<1> QED
  BY <1>11, <1>12, <1>13, <1>14, <1>15 DEF Inv

-----------------------------------------------------------------------------
(* Errors.                                                                 *)

(* An error begins, or becomes the code that is thrown.                    *)
LEMMA ErrorStep ==
  ASSUME Inv, InLua \/ InC \/ ctl = "error", ctl' \in {"error", "ERRRUN", "ERRERR"},
         UNCHANGED <<ci, size, nCcalls, baseCcalls, errfunc, st, open, cstack>>
  PROVE  Inv'
<1>1. Typed /\ Control /\ Levels /\ Handlers /\ Counted
  BY DEF Inv
<1>2. Depth \in Nat /\ Depth > 0
  <2>1. Depth \in Nat
    BY <1>1, TypedIs
  <2>2. ctl = "error" => Depth # 0
    BY <1>1 DEF Control, Statuses
  <2>3. InLua \/ InC => Depth > 0
    BY CurReady
  <2> QED
    BY <2>1, <2>2, <2>3
<1>3. Typed'
  BY <1>1 DEF Typed
<1>4. Control'
  <2>1. cstack[Depth].at <= Len(ci[cur]) /\ Len(ci[cur]) \in Nat
    BY <1>1, <1>2, TypedIs DEF Control, Heights
  <2> QED
    BY <1>1, <1>2, <2>1, QuietControl
<1>5. Levels' /\ Handlers'
  BY <1>1, SameLevels, SameHandlers
<1>6. Counted'
  <2>1. \A g \in Closure : \A p \in Thread \X Nat : IsCall(st', ci', g, p) <=> IsCall(st, ci, g, p)
    OBVIOUS
  <2> QED
    BY <1>1, <2>1, QuietCount
<1> QED
  BY <1>3, <1>4, <1>5, <1>6 DEF Inv

(* luaD_throw.  What catches the error is an activation of the thread that *)
(* runs.                                                                   *)
LEMMA ThrowStep ==
  ASSUME Inv, Throw
  PROVE  Inv'
<1>1. Typed /\ Control /\ Levels /\ Handlers /\ Counted
  BY DEF Inv
<1>2. DOMAIN cstack = 1 .. Depth /\ Len(cstack) = Depth
  BY <1>1, TypedIs DEF Depth
<1>3. PICK k \in 1 .. Depth :
        /\ cstack[k].how \in Catchers
        /\ \A j \in k + 1 .. Depth : cstack[j].how \notin Catchers
        /\ cstack' = SubSeq(cstack, 1, k - 1)
        /\ open' = Unwound(cstack[k].t, cstack[k].at)
        /\ errfunc' = RestoredHandler(cstack[k])
        /\ IF cstack[k].how = "resume"
           THEN /\ st' = [st EXCEPT ![cstack[k].t] = "error"]
                /\ nCcalls' = [nCcalls EXCEPT ![cstack[k].t] = nCcalls[cstack[k].t] - 1]
                /\ UNCHANGED <<ci, size>>
           ELSE /\ ci' = [ci EXCEPT ![cstack[k].t] = SubSeq(ci[cstack[k].t], 1, cstack[k].at)]
                /\ nCcalls' = [nCcalls EXCEPT ![cstack[k].t] = cstack[k].calls]
                /\ size' = [size EXCEPT ![cstack[k].t] = RestoredSize(cstack[k].t, cstack[k].at)]
                /\ UNCHANGED st
        /\ ctl' = IF cstack[k].how = "cocall" THEN "error" ELSE "run"
  BY <1>2 DEF Throw
<1> DEFINE a == cstack[k]
<1>4. UNCHANGED baseCcalls
  BY DEF Throw
<1>5. Ends(k)
  BY <1>3 DEF Ends, Leaves
<1>6. a.t = cur
  BY <1>1, <1>5, EndsIs
<1>7. /\ a.at \in Nat /\ a.calls \in Nat /\ a.how \in Catchers /\ a.ef \in Handler
      /\ Depth \in Nat /\ k \in Nat /\ k >= 1 /\ k <= Depth
      /\ cur \in Thread /\ ci[cur] \in Frames /\ Len(ci[cur]) \in Nat
      /\ a.at >= 1 /\ a.at <= Len(ci[cur])
      /\ st[cur] \in {"ok", "fresh"}
      /\ ci \in [Thread -> Frames] /\ size \in [Thread -> Nat] /\ nCcalls \in [Thread -> Nat]
      /\ errfunc \in [Thread -> Handler] /\ st \in [Thread -> Status]
      /\ \A t \in Thread : Len(ci[t]) \in Nat /\ Len(ci[t]) <= size[t] /\ size[t] \in Nat
  <2>1. a.at >= 1 /\ a.at <= Len(ci[cur])
    BY <1>1, <1>6 DEF Control, Linking, Heights
  <2>2. /\ cur \in Thread /\ ci[cur] \in Frames /\ Len(ci[cur]) \in Nat /\ st[cur] \in {"ok", "fresh"}
        /\ Depth \in Nat /\ a.at \in Nat /\ a.calls \in Nat /\ a.ef \in Handler
    BY <1>1, TypedIs, CurRuns
  <2>3. /\ ci \in [Thread -> Frames] /\ size \in [Thread -> Nat] /\ nCcalls \in [Thread -> Nat]
        /\ errfunc \in [Thread -> Handler] /\ st \in [Thread -> Status]
        /\ \A t \in Thread : Len(ci[t]) \in Nat /\ Len(ci[t]) <= size[t] /\ size[t] \in Nat
    BY <1>1, TypedIs DEF Typed
  <2> QED
    BY <1>3, <2>1, <2>2, <2>3
<1> HIDE DEF a
<1>8. cstack' \in Seq(Activation) /\ errfunc' \in [Thread -> Handler]
  <2>1. cstack' \in Seq(Activation)
    <3>1. k - 1 \in 0 .. Depth
      BY <1>7
    <3> QED
      BY <1>1, <1>5, <3>1, Unwinds DEF Ends, Typed
  <2>2. errfunc' = RestoredHandler(a)
    BY <1>3 DEF a
  <2> QED
    BY <1>7, <2>1, <2>2 DEF RestoredHandler
<1>9. Handlers'
  BY <1>1, <1>3, <1>5, EndHandlers
<1>10. CASE a.how # "resume"
  <2>1. /\ ci' = [ci EXCEPT ![cur] = SubSeq(ci[cur], 1, a.at)]
        /\ nCcalls' = [nCcalls EXCEPT ![cur] = a.calls]
        /\ size' = [size EXCEPT ![cur] = RestoredSize(cur, a.at)]
        /\ st' = st /\ open' = Unwound(cur, a.at)
        /\ ctl' = IF a.how = "cocall" THEN "error" ELSE "run"
    BY <1>3, <1>6, <1>10 DEF a
  <2>2. a.at \in 1 .. Len(ci[cur])
    BY <1>7
  <2>3. /\ SubSeq(ci[cur], 1, a.at) \in Frames /\ Len(SubSeq(ci[cur], 1, a.at)) = a.at
        /\ \A i \in 1 .. a.at : SubSeq(ci[cur], 1, a.at)[i] = ci[cur][i]
    BY <1>7, <2>2, Prefix
  <2>4. /\ ci' \in [Thread -> Frames] /\ ci'[cur] = SubSeq(ci[cur], 1, a.at)
        /\ \A t \in Thread : t # cur => ci'[t] = ci[t]
    BY <1>7, <2>1, <2>3
  <2>5. Typed'
    <3>1. RestoredSize(cur, a.at) \in Nat /\ a.at <= RestoredSize(cur, a.at)
      <4>1. LUAI_MAXCALLS \in Nat /\ size[cur] \in Nat /\ Len(ci[cur]) <= size[cur]
        BY <1>7, CallAssumption
      <4>2. CASE size[cur] > LUAI_MAXCALLS /\ a.at < LUAI_MAXCALLS
        BY <1>7, <4>1, <4>2 DEF RestoredSize
      <4>3. CASE ~(size[cur] > LUAI_MAXCALLS /\ a.at < LUAI_MAXCALLS)
        <5>1. RestoredSize(cur, a.at) = size[cur]
          BY <4>3 DEF RestoredSize
        <5> QED
          BY <1>7, <4>1, <5>1
      <4> QED
        BY <4>2, <4>3
    <3>2. /\ size' \in [Thread -> Nat] /\ size'[cur] = RestoredSize(cur, a.at)
          /\ \A t \in Thread : t # cur => size'[t] = size[t]
      BY <1>7, <2>1, <3>1
    <3>3. \A t \in Thread : Len(ci'[t]) <= size'[t]
      BY <1>7, <2>3, <2>4, <3>1, <3>2
    <3>4. nCcalls' \in [Thread -> Nat]
      BY <1>7, <2>1
    <3> QED
      BY <1>1, <1>4, <1>8, <2>1, <2>4, <3>2, <3>3, <3>4 DEF Typed
  <2>6. Control'
    <3>1. IF ctl' = "run" THEN a.how # "handler" ELSE a.how \in {"handler", "cocall"}
      BY <1>7, <2>1 DEF Catchers
    <3>2. Len(ci'[cur]) = a.at /\ \A i \in 1 .. a.at : ci'[cur][i] = ci[cur][i]
      BY <2>3, <2>4
    <3> QED
      BY <1>1, <1>4, <1>5, <1>7, <2>1, <2>4, <3>1, <3>2, DropControl DEF a
  <2>7. Levels'
    <3>1. nCcalls'[cur] = a.calls /\ \A t \in Thread : t # cur => nCcalls'[t] = nCcalls[t]
      BY <1>7, <2>1
    <3> QED
      BY <1>1, <1>4, <1>5, <1>10, <2>1, <3>1, EndLevels DEF a
  <2>8. Counted'
    <3>1. st[cur] # "error" /\ st'[cur] # "error"
      BY <1>7, <2>1
    <3>2. \A u \in Thread : u # cur => ci'[u] = ci[u] /\ (st'[u] = "error" <=> st[u] = "error")
      BY <2>1, <2>4
    <3> QED
      BY <1>1, <1>7, <2>1, <2>2, <2>4, <3>1, <3>2, UnwindCount
  <2> QED
    BY <1>9, <2>5, <2>6, <2>7, <2>8 DEF Inv
<1>11. CASE a.how = "resume"
  <2>1. /\ st' = [st EXCEPT ![cur] = "error"]
        /\ nCcalls' = [nCcalls EXCEPT ![cur] = nCcalls[cur] - 1]
        /\ UNCHANGED <<ci, size>>
        /\ open' = Unwound(cur, a.at) /\ ctl' = "run"
    BY <1>3, <1>6, <1>11 DEF a
  <2>2. a.at = 1 /\ cur # Main
    BY <1>1, <1>6, <1>11, ResumedIs DEF a
  <2>3. /\ st' \in [Thread -> Status] /\ st'[cur] = "error"
        /\ \A u \in Thread : u # cur => st'[u] = st[u]
    BY <1>7, <2>1 DEF Status
  <2>4. nCcalls[cur] >= 1
    <3>1. baseCcalls[cur] >= 1 /\ baseCcalls[cur] \in Nat /\ nCcalls[cur] \in Nat
      BY <1>1, <1>6, <1>11, TypedIs DEF Control, Resumed, a
    <3>2. nCcalls[cur] >= baseCcalls[cur]
      <4>1. InUse(cur)
        BY <1>1, <1>7, CurRuns
      <4> QED
        BY <1>1, <1>7, <4>1 DEF Levels
    <3> QED
      BY <3>1, <3>2
  <2>5. Typed'
    <3>1. nCcalls' \in [Thread -> Nat]
      <4>1. nCcalls[cur] \in Nat
        BY <1>7
      <4>2. nCcalls[cur] - 1 \in Nat
        BY <2>4, <4>1
      <4> QED
        BY <1>7, <2>1, <4>2
    <3> QED
      BY <1>1, <1>4, <1>8, <2>1, <2>3, <3>1 DEF Typed
  <2>6. Control'
    <3> DEFINE s == "error"
    <3>1. /\ s \in {"yield", "error"} /\ st' = [st EXCEPT ![cur] = s]
          /\ s = "yield" => Len(ci[cur]) > 2
      BY <2>1
    <3> HIDE DEF s
    <3> QED
      BY <1>1, <1>4, <1>5, <1>11, <2>1, <3>1, AbandonControl DEF a
  <2>7. Levels'
    <3>1. \A t \in Thread : t # cur => nCcalls'[t] = nCcalls[t]
      BY <1>7, <2>1
    <3>2. \A t \in Thread : st'[t] = "fresh" => st[t] = "fresh"
      BY <2>3
    <3> QED
      BY <1>1, <1>4, <1>5, <1>11, <2>3, <3>1, <3>2, EndLevels DEF a
  <2>8. Counted'
    <3> DEFINE at == a.at
    <3>1. /\ at \in 1 .. Len(ci[cur]) /\ at = 1 /\ open' = Unwound(cur, at)
      BY <1>7, <2>1, <2>2
    <3> HIDE DEF at
    <3>2. st[cur] # "error"
      BY <1>7
    <3>3. \A u \in Thread : u # cur => ci'[u] = ci[u] /\ (st'[u] = "error" <=> st[u] = "error")
      BY <2>1, <2>3
    <3> QED
      BY <1>1, <1>7, <2>3, <3>1, <3>2, <3>3, UnwindCount
  <2> QED
    BY <1>9, <2>5, <2>6, <2>7, <2>8 DEF Inv
<1> QED
  BY <1>10, <1>11
-----------------------------------------------------------------------------
(* Coroutines.                                                             *)
LEMMA CoCreateStep ==
  ASSUME Inv, NEW co \in Thread, CoCreate(co)
  PROVE  Inv'
<1>1. Typed /\ Control /\ Levels /\ Handlers /\ Counted
  BY DEF Inv
<1>2. /\ InC /\ co # Main /\ st[co] \in {"none", "ok", "error"} /\ ~InUse(co)
      /\ st' = [st EXCEPT ![co] = "fresh"]
      /\ ci' = [ci EXCEPT ![co] = <<Base>>]
      /\ size' = [size EXCEPT ![co] = BASIC_CI_SIZE]
      /\ nCcalls' = [nCcalls EXCEPT ![co] = 0]
      /\ baseCcalls' = [baseCcalls EXCEPT ![co] = 0]
      /\ errfunc' = [errfunc EXCEPT ![co] = "none"]
      /\ UNCHANGED <<open, cstack, ctl>>
  BY DEF CoCreate
<1>3. Depth > 0
  BY <1>2, CurReady
<1>4. /\ ci \in [Thread -> Frames] /\ size \in [Thread -> Nat] /\ nCcalls \in [Thread -> Nat]
      /\ baseCcalls \in [Thread -> Nat] /\ errfunc \in [Thread -> Handler] /\ st \in [Thread -> Status]
      /\ \A t \in Thread : Len(ci[t]) \in Nat /\ Len(ci[t]) <= size[t] /\ size[t] \in Nat
  BY <1>1, TypedIs DEF Typed
<1>5. <<Base>> \in Frames /\ Len(<<Base>>) = 1
  BY DEF Frames
<1>6. BASIC_CI_SIZE \in Nat /\ 1 <= BASIC_CI_SIZE /\ "none" \in Handler /\ "fresh" \in Status
  BY CallAssumption DEF Status
<1>7. /\ \A t \in Thread : t # co => /\ ci'[t] = ci[t] /\ size'[t] = size[t] /\ st'[t] = st[t]
                                     /\ nCcalls'[t] = nCcalls[t] /\ baseCcalls'[t] = baseCcalls[t]
      /\ ci'[co] = <<Base>> /\ size'[co] = BASIC_CI_SIZE /\ nCcalls'[co] = 0 /\ baseCcalls'[co] = 0
  BY <1>2, <1>4
<1>8. Typed'
  <2>1. ci' \in [Thread -> Frames]
    BY <1>2, <1>4, <1>5
  <2>2. /\ size' \in [Thread -> Nat] /\ nCcalls' \in [Thread -> Nat] /\ baseCcalls' \in [Thread -> Nat]
        /\ errfunc' \in [Thread -> Handler] /\ st' \in [Thread -> Status]
    BY <1>2, <1>4, <1>6
  <2>3. \A t \in Thread : Len(ci'[t]) <= size'[t]
    BY <1>4, <1>5, <1>6, <1>7
  <2> QED
    BY <1>1, <1>2, <2>1, <2>2, <2>3 DEF Typed
<1>9. Control'
  BY <1>1, <1>2, <1>3, <1>5, <1>7, CreateControl
<1>10. Levels'
  BY <1>1, <1>2, <1>7, CreateLevels
<1>11. Handlers'
  BY <1>1, <1>2, CreateHandlers
<1>12. Counted'
  <2>1. st[co] = "error" \/ Len(ci[co]) = 1
    BY <1>1, <1>2 DEF Control, Statuses
  <2> QED
    BY <1>1, <1>2, <2>1, CreateCount
<1> QED
  BY <1>8, <1>9, <1>10, <1>11, <1>12 DEF Inv

(* What is resumed does not run.                                           *)
LEMMA SuspendedIdle ==
  ASSUME Typed, Control, NEW co \in Thread, co # cur,
         st[co] = "yield" \/ (st[co] = "fresh" /\ Len(ci[co]) = 1)
  PROVE  ~InUse(co)
<1> SUFFICES ASSUME NEW k \in 1 .. Depth, cstack[k].t = co PROVE FALSE
  BY UsedIs
<1>1. st[co] # "yield"
  BY DEF Control, Statuses
<1>2. cstack[k].at < Len(ci[co]) /\ cstack[k].at >= 1 /\ cstack[k].at \in Nat /\ Len(ci[co]) \in Nat
  BY TypedIs DEF Control, Heights, Linking
<1> DEFINE n == Len(ci[co])
           at == cstack[k].at
<1>3. n = 1 /\ at < n /\ at >= 1 /\ at \in Nat
  BY <1>1, <1>2
<1> HIDE DEF n, at
<1> QED
  BY <1>3

(* The levels of C calls in lua_resumefrom.                                *)
Resumption(co) ==
  [how |-> "resume", t |-> co, at |-> 1, calls |-> nCcalls[cur], ef |-> errfunc[co], handler |-> "none"]

LEMMA ResumptionIs ==
  ASSUME Inv, NEW co \in Thread, InC, ~InUse(co), ResumeLevel(co),
         Activate("resume", co, "none", nCcalls[cur], 1),
         st' = [st EXCEPT ![co] = "ok"], UNCHANGED errfunc
  PROVE  /\ Resumption(co) \in Activation /\ Begins(Resumption(co)) /\ cstack' \in Seq(Activation)
         /\ nCcalls' \in [Thread -> Nat] /\ baseCcalls' \in [Thread -> Nat] /\ st' \in [Thread -> Status]
         /\ st'[co] = "ok" /\ baseCcalls'[co] >= 1
         /\ \A t \in Thread : t # co => st'[t] = st[t] /\ baseCcalls'[t] = baseCcalls[t]
         /\ Levels' /\ Handlers'
<1>1. Typed /\ Levels /\ Handlers
  BY DEF Inv
<1>2. /\ cur \in Thread /\ nCcalls[cur] \in Nat /\ errfunc[co] \in Handler /\ "none" \in Handler
      /\ nCcalls \in [Thread -> Nat] /\ baseCcalls \in [Thread -> Nat] /\ st \in [Thread -> Status]
  BY <1>1, TypedIs, CallAssumption DEF Typed
<1> DEFINE a == Resumption(co)
<1>3. /\ a.how = "resume" /\ a.t = co /\ a.ef = errfunc[co] /\ a.handler = "none" /\ a \in Activation
  BY <1>2 DEF Resumption, Activation, How, Catchers
<1>4. Begins(a)
  BY DEF Activate, Begins, Resumption
<1> HIDE DEF a
<1>5. cstack' \in Seq(Activation)
  BY <1>1, <1>3, <1>4, Pushed DEF Typed
<1>6. nCcalls[cur] + 1 \in Nat /\ nCcalls[cur] + 1 >= 1
  BY <1>2
<1>7. /\ nCcalls' \in [Thread -> Nat] /\ baseCcalls' \in [Thread -> Nat] /\ st' \in [Thread -> Status]
      /\ st'[co] = "ok" /\ baseCcalls'[co] = nCcalls[cur] + 1 /\ nCcalls'[co] = nCcalls[cur] + 1
      /\ \A t \in Thread : t # co => /\ st'[t] = st[t] /\ nCcalls'[t] = nCcalls[t]
                                     /\ baseCcalls'[t] = baseCcalls[t]
  BY <1>2, <1>6 DEF ResumeLevel, Status
<1>8. Levels'
  <2>1. nCcalls'[co] = baseCcalls'[co] /\ nCcalls'[co] \in Nat
    BY <1>6, <1>7
  <2> QED
    BY <1>1, <1>3, <1>4, <1>7, <2>1, ResumeLevels
<1>9. Handlers'
  <2>1. errfunc[co] = "none"
    BY <1>1, IdleHandler
  <2> QED
    BY <1>1, <1>3, <1>4, <2>1, BeginHandlers
<1>10. baseCcalls'[co] >= 1
  BY <1>6, <1>7
<1> QED
  BY <1>3, <1>4, <1>5, <1>7, <1>8, <1>9, <1>10 DEF a

LEMMA ResumeFreshStep ==
  ASSUME Inv, NEW co \in Thread, NEW f \in Fn, ResumeFresh(co, f)
  PROVE  Inv'
<1>1. Typed /\ Control /\ Counted
  BY DEF Inv
<1>2. /\ InC /\ co # cur /\ st[co] = "fresh" /\ Len(ci[co]) = 1
      /\ ResumeLevel(co) /\ Activate("resume", co, "none", nCcalls[cur], 1)
      /\ st' = [st EXCEPT ![co] = "ok"] /\ CallOf(co, f) /\ UNCHANGED errfunc
  BY DEF ResumeFresh
<1>3. ~InUse(co)
  BY <1>1, <1>2, SuspendedIdle
<1> DEFINE a == Resumption(co)
<1>4. /\ a \in Activation /\ Begins(a) /\ cstack' \in Seq(Activation)
      /\ nCcalls' \in [Thread -> Nat] /\ baseCcalls' \in [Thread -> Nat] /\ st' \in [Thread -> Status]
      /\ st'[co] = "ok" /\ baseCcalls'[co] >= 1
      /\ \A t \in Thread : t # co => st'[t] = st[t] /\ baseCcalls'[t] = baseCcalls[t]
      /\ Levels' /\ Handlers'
  BY <1>2, <1>3, ResumptionIs
<1>5. a.how = "resume" /\ a.t = co /\ a.handler = "none" /\ a.at = 1
  BY DEF Resumption
<1> HIDE DEF a
<1>6. f \in Closure /\ ctl = "run" /\ Depth > 0
  BY <1>2, CurReady DEF Closure
<1> DEFINE r == Append(ci[co], f)
           counts == Counts({}, f)
<1>7. /\ r \in Frames /\ Len(r) = Len(ci[co]) + 1 /\ r[Len(ci[co]) + 1] = f
  BY <1>1, <1>6, TypedIs, Grown
<1>8. Precall(co, r, counts)
  BY <1>2 DEF CallOf
<1> HIDE DEF r, counts
<1>9. /\ ci' \in [Thread -> Frames] /\ size' \in [Thread -> Nat]
      /\ \A u \in Thread : Len(ci'[u]) <= size'[u]
      /\ \A u \in Thread : u # co => ci'[u] = ci[u]
      /\ ctl' \in {"run", "error", "ERRERR"}
      /\ \/ ctl' = "run" /\ ci' = [ci EXCEPT ![co] = r] /\ ci'[co] = r /\ open' = counts
         \/ ctl' # "run" /\ ci' = ci /\ open' = open
  <2>1. Len(r) <= Len(ci[co]) + 1
    BY <1>2, <1>7
  <2> QED
    BY <1>1, <1>7, <1>8, <2>1, PrecallIs
<1>10. Typed'
  BY <1>1, <1>2, <1>4, <1>9 DEF Typed
<1>11. Control'
  <2>1. Len(r) = 2 /\ r[2] = f
    BY <1>2, <1>7
  <2>2. \/ ctl' = "run" /\ Len(ci'[co]) \in Nat /\ Len(ci'[co]) > 1 /\ ci'[co][2] \in Fn
        \/ ctl' # "run" /\ Len(ci'[co]) = 1
    <3>1. Len(r) \in Nat /\ Len(r) > 1
      BY <2>1
    <3> QED
      BY <1>2, <1>9, <2>1, <3>1
  <2> QED
    BY <1>1, <1>2, <1>3, <1>4, <1>5, <1>6, <1>9, <2>2, ResumeControl
<1>12. Counted'
  <2>1. st'[co] # "error" /\ \A u \in Thread : st'[u] = "error" <=> st[u] = "error"
    <3>1. \A u \in Thread : st'[u] = "error" <=> st[u] = "error"
      BY <1>2, <1>4
    <3> QED
      BY <1>4, <3>1
  <2>2. CASE ctl' = "run" /\ ci' = [ci EXCEPT ![co] = r] /\ open' = counts
    BY <1>1, <1>6, <2>1, <2>2, PushCount DEF r, counts
  <2>3. CASE ctl' # "run" /\ ci' = ci /\ open' = open
    <3>1. \A g \in Closure : \A p \in Thread \X Nat : IsCall(st', ci', g, p) <=> IsCall(st, ci, g, p)
      BY <2>1, <2>3 DEF IsCall
    <3> QED
      BY <1>1, <2>3, <3>1, QuietCount
  <2> QED
    BY <1>9, <2>2, <2>3
<1> QED
  BY <1>4, <1>10, <1>11, <1>12 DEF Inv

LEMMA ResumeYieldedStep ==
  ASSUME Inv, NEW co \in Thread, ResumeYielded(co)
  PROVE  Inv'
<1>1. Typed /\ Control /\ Counted
  BY DEF Inv
<1>2. /\ InC /\ co # cur /\ st[co] = "yield"
      /\ ResumeLevel(co) /\ Activate("resume", co, "none", nCcalls[cur], 1)
      /\ st' = [st EXCEPT ![co] = "ok"]
      /\ ci' = [ci EXCEPT ![co] = Front(ci[co])]
      /\ open' = [open EXCEPT ![Last(ci[co])] = open[Last(ci[co])] - 1]
      /\ UNCHANGED <<size, errfunc, ctl>>
  BY DEF ResumeYielded
<1>3. ~InUse(co)
  BY <1>1, <1>2, SuspendedIdle
<1> DEFINE a == Resumption(co)
<1>4. /\ a \in Activation /\ Begins(a) /\ cstack' \in Seq(Activation)
      /\ nCcalls' \in [Thread -> Nat] /\ baseCcalls' \in [Thread -> Nat] /\ st' \in [Thread -> Status]
      /\ st'[co] = "ok" /\ baseCcalls'[co] >= 1
      /\ \A t \in Thread : t # co => st'[t] = st[t] /\ baseCcalls'[t] = baseCcalls[t]
      /\ Levels' /\ Handlers'
  BY <1>2, <1>3, ResumptionIs
<1>5. a.how = "resume" /\ a.t = co /\ a.handler = "none" /\ a.at = 1
  BY DEF Resumption
<1> HIDE DEF a
<1>6. ctl = "run" /\ Depth > 0
  BY <1>2, CurReady
<1>7. /\ ci \in [Thread -> Frames] /\ ci[co] \in Frames /\ Len(ci[co]) \in Nat /\ Len(ci[co]) > 2 /\ ci[co][2] \in Fn
      /\ \A t \in Thread : Len(ci[t]) \in Nat /\ Len(ci[t]) <= size[t] /\ size[t] \in Nat
  BY <1>1, <1>2, TypedIs DEF Control, Statuses, Typed
<1>8. /\ Front(ci[co]) \in Frames /\ Len(Front(ci[co])) = Len(ci[co]) - 1
      /\ \A i \in 1 .. Len(ci[co]) - 1 : Front(ci[co])[i] = ci[co][i]
  <2>1. Len(ci[co]) > 1
    BY <1>7
  <2> QED
    BY <1>7, <2>1, Popped
<1>9. /\ ci' \in [Thread -> Frames] /\ ci'[co] = Front(ci[co])
      /\ \A t \in Thread : t # co => ci'[t] = ci[t]
  BY <1>2, <1>7, <1>8
<1>10. Typed'
  <2>1. \A t \in Thread : Len(ci'[t]) <= size[t]
    BY <1>7, <1>8, <1>9
  <2> QED
    BY <1>1, <1>2, <1>4, <1>9, <2>1 DEF Typed
<1>11. Control'
  <2>1. Len(ci'[co]) \in Nat /\ Len(ci'[co]) > 1
    BY <1>7, <1>8, <1>9
  <2>2. ci'[co][2] \in Fn
    <3>1. 2 \in 1 .. Len(ci[co]) - 1
      BY <1>7
    <3> QED
      BY <1>7, <1>8, <1>9, <3>1
  <2> QED
    BY <1>1, <1>2, <1>3, <1>4, <1>5, <1>6, <1>9, <2>1, <2>2, ResumeControl
<1>12. Counted'
  <2>1. st[co] # "error" /\ st'[co] # "error" /\ \A u \in Thread : st'[u] = "error" <=> st[u] = "error"
    <3>1. \A u \in Thread : st'[u] = "error" <=> st[u] = "error"
      BY <1>2, <1>4
    <3> QED
      BY <1>2, <1>4, <3>1
  <2>2. Len(ci[co]) > 1
    BY <1>7
  <2> QED
    BY <1>1, <1>2, <2>1, <2>2, PopCount
<1> QED
  BY <1>4, <1>10, <1>11, <1>12 DEF Inv

(* lua_yield: the coroutine's Lua function called the function that yields. *)
LEMMA YieldStep ==
  ASSUME Inv, Yield
  PROVE  Inv'
<1>1. Typed /\ Control /\ Levels /\ Handlers /\ Counted
  BY DEF Inv
<1>2. /\ InC /\ Last(cstack).how = "resume"
      /\ st' = [st EXCEPT ![cur] = "yield"]
      /\ nCcalls' = [nCcalls EXCEPT ![cur] = nCcalls[cur] - 1]
      /\ cstack' = Front(cstack)
      /\ UNCHANGED <<ci, size, baseCcalls, errfunc, open, ctl>>
  BY DEF Yield
<1>3. /\ Depth > 0 /\ Depth \in 1 .. Depth /\ Depth \in Nat /\ cstack # <<>>
      /\ cstack[Depth].how = "resume" /\ cstack[Depth].t = cur /\ cur \in Thread
      /\ ctl = "run" /\ st[cur] \in {"ok", "fresh"}
  BY <1>1, <1>2, CurReady, TypedIs, StackIs
<1>4. Ends(Depth)
  <2>1. Leaves(Depth - 1)
    BY <1>1, <1>2, <1>3, TypedIs, FrontLeaves
  <2>2. \A m \in Depth + 1 .. Depth : FALSE
    BY <1>3
  <2> QED
    BY <2>1, <2>2 DEF Ends
<1>5. Len(ci[cur]) > 2
  <2>1. Len(ci[cur]) \in Nat /\ Len(ci[cur]) > 1 /\ top = ci[cur][Len(ci[cur])]
    BY <1>1, <1>2, <1>3, TopIs, TypedIs
  <2>2. ci[cur][2] \in Fn
    BY <1>1, <1>3, <2>1 DEF Control, Resumed
  <2>3. top \notin Fn
    BY <1>2, CallAssumption DEF InC
  <2>4. Len(ci[cur]) # 2
    BY <2>1, <2>2, <2>3
  <2> DEFINE n == Len(ci[cur])
  <2>5. n \in Nat /\ n > 1 /\ n # 2
    BY <2>1, <2>4
  <2> HIDE DEF n
  <2>6. n > 2
    BY <2>5
  <2> QED
    BY <2>6 DEF n
<1>6. nCcalls[cur] \in Nat /\ nCcalls[cur] >= 1
  <2>1. nCcalls[cur] = baseCcalls[cur]
    BY <1>1, <1>3, LevelOfCur DEF Level
  <2>2. baseCcalls[cur] >= 1 /\ baseCcalls[cur] \in Nat
    BY <1>1, <1>3, TypedIs DEF Control, Resumed
  <2> QED
    BY <2>1, <2>2
<1>7. /\ st \in [Thread -> Status] /\ nCcalls \in [Thread -> Nat]
  BY <1>1 DEF Typed
<1>8. /\ st' \in [Thread -> Status] /\ st'[cur] = "yield"
      /\ \A u \in Thread : u # cur => st'[u] = st[u]
  BY <1>2, <1>3, <1>7 DEF Status
<1>9. /\ nCcalls' \in [Thread -> Nat] /\ \A u \in Thread : u # cur => nCcalls'[u] = nCcalls[u]
  <2>1. nCcalls[cur] - 1 \in Nat
    BY <1>6
  <2> QED
    BY <1>2, <1>7, <2>1
<1>10. Typed'
  <2>1. cstack' \in Seq(Activation)
    <3>1. Depth - 1 \in 0 .. Depth
      BY <1>3
    <3> QED
      BY <1>1, <1>4, <3>1, Unwinds DEF Ends, Typed
  <2> QED
    BY <1>1, <1>2, <1>8, <1>9, <2>1 DEF Typed
<1>11. Control'
  <2> DEFINE s == "yield"
  <2>1. s \in {"yield", "error"} /\ st' = [st EXCEPT ![cur] = s] /\ (s = "yield" => Len(ci[cur]) > 2)
        /\ ctl' = "run" /\ UNCHANGED <<ci, baseCcalls>>
    BY <1>2, <1>3, <1>5
  <2> HIDE DEF s
  <2> QED
    BY <1>1, <1>3, <1>4, <2>1, AbandonControl
<1>12. Levels'
  <2>1. \A t \in Thread : st'[t] = "fresh" => st[t] = "fresh"
    BY <1>8
  <2> QED
    BY <1>1, <1>2, <1>3, <1>4, <1>8, <1>9, <2>1, EndLevels
<1>13. Handlers'
  <2>1. errfunc' = RestoredHandler(cstack[Depth])
    BY <1>2, <1>3 DEF RestoredHandler
  <2> QED
    BY <1>1, <1>3, <1>4, <2>1, EndHandlers
<1>14. Counted'
  <2>1. \A u \in Thread : st'[u] = "error" <=> st[u] = "error"
    BY <1>3, <1>8
  <2>2. \A g \in Closure : \A p \in Thread \X Nat : IsCall(st', ci', g, p) <=> IsCall(st, ci, g, p)
    BY <1>2, <2>1 DEF IsCall
  <2> QED
    BY <1>1, <1>2, <2>2, QuietCount
<1> QED
  BY <1>10, <1>11, <1>12, <1>13, <1>14 DEF Inv
-----------------------------------------------------------------------------
(* Part 9: the theorems.                                                   *)
LEMMA InitInv ==
  ASSUME Init
  PROVE  Inv
<1>1. /\ ci = [t \in Thread |-> <<Base>>] /\ size = [t \in Thread |-> BASIC_CI_SIZE]
      /\ nCcalls = [t \in Thread |-> 0] /\ baseCcalls = [t \in Thread |-> 0]
      /\ errfunc = [t \in Thread |-> "none"]
      /\ st = [t \in Thread |-> IF t = Main THEN "ok" ELSE "none"]
      /\ open = [f \in Closure |-> 0] /\ cstack = <<>> /\ ctl = "run"
  BY DEF Init
<1>2. <<Base>> \in Frames /\ Len(<<Base>>) = 1 /\ <<Base>>[1] = Base
  BY DEF Frames
<1>3. BASIC_CI_SIZE \in Nat /\ 1 <= BASIC_CI_SIZE /\ "none" \in Handler /\ Main \in Thread
  BY CallAssumption
<1>4. Depth = 0 /\ (\A k \in 1 .. Depth : FALSE) /\ cstack \in Seq(Activation)
  BY <1>1 DEF Depth
<1>5. \A t \in Thread : ci[t] = <<Base>> /\ st[t] \in {"ok", "none"} /\ ~InUse(t)
  BY <1>1 DEF InUse
<1>6. Typed
  BY <1>1, <1>2, <1>3, <1>4 DEF Typed, Status
<1>7. Control
  <2>1. Linking /\ Resumed /\ Heights
    BY <1>4 DEF Linking, Resumed, Heights
  <2>2. Ordering
    BY <1>4 DEF Ordering
  <2>3. Statuses
    BY <1>1, <1>2, <1>3, <1>4, <1>5 DEF Statuses
  <2> QED
    BY <2>1, <2>2, <2>3 DEF Control
<1>8. Levels
  BY <1>1, <1>3, <1>4, <1>5 DEF Levels
<1>9. Handlers
  BY <1>1, <1>4 DEF Handlers, Handles, Uncaught
<1>10. Counted
  <2>1. ASSUME NEW f \in Closure PROVE Opened(f) = {}
    <3> SUFFICES ASSUME NEW p \in Opened(f) PROVE FALSE
      OBVIOUS
    <3>1. p[1] \in Thread /\ p[2] \in 1 .. Len(ci[p[1]]) /\ ci[p[1]][p[2]] = f
      BY DEF Opened
    <3>2. f = Base
      BY <1>2, <1>5, <3>1
    <3> QED
      BY <3>2, CallAssumption
  <2> QED
    BY <1>1, <2>1, FS_EmptySet DEF Counted
<1> QED
  BY <1>6, <1>7, <1>8, <1>9, <1>10 DEF Inv

LEMMA StutterInv ==
  ASSUME Inv, UNCHANGED vars
  PROVE  Inv'
<1>1. Typed' /\ Levels' /\ Handlers'
  <2>1. Typed /\ Levels /\ Handlers
    BY DEF Inv
  <2>2. Typed'
    BY <2>1 DEF Typed, vars
  <2> QED
    BY <2>1, <2>2, SameLevels, SameHandlers DEF vars
<1>2. Control'
  <2>1. /\ Depth' = Depth /\ cur' = cur
        /\ \A k : Below(k)' = Below(k) /\ (Lowest(k)' <=> Lowest(k))
        /\ \A t : InUse(t)' <=> InUse(t)
    BY DEF vars, Depth, cur, Below, Lowest, InUse
  <2>2. Linking' /\ Resumed' /\ Ordering' /\ Heights' /\ Statuses'
    BY <2>1 DEF Inv, Control, Linking, Resumed, Ordering, Heights, Statuses, vars
  <2> QED
    BY <2>2 DEF Control
<1>3. Counted'
  <2>1. \A g \in Closure : \A p \in Thread \X Nat : IsCall(st', ci', g, p) <=> IsCall(st, ci, g, p)
    BY DEF vars
  <2> QED
    BY <2>1, QuietCount DEF Inv, vars
<1> QED
  BY <1>1, <1>2, <1>3 DEF Inv

LEMMA StepInv ==
  ASSUME "call_idle" \notin Ops, Inv, [Next]_vars
  PROVE  Inv'
<1>1. CASE UNCHANGED vars
  BY <1>1, StutterInv
<1>2. ASSUME NEW f \in Closure, LuaCall(f) \/ NestedCall(f) \/ Handle(f) PROVE Inv'
  BY <1>2, LuaCallStep, NestedCallStep, HandleStep
<1>3. ASSUME NEW f \in Closure, NEW handler \in Handler, PCall(f, handler) PROVE Inv'
  BY <1>3, PCallStep
<1>4. ASSUME NEW f \in Fn, TailCall(f) PROVE Inv'
  BY <1>4, TailCallStep
<1>5. CASE ReturnToLua \/ ReturnToC
  BY <1>5, ReturnToLuaStep, ReturnToCStep
<1>6. CASE RaiseError
  BY <1>6, ErrorStep DEF RaiseError
<1>7. CASE Unhandled
  BY <1>7, ErrorStep DEF Unhandled
<1>8. CASE Throw
  BY <1>8, ThrowStep
<1>9. ASSUME NEW co \in Thread, CoCreate(co) \/ ResumeYielded(co) PROVE Inv'
  BY <1>9, CoCreateStep, ResumeYieldedStep
<1>10. ASSUME NEW co \in Thread, NEW f \in Fn, ResumeFresh(co, f) PROVE Inv'
  BY <1>10, ResumeFreshStep
<1>11. ASSUME NEW to \in Thread, NEW f \in Closure, CoCall(to, f) PROVE Inv'
  BY <1>11, CoCallStep
<1>12. CASE Yield
  BY <1>12, YieldStep
<1> QED
  BY <1>1, <1>2, <1>3, <1>4, <1>5, <1>6, <1>7, <1>8, <1>9, <1>10, <1>11, <1>12 DEF Next

(* Whatever the limits, the C stack and the frames of the threads stay     *)
(* consistent: the activations of a thread lie at growing heights within   *)
(* its frames, nCcalls is that of the innermost one, the handler in force  *)
(* is that of the innermost catcher, and nopencalls counts the frames      *)
(* (luaD_call, luaD_pcall, luaD_throw, lua_resumefrom, lua_yield).         *)
THEOREM CallStackIsKept ==
  "call_idle" \notin Ops => (Spec => []Inv)
<1> SUFFICES ASSUME "call_idle" \notin Ops PROVE Spec => []Inv
  OBVIOUS
<1>1. Init => Inv
  BY InitInv
<1>2. Inv /\ [Next]_vars => Inv'
  BY StepInv
<1> QED
  BY <1>1, <1>2, PTL DEF Spec

(* The variables keep their types, and the CallInfos in use fit the array  *)
(* (growCI, restore_stack_limit).                                          *)
THEOREM TypesOfCalls ==
  "call_idle" \notin Ops => (Spec => []TypeOK)
<1> SUFFICES ASSUME "call_idle" \notin Ops PROVE Spec => []TypeOK
  OBVIOUS
<1>1. Spec => []Inv
  BY CallStackIsKept
<1>2. Inv => TypeOK
  <2> SUFFICES ASSUME Inv PROVE TypeOK
    OBVIOUS
  <2>1. Typed /\ Counted
    BY DEF Inv
  <2>2. ci \in [Thread -> Seq(Closure \cup {Base})]
    <3>1. Frames \subseteq Seq(Closure \cup {Base})
      BY DEF Frames
    <3> QED
      BY <2>1, <3>1 DEF Typed
  <2>3. \A t \in Thread : Len(ci[t]) \in 1 .. size[t]
    <3>1. \A t \in Thread : Len(ci[t]) \in Nat /\ Len(ci[t]) >= 1 /\ Len(ci[t]) <= size[t] /\ size[t] \in Nat
      BY <2>1, TypedIs
    <3> QED
      BY <3>1
  <2> QED
    BY <2>1, <2>2, <2>3 DEF Typed, Counted, TypeOK
<1> QED
  BY <1>1, <1>2, PTL

(* The check of lua_yield refuses exactly a yield across a C call:         *)
(* nCcalls is above baseCcalls just when what runs on the thread was not   *)
(* called by lua_resumefrom.                                               *)
THEOREM YieldsAreChecked ==
  "call_idle" \notin Ops => (Spec => []YieldCheckIsExact)
<1> SUFFICES ASSUME "call_idle" \notin Ops PROVE Spec => []YieldCheckIsExact
  OBVIOUS
<1>1. Spec => []Inv
  BY CallStackIsKept
<1>2. Inv => YieldCheckIsExact
  <2> SUFFICES ASSUME Inv, InC
               PROVE  nCcalls[cur] > baseCcalls[cur] <=> Last(cstack).how # "resume"
    BY DEF YieldCheckIsExact
  <2> DEFINE a == cstack[Depth]
  <2>1. /\ Typed /\ Levels /\ Depth > 0
    BY CurReady DEF Inv
  <2>2. /\ Last(cstack) = a /\ a.t = cur /\ a.calls \in Nat
        /\ nCcalls[cur] \in Nat /\ baseCcalls[cur] \in Nat
    BY <2>1, TypedIs
  <2>3. nCcalls[cur] = Level(Depth) /\ (a.how # "resume" => a.calls >= baseCcalls[cur])
    BY <2>1, LevelOfCur
  <2>4. nCcalls[cur] = IF a.how = "resume" THEN baseCcalls[cur] ELSE a.calls + 1
    BY <2>2, <2>3 DEF Level
  <2> HIDE DEF a
  <2>5. CASE a.how = "resume"
    BY <2>2, <2>4, <2>5
  <2>6. CASE a.how # "resume"
    BY <2>2, <2>3, <2>4, <2>6
  <2> QED
    BY <2>5, <2>6
<1> QED
  BY <1>1, <1>2, PTL

(* The handler in force on a thread is the one its innermost protected     *)
(* call or resume has set, and there is none where nothing catches         *)
(* ("L->errfunc" in luaD_pcall, lua_resumefrom and luaG_errormsg).         *)
THEOREM HandlersOfCatchers ==
  "call_idle" \notin Ops => (Spec => []HandlerOfCatcher)
<1> SUFFICES ASSUME "call_idle" \notin Ops PROVE Spec => []HandlerOfCatcher
  OBVIOUS
<1>1. Spec => []Inv
  BY CallStackIsKept
<1>2. Inv => HandlerOfCatcher
  <2> SUFFICES ASSUME Inv, NEW t \in Thread
               PROVE  LET mine == {k \in DOMAIN cstack : cstack[k].t = t /\ cstack[k].how \in Catchers}
                      IN  errfunc[t] = IF mine = {} THEN "none" ELSE cstack[Max(mine)].handler
    BY DEF HandlerOfCatcher
  <2> DEFINE mine == {k \in DOMAIN cstack : cstack[k].t = t /\ cstack[k].how \in Catchers}
  <2>1. DOMAIN cstack = 1 .. Depth /\ Depth \in Nat /\ Handles(cstack, t, Depth, errfunc[t])
    BY TypedIs DEF Inv, Handlers
  <2>2. CASE Uncaught(cstack, t, Depth) /\ errfunc[t] = "none"
    <3>1. mine = {}
      BY <2>1, <2>2 DEF Uncaught
    <3> QED
      BY <2>2, <3>1
  <2>3. ASSUME NEW k \in 1 .. Depth, Catches(cstack, t, k, Depth), errfunc[t] = cstack[k].handler
        PROVE  mine # {} /\ errfunc[t] = cstack[Max(mine)].handler
    <3>1. k \in mine
      BY <2>1, <2>3 DEF Catches
    <3>2. \A j \in mine : j \in 1 .. Depth /\ j <= k
      <4> SUFFICES ASSUME NEW j \in mine PROVE j \in 1 .. Depth /\ j <= k
        OBVIOUS
      <4>1. j \in 1 .. Depth /\ cstack[j].t = t /\ cstack[j].how \in Catchers
        BY <2>1
      <4>2. j \notin k + 1 .. Depth
        BY <2>3, <4>1 DEF Catches
      <4> QED
        BY <2>1, <4>1, <4>2
    <3> HIDE DEF mine
    <3>3. \A x \in mine : (\A y \in mine : x >= y) => x = k
      <4> SUFFICES ASSUME NEW x \in mine, \A y \in mine : x >= y PROVE x = k
        OBVIOUS
      <4>1. x >= k /\ x <= k /\ x \in Nat /\ k \in Nat
        BY <3>1, <3>2
      <4> QED
        BY <4>1
    <3>4. \A y \in mine : k >= y
      BY <3>2
    <3>5. Max(mine) = k
      BY <3>1, <3>3, <3>4 DEF Max
    <3> QED
      BY <2>3, <3>1, <3>5
  <2> HIDE DEF mine
  <2>4. errfunc[t] = IF mine = {} THEN "none" ELSE cstack[Max(mine)].handler
    BY <2>1, <2>2, <2>3 DEF Handles, mine
  <2> QED
    BY <2>4 DEF mine
<1> QED
  BY <1>1, <1>2, PTL

(* nopencalls of a closure is the number of its calls in progress or       *)
(* suspended, whatever tail calls, errors and yields ended the others      *)
(* (luaD_precall, luaD_poscall, luaD_unwindci).                            *)
THEOREM CallsAreCounted ==
  "call_idle" \notin Ops => (Spec => []OpenCallsAreCounted)
<1> SUFFICES ASSUME "call_idle" \notin Ops PROVE Spec => []OpenCallsAreCounted
  OBVIOUS
<1>1. Spec => []Inv
  BY CallStackIsKept
<1>2. Inv => OpenCallsAreCounted
  <2> SUFFICES ASSUME Inv, NEW f \in Closure
               PROVE  open[f] = Cardinality(UNION {{<<t, i>> : i \in {j \in DOMAIN ci[t] : ci[t][j] = f}} :
                                                   t \in {u \in Thread : st[u] # "error"}})
    BY DEF OpenCallsAreCounted
  <2> DEFINE calls == UNION {{<<t, i>> : i \in {j \in DOMAIN ci[t] : ci[t][j] = f}} :
                             t \in {u \in Thread : st[u] # "error"}}
  <2>1. \A t \in Thread : DOMAIN ci[t] = 1 .. Len(ci[t]) /\ Len(ci[t]) \in Nat
    <3>1. \A t \in Thread : ci[t] \in Frames
      BY TypedIs DEF Inv
    <3> QED
      BY <3>1, FramesAre
  <2>2. ASSUME NEW p \in calls PROVE p \in Opened(f)
    <3>0. PICK t \in Thread : st[t] # "error" /\ p \in {<<t, i>> : i \in {j \in DOMAIN ci[t] : ci[t][j] = f}}
      OBVIOUS
    <3>1. PICK i \in DOMAIN ci[t] : ci[t][i] = f /\ p = <<t, i>>
      BY <3>0
    <3>2. i \in 1 .. Len(ci[t]) /\ i \in Nat
      BY <2>1, <3>1
    <3>3. p \in Thread \X Nat /\ p[1] = t /\ p[2] = i
      BY <3>1, <3>2
    <3> QED
      BY <3>0, <3>1, <3>2, <3>3 DEF Opened
  <2>3. ASSUME NEW p \in Opened(f) PROVE p \in calls
    <3>1. /\ p = <<p[1], p[2]>> /\ p[1] \in Thread /\ st[p[1]] # "error"
          /\ p[2] \in 1 .. Len(ci[p[1]]) /\ ci[p[1]][p[2]] = f
      BY DEF Opened
    <3>2. p[2] \in {j \in DOMAIN ci[p[1]] : ci[p[1]][j] = f}
      BY <2>1, <3>1
    <3> QED
      BY <3>1, <3>2
  <2> HIDE DEF calls
  <2>4. calls = Opened(f)
    BY <2>2, <2>3
  <2>5. open[f] = Cardinality(Opened(f))
    BY DEF Inv, Counted
  <2> QED
    BY <2>4, <2>5 DEF calls
<1> QED
  BY <1>1, <1>2, PTL

(* No thread is resumed that already runs or waits for what it resumed     *)
(* (auxstatus, lua_resumefrom: "cannot resume non-suspended coroutine").   *)
THEOREM SuspendedAreResumed ==
  "call_idle" \notin Ops => (Spec => OnlySuspendedAreResumed)
<1> SUFFICES ASSUME "call_idle" \notin Ops PROVE Spec => OnlySuspendedAreResumed
  OBVIOUS
<1> DEFINE A == \A co \in Thread : (ResumeYielded(co) \/ \E f \in Fn : ResumeFresh(co, f)) => ~InUse(co)
<1>1. Spec => []Inv
  BY CallStackIsKept
<1>2. Inv => [A]_vars
  <2> SUFFICES ASSUME Inv, NEW co \in Thread, ResumeYielded(co) \/ \E f \in Fn : ResumeFresh(co, f)
               PROVE  ~InUse(co)
    OBVIOUS
  <2>1. co # cur /\ (st[co] = "yield" \/ (st[co] = "fresh" /\ Len(ci[co]) = 1))
    BY DEF ResumeYielded, ResumeFresh
  <2> QED
    BY <2>1, SuspendedIdle DEF Inv
<1> HIDE DEF A
<1>3. Spec => [][A]_vars
  BY <1>1, <1>2, PTL
<1> QED
  BY <1>3 DEF A, OnlySuspendedAreResumed
=============================================================================
