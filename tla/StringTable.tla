----------------------------- MODULE StringTable ------------------------------
(* The table of interned strings (lstring.c) and the collector that sweeps *)
(* it bucket by bucket (lgc.c).  A string is its text: the table never     *)
(* holds two of a text, so that pointers can be compared instead.          *)
EXTENDS Naturals, FiniteSets

CONSTANTS
    Text, Fixed,        \* the texts; those of reserved words, which are never freed
    Hash,               \* [Text -> Nat]
    LUAI_MINSTRTABSIZE,
    LUA_INT_MAX

White == {"w0", "w1"}
String == [text : Text, marked : White \cup {"marked"}]

VARIABLES
    hash,           \* [0 .. size - 1 -> SUBSET String]; the order of a chain is left out
    nuse,
    currentwhite, gcstate, sweepstrgc,
    held            \* what the program refers to, by text

vars == <<hash, nuse, currentwhite, gcstate, sweepstrgc, held>>
-----------------------------------------------------------------------------
Size(tb) == Cardinality(DOMAIN tb)
Strings(tb) == UNION {tb[i] : i \in DOMAIN tb}
Other(w) == IF w = "w0" THEN "w1" ELSE "w0"
IsDead(s) == s.marked = Other(currentwhite)
Of(text, tb) == {s \in tb[Hash[text] % Size(tb)] : s.text = text}

\* luaS_resize: "cannot resize during GC traverse".
MayResize == gcstate # "sweepstring"

\* fails: there is no memory, and the error leaves the table as it is.
Resized(tb, newsize, fails) ==
    IF fails \/ ~MayResize THEN tb
    ELSE [i \in 0 .. newsize - 1 |-> {s \in Strings(tb) : Hash[s.text] % newsize = i}]

\* luaS_newlstr of a text that is there, dead or alive.
Found(text) ==
    /\ Of(text, hash) # {}
    /\ LET s == CHOOSE s \in Of(text, hash) : TRUE
           h == Hash[text] % Size(hash)
       IN  hash' = [hash EXCEPT ![h] = (@ \ {s}) \cup
                      {[s EXCEPT !.marked = IF IsDead(s) THEN currentwhite ELSE @]}]
    /\ held' = held \cup {text}
    /\ UNCHANGED <<nuse, currentwhite, gcstate, sweepstrgc>>

\* newlstr: the string is in the table before the table grows.
NewString(text, fails) ==
    LET tb == [hash EXCEPT ![Hash[text] % Size(hash)] =
                 @ \cup {[text |-> text, marked |-> currentwhite]}]
        grows == nuse + 1 > Size(hash) /\ Size(hash) <= LUA_INT_MAX \div 2
    IN  /\ Of(text, hash) = {}
        /\ nuse' = nuse + 1
        /\ hash' = IF grows THEN Resized(tb, 2 * Size(hash), fails) ELSE tb
        /\ held' = IF grows /\ MayResize /\ fails THEN held ELSE held \cup {text}
        /\ UNCHANGED <<currentwhite, gcstate, sweepstrgc>>

Forget(text) == /\ held' = held \ {text}
                /\ UNCHANGED <<hash, nuse, currentwhite, gcstate, sweepstrgc>>
-----------------------------------------------------------------------------
(* The collector                                                           *)

Marking(texts) == [i \in DOMAIN hash |->
    {[s EXCEPT !.marked = IF s.text \in texts THEN "marked" ELSE @] : s \in hash[i]}]

StartMark == /\ gcstate = "pause" /\ gcstate' = "propagate"
             /\ UNCHANGED <<hash, nuse, currentwhite, sweepstrgc, held>>

Mark(text) == /\ gcstate = "propagate" /\ text \in held
              /\ hash' = Marking({text})
              /\ UNCHANGED <<nuse, currentwhite, gcstate, sweepstrgc, held>>

Atomic == /\ gcstate = "propagate"
          /\ hash' = Marking(held)
          /\ currentwhite' = Other(currentwhite)
          /\ sweepstrgc' = 0 /\ gcstate' = "sweepstring"
          /\ UNCHANGED <<nuse, held>>

\* luaC_fullgc on a mark in progress: everything is swept to white.
AbandonMark == /\ gcstate \in {"pause", "propagate"}
               /\ sweepstrgc' = 0 /\ gcstate' = "sweepstring"
               /\ UNCHANGED <<hash, nuse, currentwhite, held>>

\* Mutant of IsSwept: half of the table is swept, as if it had not grown.
BadIsSwept(i) == 2 * i >= Size(hash)
\* No bucket is left.
IsSwept(i) == i >= Size(hash)

\* sweeplist on one bucket.
SweepBucket ==
    LET bucket == hash[sweepstrgc]
        kept == {s \in bucket : ~IsDead(s) \/ s.text \in Fixed}
    IN  /\ gcstate = "sweepstring"
        /\ hash' = [hash EXCEPT ![sweepstrgc] = {[s EXCEPT !.marked = currentwhite] : s \in kept}]
        /\ nuse' = nuse - Cardinality(bucket \ kept)
        /\ sweepstrgc' = sweepstrgc + 1
        /\ gcstate' = IF IsSwept(sweepstrgc + 1) THEN "sweep" ELSE gcstate
        /\ UNCHANGED <<currentwhite, held>>

\* The end of the sweep of other objects.  When checkSizes has no memory for
\* a smaller table the step ends there, to be tried again.
EndSweep(fails) ==
    LET shrinks == nuse < Size(hash) \div 4 /\ Size(hash) > LUAI_MINSTRTABSIZE * 2
    IN  /\ gcstate = "sweep"
        /\ hash' = IF shrinks THEN Resized(hash, Size(hash) \div 2, fails) ELSE hash
        /\ gcstate' = IF shrinks /\ fails THEN gcstate ELSE "pause"
        /\ UNCHANGED <<nuse, currentwhite, sweepstrgc, held>>

Init == /\ hash = [i \in 0 .. LUAI_MINSTRTABSIZE - 1 |-> {}] /\ nuse = 0
        /\ currentwhite = "w0" /\ gcstate = "pause" /\ sweepstrgc = 0
        /\ held = {}

Next == \/ \E text \in Text : \/ Found(text) \/ Forget(text) \/ Mark(text)
                              \/ \E fails \in BOOLEAN : NewString(text, fails)
        \/ StartMark \/ Atomic \/ AbandonMark \/ SweepBucket
        \/ \E fails \in BOOLEAN : EndSweep(fails)

Spec == Init /\ [][Next]_vars
-----------------------------------------------------------------------------
TypeOK == /\ DOMAIN hash \subseteq Nat /\ \A i \in DOMAIN hash : hash[i] \subseteq String
          /\ nuse \in Nat /\ currentwhite \in White /\ sweepstrgc \in Nat
          /\ gcstate \in {"pause", "propagate", "sweepstring", "sweep"} /\ held \subseteq Text

\* Of no text there are two strings, a text in use is found where it is looked
\* for, and a sweep visits every string whatever is interned, revived and
\* resized meanwhile: none is dead when it ends, and none has kept a mark when
\* the next one begins (lstring.c:21, 85; lgc.c:471, 613).
StringsAreUnique ==
    /\ nuse = Cardinality(Strings(hash))
    /\ \A s1, s2 \in Strings(hash) : s1.text = s2.text => s1 = s2
    /\ \A text \in held : \E s \in Of(text, hash) : ~IsDead(s)
    /\ gcstate \in {"sweep", "pause"} => \A s \in Strings(hash) : s.marked = currentwhite
=============================================================================
