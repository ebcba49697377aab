-------------------------- MODULE StringTable_proofs --------------------------
(***************************************************************************)
(* Theorems about StringTable, for any set of texts, any hash function and *)
(* any limits: the table is a map from texts, and a sweep misses nothing.  *)
(***************************************************************************)
EXTENDS StringTable, FiniteSetTheorems, TLAPS

(* What the theorems assume of the constants.                              *)
Parameters == /\ Hash \in [Text -> Nat]
              /\ LUAI_MINSTRTABSIZE \in Nat \ {0} /\ LUA_INT_MAX \in Nat

-----------------------------------------------------------------------------
(* Part 1: the invariant.                                                  *)
Texts(tb) == {s.text : s \in Strings(tb)}

(* A table: every string is in its bucket, and none is there twice.        *)
IsTable(tb) ==
  /\ \E n \in Nat \ {0} : tb \in [0 .. n - 1 -> SUBSET String]
  /\ \A i \in DOMAIN tb : \A s \in tb[i] : Hash[s.text] % Size(tb) = i
  /\ \A s1, s2 \in Strings(tb) : s1.text = s2.text => s1 = s2
  /\ IsFiniteSet(Texts(tb))

Counted == nuse = Cardinality(Texts(hash))

(* What the program holds is there and not condemned.                      *)
HeldAreKept == \A text \in held : \E s \in Strings(hash) : s.text = text /\ ~IsDead(s)

Clean(i) == \A s \in hash[i] : s.marked = currentwhite

(* Nothing has a mark before a collection, nothing is condemned before the *)
(* sweep, and the sweep leaves nothing of either behind it.                *)
Marks ==
  /\ gcstate \in {"pause", "sweep"} => \A s \in Strings(hash) : s.marked = currentwhite
  /\ gcstate = "propagate" => \A s \in Strings(hash) : ~IsDead(s)
  /\ gcstate = "sweepstring" =>
       sweepstrgc < Size(hash) /\ \A i \in DOMAIN hash : i < sweepstrgc => Clean(i)

Types == /\ nuse \in Nat /\ currentwhite \in White /\ sweepstrgc \in Nat
         /\ gcstate \in {"pause", "propagate", "sweepstring", "sweep"} /\ held \subseteq Text

Inv == Types /\ IsTable(hash) /\ Counted /\ HeldAreKept /\ Marks

-----------------------------------------------------------------------------
(* Part 2: tables.                                                         *)
LEMMA SizeIs ==
  ASSUME NEW n \in Nat \ {0}, NEW tb, DOMAIN tb = 0 .. n - 1
  PROVE  Size(tb) = n
<1>1. 0 \in Int /\ n - 1 \in Int /\ ~(0 > n - 1)
  OBVIOUS
<1>2. Cardinality(0 .. n - 1) = n - 1 - 0 + 1
  BY <1>1, FS_Interval
<1> QED
  BY <1>2 DEF Size

(* A set of strings without two of a text has as many texts.               *)
LEMMA CountTexts ==
  ASSUME NEW S, NEW T, T = {s.text : s \in S}, IsFiniteSet(T),
         \A s1, s2 \in S : s1.text = s2.text => s1 = s2
  PROVE  IsFiniteSet(S) /\ Cardinality(S) = Cardinality(T)
<1> DEFINE f == [s \in S |-> s.text]
<1>1. f \in Injection(S, T)
  BY DEF Injection, IsInjective
<1>2. f \in Surjection(S, T)
  BY DEF Surjection
<1> QED
  BY <1>1, <1>2, FS_Injection

(* A string is where it is looked for, and nowhere else.                   *)
LEMMA Lookup ==
  ASSUME Parameters, NEW tb, IsTable(tb), NEW text \in Text
  PROVE  /\ Hash[text] % Size(tb) \in DOMAIN tb
         /\ Of(text, tb) = {s \in Strings(tb) : s.text = text}
<1>1. PICK n \in Nat \ {0} : tb \in [0 .. n - 1 -> SUBSET String]
  BY DEF IsTable
<1>2. Size(tb) = n /\ DOMAIN tb = 0 .. n - 1 /\ Hash[text] \in Nat
  BY <1>1, SizeIs DEF Parameters
<1>3. Hash[text] % n \in 0 .. n - 1
  BY <1>2
<1>4. Of(text, tb) \subseteq {s \in Strings(tb) : s.text = text}
  BY <1>2, <1>3 DEF Of, Strings
<1>5. ASSUME NEW s \in Strings(tb), s.text = text PROVE s \in Of(text, tb)
  <2>1. PICK i \in DOMAIN tb : s \in tb[i]
    BY DEF Strings
  <2> QED
    BY <1>5, <2>1 DEF IsTable, Of
<1> QED
  BY <1>2, <1>3, <1>4, <1>5

LEMMA StringsOf ==
  ASSUME NEW tb, IsTable(tb)
  PROVE  /\ Strings(tb) \subseteq String
         /\ \A i \in DOMAIN tb : tb[i] \subseteq Strings(tb)
         /\ \A s \in Strings(tb) : \E i \in DOMAIN tb : s \in tb[i]
         /\ Texts(tb) \subseteq Text
  BY DEF IsTable, Strings, Texts, String

(* Rewriting the strings of each bucket, or leaving some out, keeps it a   *)
(* table as long as no text appears in a bucket that was not there.        *)
LEMMA Rewritten ==
  ASSUME NEW tb, IsTable(tb), NEW new \in [DOMAIN tb -> SUBSET String],
         \A i \in DOMAIN tb : \A s \in new[i] : \E r \in tb[i] : s.text = r.text,
         \A i \in DOMAIN tb : \A s1, s2 \in new[i] : s1.text = s2.text => s1 = s2
  PROVE  IsTable(new) /\ Texts(new) \subseteq Texts(tb)
<1>1. PICK n \in Nat \ {0} : tb \in [0 .. n - 1 -> SUBSET String]
  BY DEF IsTable
<1>2. DOMAIN new = DOMAIN tb /\ Size(new) = Size(tb) /\ new \in [0 .. n - 1 -> SUBSET String]
  BY <1>1 DEF Size
<1>3. \A i \in DOMAIN new : \A s \in new[i] : Hash[s.text] % Size(new) = i
  BY <1>2 DEF IsTable
<1>4. ASSUME NEW s1 \in Strings(new), NEW s2 \in Strings(new), s1.text = s2.text PROVE s1 = s2
  <2>1. PICK i \in DOMAIN new : s1 \in new[i]
    BY DEF Strings
  <2>2. PICK j \in DOMAIN new : s2 \in new[j]
    BY DEF Strings
  <2>3. i = j
    BY <1>3, <1>4, <2>1, <2>2
  <2> QED
    BY <1>2, <1>4, <2>1, <2>2, <2>3
<1>5. Texts(new) \subseteq Texts(tb)
  BY <1>2 DEF Texts, Strings
<1>6. IsFiniteSet(Texts(new))
  BY <1>5, FS_Subset DEF IsTable
<1> QED
  BY <1>2, <1>3, <1>4, <1>5, <1>6 DEF IsTable

(* luaS_resize loses no string and puts each where it is looked for.       *)
LEMMA ResizedTable ==
  ASSUME Parameters, NEW tb, IsTable(tb), NEW newsize \in Nat \ {0}, NEW fails \in BOOLEAN
  PROVE  /\ IsTable(Resized(tb, newsize, fails))
         /\ Strings(Resized(tb, newsize, fails)) = Strings(tb)
<1> DEFINE new == [i \in 0 .. newsize - 1 |-> {s \in Strings(tb) : Hash[s.text] % newsize = i}]
<1>1. CASE fails \/ ~MayResize
  BY <1>1 DEF Resized
<1>2. CASE ~(fails \/ ~MayResize)
  <2>1. Resized(tb, newsize, fails) = new
    BY <1>2 DEF Resized
  <2>2. new \in [0 .. newsize - 1 -> SUBSET String] /\ Size(new) = newsize
    BY StringsOf, SizeIs
  <2>3. \A i \in DOMAIN new : \A s \in new[i] : Hash[s.text] % Size(new) = i
    BY <2>2
  <2>4. Strings(new) \subseteq Strings(tb)
    BY DEF Strings
  <2>5. ASSUME NEW s \in Strings(tb) PROVE s \in Strings(new)
    <3>1. Hash[s.text] \in Nat
      BY StringsOf DEF Parameters, String
    <3>2. Hash[s.text] % newsize \in 0 .. newsize - 1
      BY <3>1
    <3>3. s \in new[Hash[s.text] % newsize]
      BY <3>2
    <3> HIDE DEF new
    <3> QED
      BY <2>2, <3>2, <3>3 DEF Strings
  <2>6. Strings(new) = Strings(tb)
    BY <2>4, <2>5
  <2> HIDE DEF new
  <2> QED
    BY <2>1, <2>2, <2>3, <2>6 DEF IsTable, Texts
<1> QED
  BY <1>1, <1>2

LEMMA Remarked ==
  ASSUME NEW tb, IsTable(tb), NEW new \in [DOMAIN tb -> SUBSET String],
         \A i \in DOMAIN tb : \A s \in new[i] : \E r \in tb[i] : s.text = r.text,
         \A i \in DOMAIN tb : \A r \in tb[i] : \E s \in new[i] : s.text = r.text,
         \A i \in DOMAIN tb : \A s1, s2 \in new[i] : s1.text = s2.text => s1 = s2
  PROVE  IsTable(new) /\ Texts(new) = Texts(tb)
<1>1. IsTable(new) /\ Texts(new) \subseteq Texts(tb)
  BY Rewritten
<1>2. ASSUME NEW r \in Strings(tb) PROVE r.text \in Texts(new)
  <2>1. PICK i \in DOMAIN tb : r \in tb[i]
    BY DEF Strings
  <2>2. PICK s \in new[i] : s.text = r.text
    BY <2>1
  <2>3. s \in Strings(new)
    BY <2>1, <2>2 DEF Strings
  <2> QED
    BY <2>2, <2>3 DEF Texts
<1>3. Texts(tb) \subseteq Texts(new)
  BY <1>2 DEF Texts
<1> QED
  BY <1>1, <1>3

LEMMA OneOfAText ==
  ASSUME NEW tb, IsTable(tb), NEW i \in DOMAIN tb, NEW s1 \in tb[i], NEW s2 \in tb[i],
         s1.text = s2.text
  PROVE  s1 = s2
  BY DEF IsTable, Strings

-----------------------------------------------------------------------------
(* Part 3: the program.                                                    *)
LEMMA OtherWhite ==
  ASSUME NEW w \in White
  PROVE  Other(w) \in White /\ Other(w) # w /\ Other(w) # "marked"
  BY DEF White, Other

LEMMA FoundInv ==
  ASSUME Parameters, Inv, NEW text \in Text, Found(text)
  PROVE  Inv'
<1> DEFINE s == CHOOSE s \in Of(text, hash) : TRUE
           h == Hash[text] % Size(hash)
           m == [s EXCEPT !.marked = IF IsDead(s) THEN currentwhite ELSE @]
<1>1. /\ s \in Of(text, hash) /\ held' = held \cup {text}
      /\ UNCHANGED <<nuse, currentwhite, gcstate, sweepstrgc>>
      /\ hash' = [hash EXCEPT ![h] = (@ \ {s}) \cup {m}]
  BY DEF Found
<1>2. IsTable(hash) /\ h \in DOMAIN hash /\ s \in hash[h] /\ s.text = text /\ s \in String
      /\ hash \in [DOMAIN hash -> SUBSET String]
  <2>1. IsTable(hash) /\ h \in DOMAIN hash
    BY Lookup DEF Inv
  <2>2. s \in hash[h] /\ s.text = text
    BY <1>1 DEF Of
  <2>3. hash \in [DOMAIN hash -> SUBSET String]
    BY <2>1 DEF IsTable
  <2> QED
    BY <2>1, <2>2, <2>3
<1>3. /\ m \in String /\ m.text = text /\ currentwhite \in White
      /\ m.marked = IF IsDead(s) THEN currentwhite ELSE s.marked
  BY <1>2 DEF String, Inv, Types
<1> HIDE DEF s, m, h
<1>4. /\ hash' \in [DOMAIN hash -> SUBSET String] /\ DOMAIN hash' = DOMAIN hash
      /\ \A i \in DOMAIN hash : i # h => hash'[i] = hash[i]
      /\ hash'[h] = (hash[h] \ {s}) \cup {m}
  BY <1>1, <1>2, <1>3
<1>5. IsTable(hash') /\ Texts(hash') = Texts(hash)
  <2>1. \A i \in DOMAIN hash : \A r \in hash'[i] : \E q \in hash[i] : r.text = q.text
    BY <1>2, <1>3, <1>4
  <2>2. \A i \in DOMAIN hash : \A q \in hash[i] : \E r \in hash'[i] : r.text = q.text
    BY <1>2, <1>3, <1>4
  <2>3. \A i \in DOMAIN hash : \A s1, s2 \in hash'[i] : s1.text = s2.text => s1 = s2
    BY <1>2, <1>3, <1>4, OneOfAText
  <2> QED
    BY <1>2, <1>4, <2>1, <2>2, <2>3, Remarked
<1>6. IsDead(m) = FALSE
  BY <1>3, OtherWhite DEF IsDead
<1>7. \A q \in Strings(hash) : q \in Strings(hash') \/ q = s
  BY <1>2, <1>4 DEF Strings
<1>8. m \in Strings(hash')
  BY <1>2, <1>4 DEF Strings
<1>9. HeldAreKept'
  BY <1>1, <1>2, <1>3, <1>6, <1>7, <1>8 DEF HeldAreKept, IsDead, Inv
<1>10. Marks'
  <2>1. \A i \in DOMAIN hash : Clean(i) => Clean(i)'
    BY <1>1, <1>2, <1>3, <1>4, OtherWhite DEF Clean, IsDead
  <2>2. \A q \in Strings(hash') : IsDead(q)' => q \in Strings(hash) /\ IsDead(q)
    BY <1>1, <1>2, <1>4, <1>6 DEF Strings, IsDead
  <2>3. Size(hash') = Size(hash)
    BY <1>4 DEF Size
  <2>4. (\A q \in Strings(hash) : q.marked = currentwhite) =>
          \A q \in Strings(hash') : q.marked = currentwhite
    BY <1>2, <1>3, <1>4, OtherWhite DEF Strings, IsDead
  <2> QED
    BY <1>1, <1>4, <2>1, <2>2, <2>3, <2>4 DEF Marks, Inv
<1> QED
  BY <1>1, <1>5, <1>9, <1>10 DEF Inv, Types, Counted

LEMMA NewStringInv ==
  ASSUME Parameters, Inv, NEW text \in Text, NEW fails \in BOOLEAN, NewString(text, fails)
  PROVE  Inv'
<1> DEFINE h == Hash[text] % Size(hash)
           new == [text |-> text, marked |-> currentwhite]
           tb == [hash EXCEPT ![h] = @ \cup {new}]
           grows == nuse + 1 > Size(hash) /\ Size(hash) <= LUA_INT_MAX \div 2
<1>1. /\ Of(text, hash) = {} /\ nuse' = nuse + 1
      /\ hash' = IF grows THEN Resized(tb, 2 * Size(hash), fails) ELSE tb
      /\ held' = IF grows /\ MayResize /\ fails THEN held ELSE held \cup {text}
      /\ UNCHANGED <<currentwhite, gcstate, sweepstrgc>>
  BY DEF NewString
<1>2. /\ IsTable(hash) /\ h \in DOMAIN hash /\ hash \in [DOMAIN hash -> SUBSET String]
      /\ new \in String /\ new.text = text /\ new.marked = currentwhite /\ currentwhite \in White
  <2>1. IsTable(hash) /\ h \in DOMAIN hash
    BY Lookup DEF Inv
  <2>2. hash \in [DOMAIN hash -> SUBSET String]
    BY <2>1 DEF IsTable
  <2> QED
    BY <2>1, <2>2 DEF String, Inv, Types
<1>3. text \notin Texts(hash)
  <2>1. {s \in Strings(hash) : s.text = text} = {}
    BY <1>1, <1>2, Lookup
  <2> QED
    BY <2>1 DEF Texts
<1>4. PICK n \in Nat \ {0} : hash \in [0 .. n - 1 -> SUBSET String] /\ Size(hash) = n
  <2>1. PICK n \in Nat \ {0} : hash \in [0 .. n - 1 -> SUBSET String]
    BY <1>2 DEF IsTable
  <2> QED
    BY <2>1, SizeIs
<1> HIDE DEF new
<1>5. /\ DOMAIN tb = DOMAIN hash /\ tb \in [0 .. n - 1 -> SUBSET String] /\ Size(tb) = n
      /\ tb[h] = hash[h] \cup {new} /\ \A i \in DOMAIN hash : i # h => tb[i] = hash[i]
  <2>1. /\ DOMAIN tb = DOMAIN hash /\ tb \in [0 .. n - 1 -> SUBSET String]
        /\ tb[h] = hash[h] \cup {new} /\ \A i \in DOMAIN hash : i # h => tb[i] = hash[i]
    BY <1>2, <1>4
  <2> HIDE DEF tb
  <2> QED
    BY <2>1, SizeIs
<1> HIDE DEF tb
<1>6. Strings(tb) = Strings(hash) \cup {new}
  BY <1>2, <1>5 DEF Strings
<1>7. Texts(tb) = Texts(hash) \cup {text}
  BY <1>2, <1>6 DEF Texts
<1>8. IsTable(tb) /\ Cardinality(Texts(tb)) = nuse + 1
  <2>1. /\ IsFiniteSet(Texts(tb))
        /\ Cardinality(Texts(tb)) = nuse + 1
    BY <1>2, <1>3, <1>7, FS_AddElement DEF IsTable, Inv, Counted
  <2>2. \A i \in DOMAIN tb : \A s \in tb[i] : Hash[s.text] % Size(tb) = i
    BY <1>2, <1>4, <1>5 DEF IsTable
  <2>3. \A s1, s2 \in Strings(tb) : s1.text = s2.text => s1 = s2
    BY <1>2, <1>3, <1>6 DEF IsTable, Texts
  <2> QED
    BY <1>5, <2>1, <2>2, <2>3 DEF IsTable
<1>9. IsTable(hash') /\ Strings(hash') = Strings(hash) \cup {new} /\ Texts(hash') = Texts(tb)
  <2>1. CASE ~grows
    BY <1>1, <1>6, <1>8, <2>1
  <2>2. CASE grows
    <3>1. hash' = Resized(tb, 2 * n, fails) /\ 2 * n \in Nat \ {0}
      BY <1>1, <1>4, <2>2
    <3>2. IsTable(hash') /\ Strings(hash') = Strings(tb)
      BY <1>8, <3>1, ResizedTable
    <3> QED
      BY <1>6, <3>2 DEF Texts
  <2> QED
    BY <2>1, <2>2
<1>10. HeldAreKept'
  <2>1. \A s : IsDead(s)' = IsDead(s)
    BY <1>1 DEF IsDead
  <2>2. ~IsDead(new)
    BY <1>2, OtherWhite DEF IsDead
  <2> QED
    BY <1>1, <1>2, <1>9, <2>1, <2>2 DEF HeldAreKept, Inv
<1>11. Marks'
  <2>1. CASE gcstate = "sweepstring"
    <3>1. hash' = tb
      BY <1>1, <2>1 DEF Resized, MayResize
    <3>2. \A i \in DOMAIN hash : Clean(i) => Clean(i)'
      BY <1>1, <1>2, <1>5, <3>1 DEF Clean
    <3>3. Size(hash') = Size(hash) /\ DOMAIN hash' = DOMAIN hash
      BY <1>4, <1>5, <3>1
    <3> QED
      BY <1>1, <2>1, <3>2, <3>3 DEF Marks, Inv
  <2>2. CASE gcstate # "sweepstring"
    <3>1. new.marked = currentwhite /\ ~IsDead(new)
      BY <1>2, OtherWhite DEF IsDead
    <3> QED
      BY <1>1, <1>9, <2>2, <3>1 DEF Marks, Inv, IsDead
  <2> QED
    BY <2>1, <2>2
<1> QED
  BY <1>1, <1>8, <1>9, <1>10, <1>11 DEF Inv, Types, Counted

LEMMA ForgetInv ==
  ASSUME Inv, NEW text \in Text, Forget(text)
  PROVE  Inv'
  BY DEF Inv, Forget, Types, Counted, HeldAreKept, Marks, IsDead, Clean

-----------------------------------------------------------------------------
(* Part 4: the collector.                                                  *)
Marked(s, texts) == [s EXCEPT !.marked = IF s.text \in texts THEN "marked" ELSE @]

LEMMA MarkingKeeps ==
  ASSUME Inv, NEW texts, hash' = Marking(texts)
  PROVE  /\ IsTable(hash') /\ Texts(hash') = Texts(hash) /\ DOMAIN hash' = DOMAIN hash
         /\ \A s \in Strings(hash) : Marked(s, texts) \in Strings(hash')
         /\ \A r \in Strings(hash') : \E s \in Strings(hash) : r = Marked(s, texts)
<1>1. IsTable(hash) /\ hash \in [DOMAIN hash -> SUBSET String]
  BY DEF Inv, IsTable
<1>2. hash' = [i \in DOMAIN hash |-> {Marked(s, texts) : s \in hash[i]}]
  BY DEF Marking, Marked
<1>3. \A s \in String : Marked(s, texts) \in String /\ Marked(s, texts).text = s.text
  BY DEF Marked, String
<1>4. hash' \in [DOMAIN hash -> SUBSET String] /\ DOMAIN hash' = DOMAIN hash
  BY <1>1, <1>2, <1>3
<1>5. \A i \in DOMAIN hash : \A r \in hash'[i] : \E s \in hash[i] : r.text = s.text
  BY <1>1, <1>2, <1>3
<1>6. \A i \in DOMAIN hash : \A s \in hash[i] : \E r \in hash'[i] : r.text = s.text
  BY <1>1, <1>2, <1>3
<1>7. \A i \in DOMAIN hash : \A r1, r2 \in hash'[i] : r1.text = r2.text => r1 = r2
  BY <1>1, <1>2, <1>3, OneOfAText
<1>8. IsTable(hash') /\ Texts(hash') = Texts(hash)
  BY <1>1, <1>4, <1>5, <1>6, <1>7, Remarked
<1> QED
  BY <1>2, <1>4, <1>8 DEF Strings

LEMMA MarkInv ==
  ASSUME Inv, NEW text \in Text, Mark(text)
  PROVE  Inv'
<1>1. /\ gcstate = "propagate" /\ hash' = Marking({text})
      /\ UNCHANGED <<nuse, currentwhite, gcstate, sweepstrgc, held>>
  BY DEF Mark
<1>2. \A s \in Strings(hash) :
        Marked(s, {text}).text = s.text /\ (~IsDead(s) => ~IsDead(Marked(s, {text})))
  BY StringsOf, OtherWhite DEF Inv, Types, Marked, String, IsDead
<1>3. \A s : IsDead(s)' = IsDead(s)
  BY <1>1 DEF IsDead
<1>4. \A s \in Strings(hash') : ~IsDead(s)
  BY <1>1, <1>2, MarkingKeeps DEF Inv, Marks
<1>5. HeldAreKept'
  BY <1>1, <1>2, <1>3, MarkingKeeps DEF Inv, HeldAreKept
<1>6. Marks'
  BY <1>1, <1>3, <1>4 DEF Marks
<1> QED
  BY <1>1, <1>5, <1>6, MarkingKeeps DEF Inv, Types, Counted

LEMMA SizeOfTable == \A tb : IsTable(tb) => Size(tb) \in Nat \ {0} /\ DOMAIN tb = 0 .. Size(tb) - 1
<1> SUFFICES ASSUME NEW tb, IsTable(tb)
             PROVE  Size(tb) \in Nat \ {0} /\ DOMAIN tb = 0 .. Size(tb) - 1
  OBVIOUS
<1>1. PICK n \in Nat \ {0} : tb \in [0 .. n - 1 -> SUBSET String]
  BY DEF IsTable
<1> QED
  BY <1>1, SizeIs

LEMMA AtomicInv ==
  ASSUME Inv, Atomic
  PROVE  Inv'
<1>1. /\ hash' = Marking(held) /\ currentwhite' = Other(currentwhite) /\ sweepstrgc' = 0
      /\ gcstate' = "sweepstring" /\ UNCHANGED <<nuse, held>>
  BY DEF Atomic
<1>2. currentwhite' \in White /\ Other(currentwhite') # "marked"
  BY <1>1, OtherWhite DEF Inv, Types
<1>3. \A s \in Strings(hash) : s.text \in held =>
        Marked(s, held).text = s.text /\ Marked(s, held).marked = "marked"
  BY StringsOf DEF Inv, Marked, String
<1>4. HeldAreKept'
  BY <1>1, <1>2, <1>3, MarkingKeeps DEF Inv, HeldAreKept, IsDead
<1>5. Size(hash') \in Nat \ {0} /\ DOMAIN hash' = 0 .. Size(hash') - 1
  BY <1>1, MarkingKeeps, SizeOfTable
<1>6. Marks'
  BY <1>1, <1>5 DEF Marks
<1> QED
  BY <1>1, <1>2, <1>4, <1>6, MarkingKeeps DEF Inv, Types, Counted

LEMMA StartInv ==
  ASSUME Inv, StartMark \/ AbandonMark
  PROVE  Inv'
<1>1. UNCHANGED <<hash, nuse, currentwhite, held>> /\ gcstate' \in {"propagate", "sweepstring"}
      /\ sweepstrgc' \in {0, sweepstrgc} /\ (gcstate' = "sweepstring" => sweepstrgc' = 0)
      /\ gcstate \in {"pause", "propagate"}
  BY DEF StartMark, AbandonMark
<1>2. \A s : IsDead(s)' = IsDead(s)
  BY <1>1 DEF IsDead
<1>3. \A s \in Strings(hash) : ~IsDead(s)
  BY <1>1, OtherWhite DEF Inv, Types, Marks, IsDead
<1>4. Size(hash) \in Nat \ {0} /\ DOMAIN hash = 0 .. Size(hash) - 1
  BY SizeOfTable DEF Inv
<1>5. Marks'
  BY <1>1, <1>2, <1>3, <1>4 DEF Marks
<1> QED
  BY <1>1, <1>2, <1>5 DEF Inv, Types, Counted, HeldAreKept

LEMMA Difference ==
  ASSUME NEW A, IsFiniteSet(A), NEW D \in SUBSET A
  PROVE  Cardinality(A \ D) = Cardinality(A) - Cardinality(D) /\ Cardinality(D) <= Cardinality(A)
<1>1. IsFiniteSet(D) /\ IsFiniteSet(A \ D) /\ Cardinality(D) <= Cardinality(A)
  BY FS_Subset
<1>2. Cardinality((A \ D) \cup D) = Cardinality(A \ D) + Cardinality(D) - Cardinality((A \ D) \cap D)
  BY <1>1, FS_Union
<1>3. (A \ D) \cup D = A /\ (A \ D) \cap D = {}
  OBVIOUS
<1>4. Cardinality(A) \in Nat /\ Cardinality(D) \in Nat /\ Cardinality(A \ D) \in Nat
  BY <1>1, FS_CardinalityType
<1>5. Cardinality((A \ D) \cap D) = 0
  BY <1>3, FS_EmptySet
<1>6. Cardinality(A) = Cardinality(A \ D) + Cardinality(D) - 0
  BY <1>2, <1>3, <1>5
<1> QED
  BY <1>1, <1>4, <1>6

LEMMA SweepInv ==
  ASSUME Inv, SweepBucket
  PROVE  Inv'
<1> DEFINE bucket == hash[sweepstrgc]
           kept == {s \in bucket : ~IsDead(s) \/ s.text \in Fixed}
           freed == {s.text : s \in bucket \ kept}
           clean == {[s EXCEPT !.marked = currentwhite] : s \in kept}
<1>1. /\ gcstate = "sweepstring" /\ UNCHANGED <<currentwhite, held>>
      /\ hash' = [hash EXCEPT ![sweepstrgc] = clean]
      /\ nuse' = nuse - Cardinality(bucket \ kept)
      /\ sweepstrgc' = sweepstrgc + 1
      /\ gcstate' = IF sweepstrgc + 1 >= Size(hash) THEN "sweep" ELSE gcstate
  BY DEF SweepBucket, IsSwept
<1>2. /\ Size(hash) \in Nat \ {0} /\ DOMAIN hash = 0 .. Size(hash) - 1 /\ sweepstrgc \in Nat
      /\ sweepstrgc < Size(hash) /\ sweepstrgc \in DOMAIN hash /\ currentwhite \in White
      /\ IsTable(hash) /\ hash \in [DOMAIN hash -> SUBSET String] /\ bucket \subseteq String
  <2>1. Size(hash) \in Nat \ {0} /\ DOMAIN hash = 0 .. Size(hash) - 1 /\ IsTable(hash)
    BY SizeOfTable DEF Inv
  <2>2. sweepstrgc \in Nat /\ sweepstrgc < Size(hash) /\ currentwhite \in White
    BY <1>1 DEF Inv, Types, Marks
  <2>3. sweepstrgc \in DOMAIN hash
    BY <2>1, <2>2
  <2>4. hash \in [DOMAIN hash -> SUBSET String]
    BY <2>1 DEF IsTable
  <2> QED
    BY <2>1, <2>2, <2>3, <2>4
<1>3. /\ clean \subseteq String
      /\ \A r \in clean : r.marked = currentwhite /\ \E s \in kept : r.text = s.text
      /\ \A s \in kept : \E r \in clean : r.text = s.text
  <2>1. \A s \in kept : /\ [s EXCEPT !.marked = currentwhite] \in String
                        /\ [s EXCEPT !.marked = currentwhite].text = s.text
                        /\ [s EXCEPT !.marked = currentwhite].marked = currentwhite
    BY <1>2 DEF String
  <2> QED
    BY <2>1
<1>4. \A r1, r2 \in clean : r1.text = r2.text => r1 = r2
  <2> SUFFICES ASSUME NEW r1 \in clean, NEW r2 \in clean, r1.text = r2.text PROVE r1 = r2
    OBVIOUS
  <2>1. PICK s1 \in kept : r1 = [s1 EXCEPT !.marked = currentwhite]
    OBVIOUS
  <2>2. PICK s2 \in kept : r2 = [s2 EXCEPT !.marked = currentwhite]
    OBVIOUS
  <2>3. s1.text = s2.text
    BY <1>2, <2>1, <2>2 DEF String
  <2> QED
    BY <1>2, <2>1, <2>2, <2>3, OneOfAText
<1> HIDE DEF clean
<1>5. /\ hash' \in [DOMAIN hash -> SUBSET String] /\ DOMAIN hash' = DOMAIN hash
      /\ hash'[sweepstrgc] = clean
      /\ \A i \in DOMAIN hash : i # sweepstrgc => hash'[i] = hash[i]
  BY <1>1, <1>2, <1>3
<1>6. IsTable(hash')
  <2>1. \A i \in DOMAIN hash : \A r \in hash'[i] : \E s \in hash[i] : r.text = s.text
    BY <1>3, <1>5
  <2>2. \A i \in DOMAIN hash : \A r1, r2 \in hash'[i] : r1.text = r2.text => r1 = r2
    BY <1>2, <1>4, <1>5, OneOfAText
  <2> QED
    BY <1>2, <1>5, <2>1, <2>2, Rewritten
<1>7. Texts(hash') = Texts(hash) \ freed /\ freed \subseteq Texts(hash)
  <2>1. freed \subseteq Texts(hash)
    BY <1>2 DEF Texts, Strings
  <2>2. ASSUME NEW r \in Strings(hash') PROVE r.text \in Texts(hash) \ freed
    <3>1. PICK i \in DOMAIN hash : r \in hash'[i]
      BY <1>5 DEF Strings
    <3>2. PICK s \in hash[i] : s.text = r.text /\ (i = sweepstrgc => s \in kept)
      BY <1>3, <1>5, <3>1
    <3>3. s \in Strings(hash)
      BY <3>2 DEF Strings
    <3>4. \A q \in bucket \ kept : q.text # s.text
      <4> SUFFICES ASSUME NEW q \in bucket \ kept, q.text = s.text PROVE FALSE
        OBVIOUS
      <4>1. q \in Strings(hash)
        BY <1>2 DEF Strings
      <4>2. q = s
        BY <1>2, <3>3, <4>1 DEF IsTable
      <4>3. i = sweepstrgc
        BY <1>2, <3>2, <4>2 DEF IsTable
      <4> QED
        BY <3>2, <4>2, <4>3
    <3> QED
      BY <3>2, <3>3, <3>4 DEF Texts
  <2>3. ASSUME NEW s \in Strings(hash), s.text \notin freed PROVE s.text \in Texts(hash')
    <3>1. PICK i \in DOMAIN hash : s \in hash[i]
      BY DEF Strings
    <3>2. i = sweepstrgc => s \in kept
      BY <2>3, <3>1
    <3>3. \E r \in hash'[i] : r.text = s.text
      BY <1>3, <1>5, <3>1, <3>2
    <3> QED
      BY <1>5, <3>1, <3>3 DEF Texts, Strings
  <2>4. \A x \in Texts(hash') : x \in Texts(hash) \ freed
    BY <2>2 DEF Texts
  <2>5. \A x \in Texts(hash) : x \notin freed => x \in Texts(hash')
    BY <2>3 DEF Texts
  <2> QED
    BY <2>1, <2>4, <2>5
<1>8. nuse' \in Nat /\ Counted'
  <2>1. IsFiniteSet(Texts(hash)) /\ IsFiniteSet(freed)
    BY <1>2, <1>7, FS_Subset DEF IsTable
  <2>2. Cardinality(bucket \ kept) = Cardinality(freed)
    <3>1. \A s1, s2 \in bucket \ kept : s1.text = s2.text => s1 = s2
      BY <1>2, OneOfAText
    <3> QED
      BY <2>1, <3>1, CountTexts
  <2>3. /\ Cardinality(Texts(hash) \ freed) = Cardinality(Texts(hash)) - Cardinality(freed)
        /\ Cardinality(Texts(hash) \ freed) \in Nat
    BY <1>7, <2>1, Difference, FS_Subset, FS_CardinalityType
  <2> QED
    BY <1>1, <1>7, <2>2, <2>3 DEF Counted, Inv
<1>9. HeldAreKept'
  <2>1. \A s : IsDead(s)' = IsDead(s)
    BY <1>1 DEF IsDead
  <2>2. ASSUME NEW s \in Strings(hash), ~IsDead(s)
        PROVE  \E r \in Strings(hash') : r.text = s.text /\ ~IsDead(r)
    <3>1. PICK i \in DOMAIN hash : s \in hash[i]
      BY DEF Strings
    <3>2. \E r \in hash'[i] : r.text = s.text /\ ~IsDead(r)
      <4>1. CASE i = sweepstrgc
        <5>1. s \in kept
          BY <2>2, <3>1, <4>1
        <5>2. PICK r \in clean : r.text = s.text
          BY <1>3, <5>1
        <5> QED
          BY <1>2, <1>3, <1>5, <4>1, <5>2, OtherWhite DEF IsDead
      <4>2. CASE i # sweepstrgc
        BY <1>5, <2>2, <3>1, <4>2
      <4> QED
        BY <4>1, <4>2
    <3> QED
      BY <1>5, <3>1, <3>2 DEF Strings
  <2> QED
    BY <1>1, <2>1, <2>2 DEF Inv, HeldAreKept
<1>10. Marks'
  <2>1. \A i \in DOMAIN hash : i < sweepstrgc => Clean(i)
    BY <1>1 DEF Inv, Marks
  <2>2. \A i \in DOMAIN hash' : i < sweepstrgc + 1 => \A s \in hash'[i] : s.marked = currentwhite
    BY <1>2, <1>3, <1>5, <2>1 DEF Clean
  <2>3. Size(hash') = Size(hash)
    BY <1>5 DEF Size
  <2>4. sweepstrgc + 1 >= Size(hash) => \A s \in Strings(hash') : s.marked = currentwhite
    BY <1>2, <1>5, <2>2 DEF Strings
  <2>5. CASE sweepstrgc + 1 >= Size(hash)
    <3>1. gcstate' = "sweep" /\ currentwhite' = currentwhite
      BY <1>1, <2>5
    <3> QED
      BY <2>4, <2>5, <3>1 DEF Marks
  <2>6. CASE ~(sweepstrgc + 1 >= Size(hash))
    <3>1. gcstate' = "sweepstring" /\ currentwhite' = currentwhite
      BY <1>1, <2>6
    <3>2. sweepstrgc' = sweepstrgc + 1 /\ sweepstrgc' < Size(hash)
      BY <1>1, <1>2, <2>6
    <3>3. \A i \in DOMAIN hash' : i < sweepstrgc' => Clean(i)'
      BY <2>2, <3>1, <3>2 DEF Clean
    <3> QED
      BY <2>3, <3>1, <3>2, <3>3 DEF Marks
  <2> QED
    BY <2>5, <2>6
<1> QED
  BY <1>1, <1>2, <1>6, <1>8, <1>9, <1>10 DEF Inv, Types

LEMMA EndSweepInv ==
  ASSUME Parameters, Inv, NEW fails \in BOOLEAN, EndSweep(fails)
  PROVE  Inv'
<1> DEFINE shrinks == nuse < Size(hash) \div 4 /\ Size(hash) > LUAI_MINSTRTABSIZE * 2
<1>1. /\ gcstate = "sweep" /\ UNCHANGED <<nuse, currentwhite, sweepstrgc, held>>
      /\ hash' = IF shrinks THEN Resized(hash, Size(hash) \div 2, fails) ELSE hash
      /\ gcstate' \in {"sweep", "pause"}
  BY DEF EndSweep
<1>2. IsTable(hash') /\ Strings(hash') = Strings(hash)
  <2>1. CASE ~shrinks
    BY <1>1, <2>1 DEF Inv
  <2>2. CASE shrinks
    <3>1. Size(hash) \in Nat /\ Size(hash) > 2
      BY <2>2, SizeOfTable DEF Inv, Parameters
    <3>2. Size(hash) \div 2 \in Nat \ {0}
      BY <3>1
    <3> QED
      BY <1>1, <2>2, <3>2, ResizedTable DEF Inv
  <2> QED
    BY <2>1, <2>2
<1>3. HeldAreKept' /\ Marks'
  BY <1>1, <1>2 DEF Inv, HeldAreKept, Marks, IsDead
<1> QED
  BY <1>1, <1>2, <1>3 DEF Inv, Types, Counted, Texts

-----------------------------------------------------------------------------
(* Part 5: the theorems.                                                   *)
LEMMA InitInv == Parameters /\ Init => Inv
<1> SUFFICES ASSUME Parameters, Init PROVE Inv
  OBVIOUS
<1>1. hash \in [0 .. LUAI_MINSTRTABSIZE - 1 -> SUBSET String] /\ \A i \in DOMAIN hash : hash[i] = {}
  BY DEF Init
<1>2. Strings(hash) = {} /\ Texts(hash) = {}
  BY <1>1 DEF Strings, Texts
<1>3. IsTable(hash) /\ Counted
  BY <1>1, <1>2, FS_EmptySet DEF IsTable, Counted, Init, Parameters
<1> QED
  BY <1>2, <1>3 DEF Inv, Init, Types, HeldAreKept, Marks, White

LEMMA StepInv == Parameters /\ Inv /\ [Next]_vars => Inv'
<1> SUFFICES ASSUME Parameters, Inv, [Next]_vars PROVE Inv'
  OBVIOUS
<1>1. CASE UNCHANGED vars
  BY <1>1 DEF vars, Inv, Types, Counted, HeldAreKept, Marks, Clean, IsDead
<1> QED
  BY <1>1, FoundInv, NewStringInv, ForgetInv, MarkInv, StartInv, AtomicInv, SweepInv, EndSweepInv
     DEF Next

(* luaS_newlstr, luaS_resize and the bucket sweep keep the table a map     *)
(* from texts to strings: whatever text is looked up is found or new.      *)
THEOREM TableIsKept == Parameters => (Spec => []Inv)
<1> SUFFICES ASSUME Parameters PROVE Spec => []Inv
  OBVIOUS
<1> QED
  BY InitInv, StepInv, PTL DEF Spec

THEOREM TypesOfStrings == Parameters => (Spec => []TypeOK)
<1> SUFFICES ASSUME Parameters PROVE Spec => []TypeOK
  OBVIOUS
<1>1. Inv => TypeOK
  <2> SUFFICES ASSUME Inv PROVE TypeOK
    OBVIOUS
  <2>1. PICK n \in Nat \ {0} : hash \in [0 .. n - 1 -> SUBSET String]
    BY DEF Inv, IsTable
  <2> QED
    BY <2>1 DEF Inv, Types, TypeOK
<1> QED
  BY <1>1, TableIsKept, PTL

LEMMA InvUnique == Parameters /\ Inv => StringsAreUnique
<1> SUFFICES ASSUME Parameters, Inv PROVE StringsAreUnique
  OBVIOUS
<1>1. nuse = Cardinality(Strings(hash))
  BY CountTexts DEF Inv, Counted, IsTable, Texts
<1>2. \A text \in held : \E s \in Of(text, hash) : ~IsDead(s)
  BY Lookup DEF Inv, Types, HeldAreKept
<1> QED
  BY <1>1, <1>2 DEF StringsAreUnique, Inv, IsTable, Marks

(* Pointers may be compared instead of texts: of no text there are two     *)
(* strings, and the one that the program holds is the one it will find,    *)
(* whatever is interned, revived and resized between two steps of a sweep, *)
(* which leaves nothing condemned or marked behind.                        *)
THEOREM StringsAreInterned == Parameters => (Spec => []StringsAreUnique)
<1> SUFFICES ASSUME Parameters PROVE Spec => []StringsAreUnique
  OBVIOUS
<1> QED
  BY InvUnique, TableIsKept, PTL
=============================================================================
