------------------------------- MODULE Pattern -------------------------------
(* The pattern matching of lstrlib.c: the backtracking matcher with its    *)
(* captures, and find, match, gmatch and gsub on top of it.                *)
(*                                                                         *)
(* A pattern is a sequence of items, a single character class the set of   *)
(* the characters in it.  Positions count from 1; a match ends before e.   *)
(* The replacement given to gsub is "%0" or a function that returns nil:   *)
(* both put a match back as it is, the latter is called with its captures. *)
EXTENDS Integers, Sequences, SequencesExt, FiniteSets

CONSTANTS
    Subject,            \* the strings searched
    Item,               \* [k, set, rep, n]; n: the character, or that of a capture;
                        \* of %bxy the set is {x} and n is y
    MaxItems,           \* bound on a pattern
    LUA_MAXCAPTURES

VARIABLES
    subject, pattern,
    call,       \* the function called and its options
    result      \* what it returned

vars == <<subject, pattern, call, result>>

NULL == 0
ERROR == -1
CAP_UNFINISHED == -1
CAP_POSITION == -2
End == Len(subject) + 1     \* src_end

\* A match: where it ends, NULL or ERROR, and the captures of ms.
To(e, caps) == [e |-> e, caps |-> caps]
-----------------------------------------------------------------------------
singlematch(i, it) == i < End /\ subject[i] \in it.set

\* The frontier reads '\0' before and behind the string: it is in no class.
frontier(i, it) == /\ ~(i > 1 /\ subject[i - 1] \in it.set)
                   /\ i < End /\ subject[i] \in it.set

\* %bxy: the end of the balanced string at i.  Past its first character a y
\* closes, also when it is an x.
matchbalance(i, it) ==
    LET Opens(j) == 1 + Cardinality({n \in i + 1 .. j : subject[n] \in it.set \ {it.n}})
        Closes(j) == Cardinality({n \in i + 1 .. j : subject[n] = it.n})
        ends == {j \in i + 1 .. End - 1 : Opens(j) = Closes(j)}
    IN  IF ~singlematch(i, it) \/ ends = {} THEN NULL
        ELSE 1 + CHOOSE j \in ends : \A m \in ends : j <= m

Unfinished(caps) == {l \in DOMAIN caps : caps[l].len = CAP_UNFINISHED}
capture_to_close(caps) == CHOOSE l \in Unfinished(caps) : \A m \in Unfinished(caps) : m <= l
check_capture(caps, l) == l \in DOMAIN caps /\ caps[l].len # CAP_UNFINISHED

\* The end of a copy of capture l at i.  The length of a position capture,
\* read without a sign, is longer than any string.
match_capture(caps, i, l) ==
    LET len == caps[l].len IN
    IF len >= 0 /\ End - i >= len
       /\ \A n \in 0 .. len - 1 : subject[i + n] = subject[caps[l].init + n]
    THEN i + len ELSE NULL

RECURSIVE match(_, _, _), longest(_, _, _, _), min_expand(_, _, _)

start_capture(caps, i, j, what) ==
    LET r == match(Append(caps, [init |-> i, len |-> what]), i, j) IN
    IF Len(caps) >= LUA_MAXCAPTURES THEN To(ERROR, caps)
    ELSE IF r.e = NULL THEN To(NULL, Front(r.caps)) ELSE r

\* The capture stays closed when what follows does not match.
BadUndo(r, l) == r
Undo(r, l) == IF r.e = NULL THEN [r EXCEPT !.caps[l].len = CAP_UNFINISHED] ELSE r

end_capture(caps, i, j) ==
    LET l == capture_to_close(caps) IN
    IF Unfinished(caps) = {} THEN To(ERROR, caps)
    ELSE Undo(match([caps EXCEPT ![l].len = i - caps[l].init], i, j), l)

max_expand(caps, i, j) ==
    LET run == {n \in 0 .. End - i : \A m \in 0 .. n - 1 : singlematch(i + m, pattern[j])}
    IN  longest(caps, i, j, Cardinality(run) - 1)

longest(caps, i, j, n) ==
    LET r == match(caps, i + n, j + 1)
    IN  IF r.e # NULL \/ n = 0 THEN r ELSE longest(r.caps, i, j, n - 1)

min_expand(caps, i, j) ==
    LET r == match(caps, i, j + 1)
    IN  IF r.e # NULL THEN r
        ELSE IF singlematch(i, pattern[j]) THEN min_expand(r.caps, i + 1, j) ELSE r

\* Goes on with the next item, unless the item ended nowhere.
Onward(caps, e, j) == IF e = NULL THEN To(NULL, caps) ELSE match(caps, e, j + 1)

match(caps, i, j) ==
    LET it == pattern[j]
        m == singlematch(i, it)
        optional == match(caps, i + 1, j + 1)
    IN  CASE j > Len(pattern) -> To(i, caps)
          [] j <= Len(pattern) /\ it.k = "(" -> start_capture(caps, i, j + 1, CAP_UNFINISHED)
          [] j <= Len(pattern) /\ it.k = "()" -> start_capture(caps, i, j + 1, CAP_POSITION)
          [] j <= Len(pattern) /\ it.k = ")" -> end_capture(caps, i, j + 1)
          [] j <= Len(pattern) /\ it.k = "%b" -> Onward(caps, matchbalance(i, it), j)
          [] j <= Len(pattern) /\ it.k = "%f" -> Onward(caps, IF frontier(i, it) THEN i ELSE NULL, j)
          [] j <= Len(pattern) /\ it.k = "%1" ->
               IF check_capture(caps, it.n) THEN Onward(caps, match_capture(caps, i, it.n), j)
               ELSE To(ERROR, caps)
          [] j <= Len(pattern) /\ it.k = "$" ->
               To(IF j = Len(pattern) /\ i = End THEN i ELSE NULL, caps)
          [] j <= Len(pattern) /\ it.k = "single" ->
               CASE it.rep = "?" -> IF m /\ optional.e # NULL THEN optional
                                    ELSE match(IF m THEN optional.caps ELSE caps, i, j + 1)
                 [] it.rep = "*" -> max_expand(caps, i, j)
                 [] it.rep = "+" -> IF m THEN max_expand(caps, i + 1, j) ELSE To(NULL, caps)
                 [] it.rep = "-" -> min_expand(caps, i, j)
                 [] it.rep = "" -> Onward(caps, IF m THEN i + 1 ELSE NULL, j)
-----------------------------------------------------------------------------
\* What a call returns is a sequence of values; that it raises an error is one, too.
Number(n) == <<"number", n>>
Failed == << <<"nil">> >>
Raised == << <<"error">> >>

\* The captures, or the whole match when there are none and s is not NULL.
push_captures(caps, s, e) ==
    LET One(c) == IF c.len = CAP_POSITION THEN Number(c.init)
                  ELSE <<"string", SubSeq(subject, c.init, c.init + c.len - 1)>>
    IN  IF Unfinished(caps) # {} THEN Raised
        ELSE IF caps = <<>> /\ s # NULL THEN << <<"string", SubSeq(subject, s, e - 1)>> >>
        ELSE [l \in DOMAIN caps |-> One(caps[l])]

\* Tries to match at s1, s1 + 1, ...: the first that is no failure.
RECURSIVE search(_, _)
search(s1, anchor) ==
    LET r == match(<<>>, s1, 1)
    IN  IF r.e # NULL \/ s1 >= End \/ anchor THEN [s |-> s1, e |-> r.e, caps |-> r.caps]
        ELSE search(s1 + 1, anchor)

str_find_aux(find, init, anchor) ==
    LET r == search(init, anchor)
        values == IF r.e = ERROR THEN Raised
                  ELSE push_captures(r.caps, IF find THEN NULL ELSE r.s, r.e)
    IN  IF r.e = NULL THEN Failed
        ELSE IF find /\ values # Raised THEN <<Number(r.s), Number(r.e - 1)>> \o values
        ELSE values

\* A plain search: the end of the range shrinks with every first character tried.
RECURSIVE lmemfind(_, _, _)
lmemfind(from, l1, s2) ==
    LET l2 == Len(s2) - 1
        here == {n \in from .. from + l1 - l2 - 1 : subject[n] = s2[1]}
        first == CHOOSE n \in here : \A m \in here : n <= m
    IN  IF s2 = <<>> THEN from
        ELSE IF Len(s2) > l1 \/ here = {} THEN NULL
        ELSE IF SubSeq(subject, first, first + l2) = s2 THEN first
        ELSE lmemfind(first + 1, l1 - (first + 1 - from), s2)

plainfind(init, s2) ==
    LET at == lmemfind(init, End - init, s2)
    IN  IF at = NULL THEN Failed ELSE <<Number(at), Number(at + Len(s2) - 1)>>

\* What the iterator returns, called until it returns nothing or raises.
RECURSIVE gmatch_aux(_)
gmatch_aux(start) ==
    LET r == search(start, FALSE)
        values == IF r.e = ERROR THEN Raised ELSE push_captures(r.caps, r.s, r.e)
    IN  IF start > End \/ r.e = NULL THEN <<>>
        ELSE IF values = Raised THEN <<Raised>>
        ELSE <<values>> \o gmatch_aux(IF r.e = r.s THEN r.e + 1 ELSE r.e)

\* add_value: what the function is called with.  "%0" reads no capture.
add_value(repl, caps, s, e) ==
    IF repl = "function" THEN push_captures(caps, s, e) ELSE <<>>

\* g: [src, n, out, given]; every match is added to out as it is, <<from, end>>,
\* and the arguments of the function to given.
\* Mutant of StopsGsub: the loop ends at the last character.
BadStopsGsub(g, e) == e <= g.src /\ g.src >= End - 1
StopsGsub(g, e) == e <= g.src /\ g.src >= End

RECURSIVE str_gsub(_, _, _, _)
str_gsub(g, max_s, anchor, repl) ==
    LET r == match(<<>>, g.src, 1)
        hit == r.e # NULL
        values == IF r.e = ERROR THEN Raised ELSE add_value(repl, r.caps, g.src, r.e)
        added == IF hit THEN [g EXCEPT !.n = @ + 1, !.out = Append(@, <<g.src, r.e>>),
                                       !.given = Append(@, values)]
                 ELSE g
        moved == IF hit /\ r.e > g.src THEN [added EXCEPT !.src = r.e]
                 ELSE [added EXCEPT !.src = @ + 1, !.out = Append(@, <<g.src>>)]
    IN  IF g.n >= max_s THEN g
        ELSE IF hit /\ values = Raised THEN [g EXCEPT !.n = ERROR, !.given = Append(@, Raised)]
        ELSE IF StopsGsub(g, r.e) THEN added
        ELSE IF anchor THEN moved ELSE str_gsub(moved, max_s, anchor, repl)

\* Whether str_find sees none of the SPECIALS, ")" being none.
NoSpecials == \A j \in DOMAIN pattern :
    LET it == pattern[j]
    IN  it.k = ")" \/ (it.k = "single" /\ it.rep = "" /\ it.n \in it.set)

str_find(find, init, anchor) ==
    IF find /\ ~anchor /\ NoSpecials
    THEN plainfind(init, [j \in DOMAIN pattern |-> pattern[j].n])
    ELSE str_find_aux(find, init, anchor)

\* Captures are closed inside out, not more than the limit, and used when closed.
Read ==
    LET Fits(c, it) == CASE it.k = ")" -> Unfinished(c) # {}
                         [] it.k = "%1" -> check_capture(c, it.n)
                         [] OTHER -> TRUE
        Open(c, it) == CASE it.k \in {"(", "()"} -> Append(c, [len |-> IF it.k = "(" THEN CAP_UNFINISHED ELSE CAP_POSITION])
                         [] it.k = ")" -> [c EXCEPT ![capture_to_close(c)].len = 1]
                         [] OTHER -> c
        Step(r, it) == IF r.ok /\ Fits(r.caps, it) THEN [r EXCEPT !.caps = Open(@, it)] ELSE [r EXCEPT !.ok = FALSE]
    IN  FoldLeft(Step, [ok |-> TRUE, caps |-> <<>>], pattern)
WellFormed == Read.ok /\ Unfinished(Read.caps) = {} /\ Len(Read.caps) <= LUA_MAXCAPTURES
-----------------------------------------------------------------------------
Init == subject \in Subject /\ pattern = <<>> /\ call = <<"none">> /\ result = <<>>

\* A pattern with a capture out of place is not made longer.
Write == /\ call = <<"none">> /\ Len(pattern) < MaxItems /\ Read.ok
         /\ \E it \in Item : pattern' = Append(pattern, it)
         /\ UNCHANGED <<subject, call, result>>

Find == /\ call = <<"none">>
        /\ \E find, anchor \in BOOLEAN, init \in {1, 2} :
             /\ init <= End
             /\ call' = <<"find", find, init, anchor>>
             /\ result' = str_find(find, init, anchor)
        /\ UNCHANGED <<subject, pattern>>

Gmatch == /\ call = <<"none">>
          /\ call' = <<"gmatch">> /\ result' = gmatch_aux(1)
          /\ UNCHANGED <<subject, pattern>>

Gsub == /\ call = <<"none">>
        /\ \E anchor \in BOOLEAN, max_s \in {1, End}, repl \in {"%0", "function"} :
             /\ call' = <<"gsub", anchor, max_s, repl>>
             /\ result' = str_gsub([src |-> 1, n |-> 0, out |-> <<>>, given |-> <<>>],
                                   max_s, anchor, repl)
        /\ UNCHANGED <<subject, pattern>>

Next == Write \/ Find \/ Gmatch \/ Gsub
Spec == Init /\ [][Next]_vars
-----------------------------------------------------------------------------
\* A balanced string is an x, characters other than x and y and balanced
\* strings in any order, and a y: where the y is that ends what begins at i.
RECURSIVE Closing(_, _)
Closing(i, it) ==
    LET inner == Closing(i + 1, it) IN
    IF i >= End THEN NULL
    ELSE IF subject[i] = it.n THEN i
    ELSE IF subject[i] \notin it.set THEN inner
    ELSE IF inner = NULL THEN NULL ELSE Closing(inner + 1, it)
Balanced(i, it) ==
    LET y == Closing(i + 1, it)
    IN  IF i < End /\ subject[i] \in it.set /\ y # NULL THEN y + 1 ELSE NULL

\* The reference: all the ways to match, in the order the manual prefers
\* them, each with where it ends and its captures.
RECURSIVE Ways(_, _, _)
Ways(i, j, caps) ==
    LET it == pattern[j]
        fits(n) == i + n <= End /\ \A m \in 0 .. n - 1 : subject[i + m] \in it.set
        up == SelectSeq([n \in 1 .. Len(subject) + 1 |-> n - 1], fits)
        counts == CASE it.rep = "*" -> Reverse(up)
                    [] it.rep = "+" -> Reverse(Tail(up))
                    [] it.rep = "-" -> up
                    [] it.rep = "?" -> Reverse(SelectSeq(up, LAMBDA n : n <= 1))
                    [] it.rep = "" -> SelectSeq(up, LAMBDA n : n = 1)
        l == capture_to_close(caps)
        e == CASE it.k = "%b" -> Balanced(i, it)
               [] it.k = "%f" -> IF frontier(i, it) THEN i ELSE NULL
               [] it.k = "%1" -> match_capture(caps, i, it.n)
               [] it.k = "$" -> IF j = Len(pattern) /\ i = End THEN i ELSE NULL
    IN  IF j > Len(pattern) THEN <<To(i, caps)>>
        ELSE IF it.k = "single" THEN FlattenSeq([n \in DOMAIN counts |-> Ways(i + counts[n], j + 1, caps)])
        ELSE IF it.k = "(" THEN Ways(i, j + 1, Append(caps, [init |-> i, len |-> CAP_UNFINISHED]))
        ELSE IF it.k = "()" THEN Ways(i, j + 1, Append(caps, [init |-> i, len |-> CAP_POSITION]))
        ELSE IF it.k = ")" THEN Ways(i, j + 1, [caps EXCEPT ![l].len = i - caps[l].init])
        ELSE IF e = NULL THEN <<>> ELSE Ways(e, j + 1, caps)

\* find and match return the first match in the manual's order of preference
\* and its captures: backtracking leaves nothing of the ways it gave up, a
\* pattern without an error raises none, and the plain search of find agrees
\* with the matcher (lstrlib.c:365, 380, 497, 549).
FindsFirstMatch ==
    call[1] = "find" /\ WellFormed =>
      LET from == call[3]
          starts == {s \in from .. IF call[4] THEN from ELSE End : Ways(s, 1, <<>>) # <<>>}
          s == CHOOSE x \in starts : \A y \in starts : x <= y
          w == Ways(s, 1, <<>>)[1]
      IN  result = IF starts = {} THEN Failed
                   ELSE IF call[2] THEN <<Number(s), Number(w.e - 1)>> \o push_captures(w.caps, NULL, 0)
                   ELSE push_captures(w.caps, s, w.e)

\* gsub with every match put back as it is returns the subject.  Without an
\* anchor or a limit it calls the function with what gmatch returns, match by
\* match: empty matches are neither lost nor repeated by either loop, both end
\* at the same error, and a capture left open is one (lstrlib.c:528, 602, 708).
GsubVisitsGmatch ==
    call[1] = "gsub" =>
      LET Piece(o) == IF Len(o) = 1 THEN <<subject[o[1]]>> ELSE SubSeq(subject, o[1], o[2] - 1)
          hits == SelectSeq(result.out, LAMBDA o : Len(o) = 2)
      IN  /\ result.n # ERROR =>
               /\ FlattenSeq([n \in DOMAIN result.out |-> Piece(result.out[n])])
                    \o SubSeq(subject, result.src, End - 1) = subject
               /\ result.n = Len(hits)
          /\ ~call[2] /\ call[3] = End /\ call[4] = "function" => result.given = gmatch_aux(1)
=============================================================================
