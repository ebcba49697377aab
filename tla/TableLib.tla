------------------------------ MODULE TableLib -------------------------------
(* The table library (ltablib.c): the edits of a sequence, and the         *)
(* quicksort of table.sort, one comparison a step.  The comparison may     *)
(* raise an error, which ends the sort where it is.                        *)
EXTENDS Integers, Sequences, SequencesExt, FiniteSets

CONSTANTS
    Val,        \* the elements: numbers, compared as such; 0 is nil
    MaxLength,  \* bound on a sequence
    LUA_INT_MAX,    \* the largest int
    LUA_MINSTACK    \* the slots a C function has behind its arguments

Index == 0 .. MaxLength + 2
nil == 0
ERROR == <<-1>>         \* results that are no elements
SORTING == <<-2>>
SORTED == <<-3>>
INVALID == <<-4>>       \* "invalid order function for sorting"
UNDEFINED == <<-5>>     \* C says nothing of what the call does

VARIABLES
    t,          \* [Index -> Val \cup {nil}]
    last,       \* the call: its name, its arguments, the sequence it was given
    result,     \* what it returned
    sort        \* auxsort: [pc, l, u, i, j, P, calls], calls: the ranges left

vars == <<t, last, result, sort>>

\* aux_getn of a sequence, which has one border.
getn(a) == CHOOSE n \in 0 .. MaxLength + 1 : a[n + 1] = nil /\ \A k \in 1 .. n : a[k] # nil
IsSequence(a) == a[0] = nil /\ \A k \in Index : k > getn(a) => a[k] = nil
Elements(a) == [k \in 1 .. getn(a) |-> a[k]]
TableOf(s) == [k \in Index |-> IF k \in DOMAIN s THEN s[k] ELSE nil]
-----------------------------------------------------------------------------
Idle == sort.pc = "idle"
\* One call: every sequence is an initial state.
MayCall == Idle /\ last.name = "none"
Called(name, args) == last' = [name |-> name, args |-> args, given |-> Elements(t)]

table_insert(pos, v) ==
    LET e == getn(t) + 1
        top == IF pos > e THEN pos ELSE e
    IN  /\ t' = [k \in Index |-> IF pos < k /\ k <= top THEN t[k - 1] ELSE IF k = pos THEN v ELSE t[k]]
        /\ Called("insert", <<pos, v>>) /\ result' = <<>>

\* The last element stays where it was.
BadRemoved(pos, e) == [k \in Index |-> IF pos <= k /\ k < e THEN t[k + 1] ELSE t[k]]
Removed(pos, e) == [k \in Index |-> IF pos <= k /\ k < e THEN t[k + 1] ELSE IF k = e THEN nil ELSE t[k]]

table_remove(pos) ==
    LET e == getn(t) IN
    /\ Called("remove", <<pos>>)
    /\ IF pos \in 1 .. e THEN t' = Removed(pos, e) /\ result' = <<t[pos]>>
       ELSE result' = <<>> /\ UNCHANGED t

\* What an int may hold that n is assigned to: it may wrap around.
AsInt(n) == {n, IF n > LUA_INT_MAX THEN n - 2 * (LUA_INT_MAX + 1) ELSE n}

\* One pass: t[dsti] = t[dsti + count], each read before it is written.  The
\* elements taken and the one that moves are on the stack, which is not made
\* larger: the slots of two arguments and LUA_MINSTACK more are free for sure.
table_removemulti(index, count) ==
    LET length == getn(t)
        sum == index + count - 1
    IN  /\ Called("removemulti", <<index, count>>)
        /\ IF length = 0 THEN result' = <<>> /\ UNCHANGED t
           ELSE IF index <= 0 \/ count < 0 THEN result' = ERROR /\ UNCHANGED t
           ELSE \E end \in AsInt(sum) :
                  IF end > length THEN result' = ERROR /\ UNCHANGED t
                  ELSE /\ t' = [k \in Index |-> IF index <= k /\ k <= length
                                               THEN IF k + count <= length THEN t[k + count] ELSE nil
                                               ELSE t[k]]
                       /\ \/ end = sum /\ result' = [n \in 1 .. count |-> t[index + n - 1]]
                          \/ /\ end # sum \/ count + 1 > LUA_MINSTACK + 2
                             /\ result' = UNDEFINED

\* next reaches every field while they are cleared (LuaTable, TraversalIsExact).
table_wipe == /\ t' = TableOf(<<>>) /\ result' = <<>> /\ Called("wipe", <<>>)

table_concat(i, j) ==
    LET some == {k \in i .. j : t[k] = nil} IN
    /\ Called("concat", <<i, j>>)
    /\ result' = IF some # {} THEN ERROR ELSE [n \in 1 .. j - i + 1 |-> t[i + n - 1]]
    /\ UNCHANGED t

Positions == 0 .. MaxLength + 1 \cup {LUA_INT_MAX}
Counts == -1 .. MaxLength \cup {LUA_INT_MAX}

Edit ==
    /\ MayCall
    /\ \/ \E pos \in 1 .. MaxLength + 1, v \in Val : getn(t) < MaxLength /\ table_insert(pos, v)
       \/ \E pos \in 0 .. MaxLength + 1 : table_remove(pos)
       \/ \E index \in Positions, count \in Counts : table_removemulti(index, count)
       \/ table_wipe
       \/ \E i \in 1 .. MaxLength, j \in 0 .. MaxLength : table_concat(i, j)
    /\ UNCHANGED sort
-----------------------------------------------------------------------------
\* Where auxsort goes on with a range: nowhere when it is empty.
Range1(l, u, calls) == [sort EXCEPT !.pc = IF l < u THEN "ends" ELSE "next", !.l = l, !.u = u,
                                    !.calls = calls]

table_sort ==
    /\ MayCall
    /\ sort' = Range1(1, getn(t), <<>>)
    /\ Called("sort", <<>>) /\ result' = SORTING
    /\ UNCHANGED t

\* One element is written, the other stays on the stack.
BadSwapped(i, j) == [t EXCEPT ![i] = t[j]]
\* set2: the two elements trade places.
Swapped(i, j) == [t EXCEPT ![i] = t[j], ![j] = t[i]]
Goes(pc) == sort' = [sort EXCEPT !.pc = pc]

\* a[u] < a[l]?
SortEnds ==
    LET l == sort.l
        u == sort.u
    IN  /\ sort.pc = "ends"
        /\ t' = IF t[u] < t[l] THEN Swapped(l, u) ELSE t
        /\ sort' = [sort EXCEPT !.pc = IF u - l = 1 THEN "next" ELSE "middle", !.i = (l + u) \div 2]
        /\ UNCHANGED <<last, result>>

\* The middle element becomes the pivot and waits at u - 1.
Pivoted(a) == LET i == sort.i
                  u == sort.u
              IN  IF u - sort.l = 2
                  THEN t' = a /\ Goes("next")
                  ELSE /\ t' = [a EXCEPT ![i] = a[u - 1], ![u - 1] = a[i]]
                       /\ sort' = [sort EXCEPT !.pc = "up", !.P = a[i], !.i = sort.l, !.j = u - 1]

\* a[i] < a[l]?
SortMiddle ==
    /\ sort.pc = "middle"
    /\ IF t[sort.i] < t[sort.l] THEN Pivoted(Swapped(sort.i, sort.l)) ELSE Goes("upper") /\ UNCHANGED t
    /\ UNCHANGED <<last, result>>

\* a[u] < a[i]?
SortUpper ==
    /\ sort.pc = "upper"
    /\ Pivoted(IF t[sort.u] < t[sort.i] THEN Swapped(sort.i, sort.u) ELSE t)
    /\ UNCHANGED <<last, result>>

\* a[++i] < P?
SortUp ==
    /\ sort.pc = "up"
    /\ LET i == sort.i + 1
           less == t[i] < sort.P
       IN  /\ sort' = [sort EXCEPT !.i = i, !.pc = IF less THEN IF i > sort.u THEN "idle" ELSE "up" ELSE "down"]
           /\ result' = IF less /\ i > sort.u THEN INVALID ELSE result
    /\ UNCHANGED <<t, last>>

\* The smaller part is sorted first, the larger one after it.  (The other form
\* leaves out the element before the pivot.)
BadParts(l, i, u) == IF i - l < u - i THEN <<l, i - 1, i + 1, u>> ELSE <<i + 1, u, l, i - 2>>
Parts(l, i, u) == IF i - l < u - i THEN <<l, i - 1, i + 1, u>> ELSE <<i + 1, u, l, i - 1>>

\* P < a[--j]?
SortDown ==
    LET i == sort.i
        j == sort.j - 1
        u == sort.u
        p == Parts(sort.l, i, u)
    IN  /\ sort.pc = "down"
        /\ IF sort.P < t[j]
           THEN /\ sort' = [sort EXCEPT !.j = j, !.pc = IF j < sort.l THEN "idle" ELSE "down"]
                /\ result' = IF j < sort.l THEN INVALID ELSE result
                /\ UNCHANGED t
           ELSE /\ UNCHANGED result
                /\ IF j < i
                   THEN /\ t' = Swapped(u - 1, i)
                        /\ sort' = Range1(p[1], p[2], Append(sort.calls, <<p[3], p[4]>>))
                   ELSE t' = Swapped(i, j) /\ sort' = [sort EXCEPT !.j = j, !.pc = "up"]
        /\ UNCHANGED last

SortNext ==
    /\ sort.pc = "next"
    /\ IF sort.calls = <<>>
       THEN Goes("idle") /\ result' = SORTED
       ELSE /\ sort' = Range1(Last(sort.calls)[1], Last(sort.calls)[2], Front(sort.calls))
            /\ UNCHANGED result
    /\ UNCHANGED <<t, last>>

\* The order function raises an error.
SortError ==
    /\ sort.pc \in {"ends", "middle", "upper", "up", "down"}
    /\ sort' = [sort EXCEPT !.pc = "idle", !.calls = <<>>]
    /\ result' = ERROR
    /\ UNCHANGED <<t, last>>

Init == /\ \E n \in 0 .. MaxLength : \E s \in [1 .. n -> Val] : t = TableOf(s)
        /\ last = [name |-> "none", args |-> <<>>, given |-> <<>>] /\ result = <<>>
        /\ sort = [pc |-> "idle", l |-> 1, u |-> 0, i |-> 0, j |-> 0, P |-> nil, calls |-> <<>>]

Next == Edit \/ table_sort \/ SortEnds \/ SortMiddle \/ SortUpper \/ SortUp \/ SortDown
        \/ SortNext \/ SortError
Spec == Init /\ [][Next]_vars
-----------------------------------------------------------------------------
\* insert, remove and removemulti move every other element by the right
\* distance and leave a sequence, at both ends, for a count of zero and for
\* positions outside (ltablib.c:77, 105, 282).  removemulti does so when the last
\* position fits an int and the elements the stack, and whenever it comes to
\* a result (ltablib.c:291, 302).
EditsKeepOrder ==
    LET s == last.given
        n == Len(s)
        a == last.args
        Without(from, count) == SubSeq(s, 1, from - 1) \o SubSeq(s, from + count, n)
    IN  Idle =>
        CASE last.name = "insert" /\ a[1] <= n + 1 -> t = TableOf(InsertAt(s, a[1], a[2]))
          [] last.name = "remove" ->
               t = TableOf(IF a[1] \in 1 .. n THEN RemoveAt(s, a[1]) ELSE s)
          [] last.name = "removemulti" ->
               /\ a[1] + a[2] - 1 <= LUA_INT_MAX /\ a[2] <= LUA_MINSTACK + 1 => result # UNDEFINED
               /\ result # UNDEFINED =>
                    /\ t = TableOf(IF result = ERROR \/ n = 0 THEN s ELSE Without(a[1], a[2]))
                    /\ result # ERROR /\ n > 0 => result = SubSeq(s, a[1], a[1] + a[2] - 1)
          [] OTHER -> TRUE

\* Whenever the order function is called, and so wherever it raises an error,
\* the table holds the elements it was given: none is only on the stack
\* (ltablib.c:177).
SortKeepsElements ==
    last.name = "sort" =>
        /\ IsSequence(t) /\ getn(t) = Len(last.given)
        /\ \A v \in Val : Cardinality({k \in Index : t[k] = v})
                        = Cardinality({k \in DOMAIN last.given : last.given[k] = v})

\* When the sort ends the elements are in order, and an order is never called
\* invalid: the elements the two inner loops stop at are there in every range
\* the recursion leaves (ltablib.c:215).
SortSorts ==
    /\ result # INVALID
    /\ result = SORTED => \A k \in 1 .. getn(t) - 1 : t[k] <= t[k + 1]
=============================================================================
