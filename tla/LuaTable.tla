------------------------------ MODULE LuaTable ------------------------------
(* The tables of ltable.c: an array part and a hash part of chained nodes  *)
(* with Brent's variation, rebuilt when no node is free; the traversal of  *)
(* luaH_next while fields are cleared and the collector kills keys; and    *)
(* the border luaH_getn finds.                                             *)
(*                                                                         *)
(* Positions count from 1; position 0 is the pointer NULL.  dummynode is   *)
(* one empty node that is never written.  A number key is the number.      *)
EXTENDS Integers, Sequences, FiniteSets, FiniteSetsExt, SequencesExt

CONSTANTS
    IntKey,         \* the integers used as keys
    StrKey,         \* keys hashed modulo a power of two (strings, booleans)
    ObjKey,         \* keys hashed modulo an odd number (tables, functions ...)
    Hash,           \* their hash values
    Val, Nil,
    LUA_INT_MAX,    \* the largest int
    MAXBITS,        \* 26: the array part has at most 2^MAXBITS slots
    MaxArray,       \* bound on the sizes asked for at creation and by SETLIST
    MaxHash

Key == IntKey \cup StrKey \cup ObjKey
Num == 1 .. 4 * LUA_INT_MAX

VARIABLES
    tab,    \* [array, node, dummy, lastfree, nested]
    trav,   \* [state, at, seen]: a traversal by next, the keys it has returned
    fields  \* what the program has stored: the map a table stands for

vars == <<tab, trav, fields>>
-----------------------------------------------------------------------------
FreeNode == [key |-> Nil, val |-> Nil, next |-> 0, dead |-> FALSE]

CeilLog2(n) == CHOOSE i \in 0 .. MAXBITS : n <= 2^i /\ (i = 0 \/ 2^(i - 1) < n)

SizeNode(t) == Len(t.node)

\* setnodevector: a power of two of free nodes, or dummynode.
NodeVector(t, size) ==
    LET n == IF size = 0 THEN 1 ELSE 2^CeilLog2(size) IN
    [t EXCEPT !.node = [i \in 1 .. n |-> FreeNode], !.dummy = (size = 0),
              !.lastfree = IF size = 0 THEN 1 ELSE n + 1]

NewTable(narray, nhash) ==
    NodeVector([array |-> [i \in 1 .. narray |-> Nil], node |-> <<>>, dummy |-> TRUE,
                lastfree |-> 1, nested |-> FALSE], nhash)

\* hashnum: the sum of the two halves of an IEEE double.  The low half of a
\* small integer is zero.
NumHash[n \in Num] == LET e == CHOOSE i \in 0 .. 20 : 2^i <= n /\ n < 2^(i + 1)
                      IN  (1023 + e) * 2^20 + (n - 2^e) * 2^(20 - e)

\* (size - 1) | 1 is size - 1, except for the size 1.
MainPosition(t, k) ==
    1 + IF k \in Num THEN NumHash[k] % Max({SizeNode(t) - 1, 1})
        ELSE IF k \in StrKey THEN Hash[k] % SizeNode(t)
        ELSE Hash[k] % Max({SizeNode(t) - 1, 1})

\* The nodes of the chain that starts at position n.
Chain(t, n) ==
    LET chain[p \in 0 .. SizeNode(t)] == IF p = 0 THEN <<>> ELSE <<p>> \o chain[t.node[p].next]
    IN  chain[n]

FirstOf(t, k, Match(_)) ==
    LET found == SelectSeq(Chain(t, MainPosition(t, k)), Match)
    IN  IF found = <<>> THEN 0 ELSE Head(found)

\* luaH_get and luaH_getnum: where the value of a key is, <<>> for luaO_nilobject.
Slot(t, k) ==
    IF k \in 1 .. Len(t.array) THEN <<"array", k>>
    ELSE LET n == FirstOf(t, k, LAMBDA p : t.node[p].key = k /\ ~t.node[p].dead)
         IN  IF n = 0 THEN <<>> ELSE <<"node", n>>

At(t, s) == CASE s = <<>> -> Nil
              [] s # <<>> /\ s[1] = "array" -> t.array[s[2]]
              [] s # <<>> /\ s[1] = "node" -> t.node[s[2]].val

Get(t, k) == At(t, Slot(t, k))

Put(t, s, v) == IF s[1] = "array" THEN [t EXCEPT !.array[s[2]] = v]
                ELSE [t EXCEPT !.node[s[2]].val = v]

\* getfreepos: lastfree goes down to the last node that never had a key, and
\* off the vector when there is none.
FreePos(t) == Max({0} \cup {p \in 1 .. t.lastfree - 1 : p <= SizeNode(t) /\ t.node[p].key = Nil})

\* Mutant of Chained: the chain of the moved node is not redone.
BadChained(t, mp, n, k) ==
    LET othern == MainPosition(t, t.node[mp].key)
        fresh(next) == [FreeNode EXCEPT !.key = k, !.next = next]
    IN  IF othern # mp
        THEN [t EXCEPT !.node[n] = t.node[mp], !.node[mp] = fresh(0)]
        ELSE [t EXCEPT !.node[n] = fresh(t.node[mp].next), !.node[mp].next = n]

\* The writes of newkey once it has its place; the value is written later.
Chained(t, mp, n, k) ==
    LET othern == MainPosition(t, t.node[mp].key)
        previous == CHOOSE p \in ToSet(Chain(t, othern)) : t.node[p].next = mp
        fresh(next) == [FreeNode EXCEPT !.key = k, !.next = next]
    IN  IF othern # mp
        THEN [t EXCEPT !.node[previous].next = n, !.node[n] = t.node[mp],
                       !.node[mp] = fresh(0)]
        ELSE [t EXCEPT !.node[n] = fresh(t.node[mp].next), !.node[mp].next = n]

\* newkey, short of rehash: the position of the key's node, 0 when no place is free.
NewKey(t, k) ==
    LET mp == MainPosition(t, k)
        n == FreePos(t)
        t1 == [t EXCEPT !.lastfree = n]
    IN  CASE t.node[mp].val = Nil /\ ~t.dummy ->
               [tab |-> [t EXCEPT !.node[mp].key = k, !.node[mp].dead = FALSE], ok |-> TRUE]
          [] (t.node[mp].val # Nil \/ t.dummy) /\ n = 0 -> [tab |-> t1, ok |-> FALSE]
          [] OTHER -> [tab |-> Chained(t1, mp, n, k), ok |-> TRUE]

\* luaH_set followed by the store, for a key that must fit.
Fit(t, k, v) ==
    IF Slot(t, k) # <<>> THEN Put(t, Slot(t, k), v)
    ELSE LET new == NewKey(t, k)
         IN  IF new.ok THEN Put(new.tab, Slot(new.tab, k), v)
             ELSE [t EXCEPT !.nested = TRUE]   \* a rehash inside a rehash
-----------------------------------------------------------------------------
(* rehash                                                                  *)

ArrayKeys(t) == {i \in 1 .. Len(t.array) : t.array[i] # Nil}
LiveNodes(t) == {p \in 1 .. SizeNode(t) : t.node[p].val # Nil}
HashKeys(t) == {t.node[p].key : p \in LiveNodes(t)}

\* computesizes: the largest 2^i more than half of whose slots would be used,
\* if a key lies in its upper half.
ArraySize(ints) ==
    LET upto(n) == Cardinality({k \in ints : k <= n})
        good == {i \in 0 .. MAXBITS :
                   /\ 2^i \div 2 < Cardinality(ints)
                   /\ upto(2^i) > (IF i = 0 THEN 0 ELSE upto(2^(i - 1)))
                   /\ upto(2^i) > 2^i \div 2}
    IN  IF good = {} THEN 0 ELSE 2^Max(good)

\* resize: the vanishing slice of the array goes in first, then the old
\* nodes from the last one down.
Resize(t, nasize, nhsize) ==
    LET old == Len(t.array)
        array == [i \in 1 .. nasize |-> IF i <= old THEN t.array[i] ELSE Nil]
        empty == NodeVector([t EXCEPT !.array = array], nhsize)
        slice == [i \in 1 .. Max({old - nasize, 0}) |->
                    [key |-> nasize + i, val |-> t.array[nasize + i]]]
        nodes == Reverse(t.node)
        live(s) == SelectSeq(s, LAMBDA n : n.val # Nil)
    IN  FoldLeft(LAMBDA new, n : Fit(new, n.key, n.val), empty, live(slice) \o live(nodes))

Rehash(t, k) ==
    LET keys == ArrayKeys(t) \cup HashKeys(t) \cup {k}
        ints == keys \cap Num
        size == ArraySize(ints)
        total == Cardinality(ArrayKeys(t)) + Cardinality(LiveNodes(t)) + 1
        na == Cardinality({i \in ints : i <= size})
    IN  Resize(t, size, total - na)

\* luaH_set and the store: a key without a place makes the table anew.
Assigned(t, k, v) ==
    IF Slot(t, k) # <<>> \/ NewKey(t, k).ok THEN Fit(t, k, v)
    ELSE Fit(Rehash(t, k), k, v)

\* luaH_resizearray keeps the size of the hash part.
ResizeArray(t, nasize) == Resize(t, nasize, IF t.dummy THEN 0 ELSE SizeNode(t))

\* OP_SETLIST: the last item first.
ItemsSet(t, n, v) ==
    LET room == IF n > Len(t.array) THEN ResizeArray(t, n) ELSE t
    IN  FoldLeft(LAMBDA new, k : Assigned(new, k, v), room, Reverse([i \in 1 .. n |-> i]))
-----------------------------------------------------------------------------
(* luaH_next                                                               *)

\* Mutant of FindIndex: a dead key is not recognised.
BadFindIndex(t, k) ==
    IF k = Nil THEN 0
    ELSE IF k \in 1 .. Len(t.array) THEN k
    ELSE LET n == FirstOf(t, k, LAMBDA p : t.node[p].key = k /\ ~t.node[p].dead)
         IN  IF n = 0 THEN -1 ELSE Len(t.array) + n

\* The index of a key for traversals, or "invalid" (invalid key to 'next').
\* The key of a node may be dead.
FindIndex(t, k) ==
    IF k = Nil THEN 0
    ELSE IF k \in 1 .. Len(t.array) THEN k
    ELSE LET n == FirstOf(t, k, LAMBDA p : t.node[p].key = k)
         IN  IF n = 0 THEN -1 ELSE Len(t.array) + n

Entry(t, i) == IF i <= Len(t.array) THEN [key |-> i, val |-> t.array[i]]
               ELSE LET n == t.node[i - Len(t.array)] IN [key |-> n.key, val |-> n.val]

\* The index luaH_next stops at, 0 when there are no more elements.
NextIndex(t, i) ==
    LET left == {j \in i + 1 .. Len(t.array) + SizeNode(t) : Entry(t, j).val # Nil}
    IN  IF left = {} THEN 0 ELSE Min(left)
-----------------------------------------------------------------------------
(* luaH_getn                                                               *)

\* The binary search between a present i (or 0) and an absent j.
Border(Present(_), i, j) ==
    LET search[lo, hi \in 0 .. 4 * LUA_INT_MAX] ==
          IF hi - lo <= 1 THEN lo
          ELSE LET m == (lo + hi) \div 2
               IN  IF Present(m) THEN search[m, hi] ELSE search[lo, m]
    IN  search[i, j]

UnboundSearch(t, j0) ==
    LET present(k) == Get(t, k) # Nil
        linear[i \in Num] == IF present(i) THEN linear[i + 1] ELSE i - 1
        up[i, j \in 0 .. 4 * LUA_INT_MAX] ==
          IF ~present(j) THEN Border(present, i, j)
          ELSE IF 2 * j > LUA_INT_MAX THEN linear[1]
          ELSE up[j, 2 * j]
    IN  up[j0, j0 + 1]

\* Mutant of GetN: a nil at the end of the array part is not looked for.
BadGetN(t) == IF t.dummy THEN Len(t.array) ELSE UnboundSearch(t, Len(t.array))

GetN(t) ==
    LET j == Len(t.array) IN
    IF j > 0 /\ t.array[j] = Nil THEN Border(LAMBDA m : t.array[m] # Nil, 0, j)
    ELSE IF t.dummy THEN j
    ELSE UnboundSearch(t, j)
-----------------------------------------------------------------------------
NoTraversal == [state |-> "off", at |-> Nil, seen |-> {}]

Init ==
    /\ tab = NewTable(0, 0)
    /\ trav = NoTraversal
    /\ fields = [k \in Key |-> Nil]

\* luaH_new, in place of a table that has nothing left in it.
Create(narray, nhash) ==
    /\ trav.state = "off"
    /\ \A k \in Key : fields[k] = Nil
    /\ tab' = NewTable(narray, nhash)
    /\ UNCHANGED <<trav, fields>>

\* Storing nil in a field that does not exist makes a node for it.  A
\* traversal allows stores to the fields that exist.
Set(k, v) ==
    /\ trav.state # "off" => fields[k] # Nil
    /\ tab' = Assigned(tab, k, v)
    /\ fields' = [fields EXCEPT ![k] = v]
    /\ UNCHANGED trav

SetList(n, v) ==
    /\ trav.state = "off"
    /\ tab' = ItemsSet(tab, n, v)
    /\ fields' = [k \in Key |-> IF k \in Num /\ k <= n THEN v ELSE fields[k]]
    /\ UNCHANGED trav

\* The collector marks a table: the keys of its empty nodes die.
KillKeys ==
    /\ \E p \in 1 .. SizeNode(tab) : tab.node[p].val = Nil /\ tab.node[p].key \in StrKey \cup ObjKey
    /\ tab' = [tab EXCEPT !.node = [p \in DOMAIN @ |->
                 [@[p] EXCEPT !.dead = @ \/ (tab.node[p].val = Nil
                                             /\ tab.node[p].key \in StrKey \cup ObjKey)]]]
    /\ UNCHANGED <<trav, fields>>

StartTraversal ==
    /\ trav.state = "off"
    /\ trav' = [NoTraversal EXCEPT !.state = "on"]
    /\ UNCHANGED <<tab, fields>>

Step ==
    /\ trav.state = "on"
    /\ LET i == FindIndex(tab, trav.at)
           j == NextIndex(tab, i)
           k == Entry(tab, j).key
       IN  trav' = CASE i < 0 -> [trav EXCEPT !.state = "error"]
                     [] i >= 0 /\ j = 0 -> [trav EXCEPT !.state = "done"]
                     [] OTHER -> [state |-> IF k \in trav.seen THEN "repeated" ELSE "on",
                                  at |-> k, seen |-> trav.seen \cup {k}]
    /\ UNCHANGED <<tab, fields>>

EndTraversal ==
    /\ trav.state # "off"
    /\ trav' = NoTraversal
    /\ UNCHANGED <<tab, fields>>

Next ==
    \/ \E na \in 0 .. MaxArray, nh \in 0 .. MaxHash : Create(na, nh)
    \/ \E k \in Key, v \in Val \cup {Nil} : Set(k, v)
    \/ \E n \in 1 .. MaxArray, v \in Val : SetList(n, v)
    \/ KillKeys
    \/ StartTraversal \/ Step \/ EndTraversal

Spec == Init /\ [][Next]_vars
-----------------------------------------------------------------------------
TypeOK ==
    /\ \A i \in DOMAIN tab.array : tab.array[i] \in Val \cup {Nil}
    /\ \E i \in 0 .. MAXBITS : SizeNode(tab) = 2^i
    /\ \A p \in DOMAIN tab.node :
         tab.node[p] \in [key : Key \cup {Nil}, val : Val \cup {Nil},
                          next : 0 .. SizeNode(tab), dead : BOOLEAN]
    /\ tab.dummy => tab.node = <<FreeNode>>
    /\ tab.lastfree \in 0 .. SizeNode(tab) + 1
    /\ trav.state \in {"off", "on", "done", "error", "repeated"}

\* A table is a map for those who use it: moving colliding nodes, rehashing,
\* constructors and dead keys change no other field, every field is found from
\* its main position, and the sizes rehash computes leave room for every
\* element, so that re-inserting them never rehashes again (ltable.c:283, 385).
IsAMap == \A k \in Key : Get(tab, k) = fields[k]

\* A traversal during which fields are cleared and overwritten and the
\* collector runs never stops with "invalid key to 'next'", returns no key
\* twice, and has returned every field left when it ends (ltable.c:151).
TraversalIsExact ==
    /\ trav.state \notin {"error", "repeated"}
    /\ trav.state = "done" => \A k \in Key : fields[k] # Nil => k \in trav.seen

\* luaH_getn returns a border: a present index (or 0) before an absent one,
\* whichever part of the table either lies in (ltable.c:556).
LengthIsABorder ==
    LET stored(k) == k \in IntKey /\ fields[k] # Nil
        n == GetN(tab)
    IN  (n = 0 \/ stored(n)) /\ ~stored(n + 1)
=============================================================================
