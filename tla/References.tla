----------------------------- MODULE References -------------------------------
(* References to values kept in a table (luaL_ref and luaL_unref of        *)
(* lauxlib.c): the free references are a list threaded through their own   *)
(* slots, from index 0.  A value may be a number, and look like a link.    *)
EXTENDS Integers

CONSTANTS
    Object,         \* values that are not numbers
    Nil,
    MaxRef          \* bound on references, and on the numbers that are values

VARIABLES
    t,              \* [0 .. MaxRef + 1 -> value]
    refs            \* history: each reference given and not yet freed, with its value

vars == <<t, refs>>
-----------------------------------------------------------------------------
FREELIST_REF == 0
Value == Object \cup 1 .. MaxRef

\* lua_toint of an element.
Link(v) == IF v \in Nat THEN v ELSE 0

\* lua_objlen: a border, whichever the layout of the table makes luaH_getn find.
Borders == {n \in 0 .. MaxRef : (n = 0 \/ t[n] # Nil) /\ t[n + 1] = Nil}

LUA_REFNIL == 0 - 1

luaL_ref(v) ==
    LET free == Link(t[FREELIST_REF])
        gives(ref) == refs' = refs \cup {[ref |-> ref, value |-> v]}
    IN  \/ v = Nil /\ UNCHANGED t /\ gives(LUA_REFNIL)
        \/ /\ v # Nil /\ free # 0
           /\ t' = [t EXCEPT ![FREELIST_REF] = t[free], ![free] = v]
           /\ gives(free)
        \/ /\ v # Nil /\ free = 0
           /\ \E n \in Borders : n < MaxRef /\ t' = [t EXCEPT ![n + 1] = v] /\ gives(n + 1)

\* Mutant of Freed: the first free reference ends the list.
BadFreed(ref) ==
    IF Link(t[FREELIST_REF]) = 0 THEN [t EXCEPT ![FREELIST_REF] = ref]
    ELSE [t EXCEPT ![ref] = t[FREELIST_REF], ![FREELIST_REF] = ref]
\* luaL_unref: the reference becomes the first of the list.
Freed(ref) == [t EXCEPT ![ref] = t[FREELIST_REF], ![FREELIST_REF] = ref]

\* LUA_REFNIL is negative.
luaL_unref(ref) == t' = IF ref < 0 THEN t ELSE Freed(ref)

Init == t = [r \in 0 .. MaxRef + 1 |-> Nil] /\ refs = {}

Next == \/ \E v \in Value \cup {Nil} : luaL_ref(v)
        \/ \E r \in refs : luaL_unref(r.ref) /\ refs' = refs \ {r}

Spec == Init /\ [][Next]_vars
-----------------------------------------------------------------------------
TypeOK == /\ t \in [0 .. MaxRef + 1 -> Value \cup {Nil}]
          /\ refs \subseteq [ref : {LUA_REFNIL} \cup 1 .. MaxRef, value : Value \cup {Nil}]

\* A reference gives back its value until it is freed: no two are the same, in
\* whatever order they are freed and used again, and although the list leaves
\* holes in the table whose length the next new reference is taken from
\* (lauxlib.c:397, 401, 413).
ReferencesKeepValues == \A r \in refs : r.value = IF r.ref = LUA_REFNIL THEN Nil ELSE t[r.ref]
=============================================================================
