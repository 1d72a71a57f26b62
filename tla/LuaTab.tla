-------------------------------- MODULE LuaTab --------------------------------
(***************************************************************************)
(* Tables (src/src/lj_tab.c): an array part for small integers, and a hash *)
(* part of chained scatter nodes with Brent's variation, whose dead keys   *)
(* stay where they are.                                                    *)
(*                                                                         *)
(* A string key is the address of the interned string, and its hash that   *)
(* of the content.  The collector may free a string that is the key of a   *)
(* dead node only, and another string may be made at its address: then the *)
(* dead node holds a key of another hash.                                  *)
(*                                                                         *)
(* A program stores under a key the key itself (see module TableMap).      *)
(***************************************************************************)
EXTENDS Integers, FiniteSets, FiniteSetsExt

CONSTANTS
  Nil,
  NoKey,       \* the control value of a loop that does not run
  Strings,     \* contents of strings
  Addresses,   \* where strings are allocated
  Numbers,     \* keys that are not integers, nor strings
  Worlds       \* the programs considered: see below

\* A program has keys, their hashes, the addresses at which each string may
\* be made, and the memory that may run out.
ASSUME WorldAssumption ==
  \A w \in Worlds :
    /\ w.keys \subseteq Strings \cup Numbers \cup Nat
    /\ w.keys \subseteq DOMAIN w.hash /\ \A k \in w.keys : w.hash[k] \in Nat
    /\ w.places \in [w.keys \cap Strings -> SUBSET Addresses]
    /\ w.exhausted \subseteq {"array", "nodes"}
    /\ w.asizes \subseteq Nat /\ w.hsizes \subseteq Nat /\ w.lengths \subseteq Nat
\* The kinds of keys can be told apart, and from what is no key.
ASSUME KeyAssumption ==
  /\ (Strings \cup Addresses \cup {Nil, NoKey}) \cap (Numbers \cup Nat) = {}
  /\ Addresses \cap (Strings \cup {Nil, NoKey}) = {}
  /\ {Nil, NoKey} \cap Strings = {} /\ Nil # NoKey
  /\ \A w \in Worlds : \A S \in SUBSET w.keys : S # Nil

VARIABLES
  world,   \* one of Worlds
  string,  \* the string at an address, or Nil
  t,       \* the table: its array, its nodes and the top of the free ones
  control, \* the last key that a traversal returned, Nil at its start
  seen,    \* the keys it returned
  fault    \* what the code would do next is undefined

vars == <<world, string, t, control, seen, fault>>

None == -1            \* a null pointer

Integer(k) == k \in Nat

-----------------------------------------------------------------------------
\* The hash part of a table x.  hashkey; s tells the string at an address.
Size(x) == Cardinality(DOMAIN x.node)
ASize(x) == Cardinality(DOMAIN x.array)
Hash(s, k) == world.hash[IF k \in Addresses THEN s[k] ELSE k]
Main(s, x, k) == Hash(s, k) % Size(x)

\* The nodes from node n on, and those behind it.
Chain(node, n) ==
  LET size == Cardinality(DOMAIN node)
      from[i \in 0..size] ==
        [m \in DOMAIN node \cup {None} |->
           IF i = 0 \/ m = None THEN {} ELSE {m} \cup from[i - 1][node[m].next]]
  IN  from[size][n]
Beyond(node, n) == Chain(node, node[n].next)

InArray(x, k) == Integer(k) /\ k \in DOMAIN x.array
Holding(s, x, k) == {n \in Chain(x.node, Main(s, x, k)) : x.node[n].key = k}

\* lj_tab_get
Get(s, x, k) ==
  LET held == Holding(s, x, k)
  IN  IF InArray(x, k) THEN x.array[k]
      ELSE IF held = {} THEN Nil
      ELSE x.node[CHOOSE n \in held : TRUE].val

\* newhpart and clearhpart, for 2^bits nodes, or the one that all tables
\* without a hash part share, and which is never free.
NewNodes(bits) == [n \in 0..(2^bits - 1) |-> [key |-> Nil, val |-> Nil, next |-> None]]
NewTop(bits) == IF bits = 0 THEN 0 ELSE 2^bits
NewTable(asize, bits) ==
  [array |-> [i \in 0..(asize - 1) |-> Nil], node |-> NewNodes(bits), free |-> NewTop(bits)]

\* hsize2hbits
HBits(size) == IF size = 0 THEN 0 ELSE Min({b \in 1..size : 2^b >= size})

-----------------------------------------------------------------------------
\* The first and the last of some nodes of a chain.
FirstOf(node, S) == IF S = {} THEN None ELSE CHOOSE i \in S : S \subseteq Chain(node, i)
LastOf(node, S) ==
  IF S = {} THEN None ELSE CHOOSE i \in S : \A j \in S : i \in Chain(node, j)

\* The nodes that follow f and have a string that belongs to node n.
Strays(s, x, n, f) ==
  {j \in Beyond(x.node, f) : /\ x.node[j].key \in Addresses /\ x.node[j].val # Nil
                             /\ Main(s, x, x.node[j].key) = n}

\* A bug: strays stay behind f.
NotRechained(s, x, n, f) == x.node

\* They go to the chain of n, which is empty, each to its front.
Rechained(s, x, n, f) ==
  LET moving == Strays(s, x, n, f)
      staying == Beyond(x.node, f) \ moving
      next(i) == CASE i = n -> LastOf(x.node, moving)
                   [] i \in moving -> LastOf(x.node, {j \in moving : i \in Beyond(x.node, j)})
                   [] i \in staying \cup {f} -> FirstOf(x.node, Beyond(x.node, i) \cap staying)
                   [] OTHER -> x.node[i].next
  IN  [i \in DOMAIN x.node |-> [x.node[i] EXCEPT !.next = next(i)]]

\* lj_tab_newkey of a table that has a free node, if it needs one.
FreeNodes(x) == {n \in DOMAIN x.node : n < x.free /\ x.node[n].key = Nil}

\* A bug: the node that all tables share takes a key.
OccupiedOnly(s, x, k) == x.node[Main(s, x, k)].val # Nil
NeedsFree(s, x, k) == x.node[Main(s, x, k)].val # Nil \/ Size(x) = 1

\* The nodes among which the predecessor of node n is looked for.
Anchored(s, x, n) == Chain(x.node, Main(s, x, x.node[n].key))
LostNode(s, x, k) ==
  LET n == Main(s, x, k)
  IN  NeedsFree(s, x, k) /\ n \notin Anchored(s, x, n)

NewKey(s, x, k) ==
  LET n == Main(s, x, k)
      f == Max(FreeNodes(x))
      before == CHOOSE p \in Anchored(s, x, n) : x.node[p].next = n
      new(next) == [key |-> k, val |-> Nil, next |-> next]
      moved == [x.node EXCEPT ![before].next = f, ![f] = x.node[n], ![n] = new(None)]
  IN  CASE ~NeedsFree(s, x, k) ->
             [x EXCEPT !.node[n].key = k]
        [] NeedsFree(s, x, k) /\ Main(s, x, x.node[n].key) = n ->
             [x EXCEPT !.node = [@ EXCEPT ![f] = new(x.node[n].next), ![n].next = f],
                       !.free = f]
        [] OTHER ->
             [x EXCEPT !.node = Rechained(s, [x EXCEPT !.node = moved], n, f),
                       !.free = f]

\* A value is put under a key that has a node, or can be given one.
HasRoom(s, x, k) ==
  \/ InArray(x, k) \/ Holding(s, x, k) # {}
  \/ ~NeedsFree(s, x, k) \/ FreeNodes(x) # {}

\* A bug: an integer goes to a node while its element of the array is empty.
StoreInNode(s, x, k, v) ==
  IF InArray(x, k) /\ (x.array[k] # Nil \/ FreeNodes(x) = {}) THEN [x EXCEPT !.array[k] = v]
  ELSE LET y == IF Holding(s, x, k) = {} THEN NewKey(s, x, k) ELSE x
           n == CHOOSE m \in Holding(s, y, k) : TRUE
       IN  [y EXCEPT !.node[n].val = v]

Store(s, x, k, v) ==
  IF InArray(x, k) THEN [x EXCEPT !.array[k] = v]
  ELSE LET y == IF Holding(s, x, k) = {} THEN NewKey(s, x, k) ELSE x
           n == CHOOSE m \in Holding(s, y, k) : TRUE
       IN  [y EXCEPT !.node[n].val = v]

\* lj_tab_getint finds a value that is not nil.
Present(x, i) ==
  IF InArray(x, i) THEN x.array[i] # Nil
  ELSE \E n \in DOMAIN x.node : x.node[n].key = i /\ x.node[n].val # Nil

\* A bug: the new upper bound may be a border too far down.
HalvedTooFar(in, i, j) ==
  LET bounds[n \in 0..(j - i)] ==
        IF n = 0 THEN <<i, j>>
        ELSE LET a == bounds[n - 1][1]
                 b == bounds[n - 1][2]
                 m == (a + b) \div 2
             IN  IF b - a <= 1 THEN <<a, b>> ELSE IF in[m] THEN <<m, b>> ELSE <<a, m - 1>>
  IN  bounds[j - i][1]

\* Halving an interval of which in[i] and not in[j]: its bounds after n rounds
\* of the loop.
Halved(in, i, j) ==
  LET bounds[n \in 0..(j - i)] ==
        IF n = 0 THEN <<i, j>>
        ELSE LET a == bounds[n - 1][1]
                 b == bounds[n - 1][2]
                 m == (a + b) \div 2
             IN  IF b - a <= 1 THEN <<a, b>> ELSE IF in[m] THEN <<m, b>> ELSE <<a, m>>
  IN  bounds[j - i][1]

\* unbound_search: i is 0 or present.  The doubling ends, since keys are few.
UnboundSearch(x, i) ==
  LET j == Min({d \in {(i + 1) * 2^b : b \in 0..Size(x)} : ~Present(x, d)})
      from == IF j = i + 1 THEN i ELSE j \div 2
  IN  Halved([m \in from..j |-> Present(x, m)], from, j)

\* lj_tab_len
Length(x) ==
  LET asize == ASize(x)
      last == IF asize = 0 THEN 0 ELSE asize - 1
  IN  IF asize > 1 /\ x.array[last] = Nil
        THEN Halved([m \in 1..asize |-> x.array[m - 1] # Nil], 1, asize) - 1
      ELSE IF Size(x) = 1 THEN last
      ELSE UnboundSearch(x, last)

-----------------------------------------------------------------------------
\* countarray, counthash and countint: how many integers lie in each power
\* of two, the new key included.
Bin(i) == IF i <= 2 THEN 0 ELSE Max({b \in 0..i : 2^b < i})
Counted(x, k) ==
  {i \in DOMAIN x.array : x.array[i] # Nil}
    \cup {x.node[n].key : n \in {m \in DOMAIN x.node : x.node[m].val # Nil}}
    \cup {k}
UpTo(x, k, b) == {i \in Counted(x, k) : Integer(i) /\ Bin(i) <= b}

\* bestasize: the largest array that is more than half full.
FullBins(x, k) ==
  {b \in {Bin(i) : i \in {j \in Counted(x, k) : Integer(j)}} :
     2 * Cardinality(UpTo(x, k, b)) > 2^b}
BestASize(x, k) == IF FullBins(x, k) = {} THEN 0 ELSE 2^(Max(FullBins(x, k)) + 1) + 1

\* A bug: the new key is not counted.
HashSizeWithoutKey(x, k) ==
  Cardinality({i \in Counted(x, k) \ {k} : ~(Integer(i) /\ i < BestASize(x, k))})

\* What is left for the hash part.
HashSize(x, k) ==
  Cardinality(Counted(x, k))
    - (IF FullBins(x, k) = {} THEN 0 ELSE Cardinality(UpTo(x, k, Max(FullBins(x, k)))))

\* The slots of a table in order: its array, then its nodes.
Slots(x) == 0..(ASize(x) + Size(x) - 1)
SlotKey(x, i) == IF i < ASize(x) THEN i ELSE x.node[i - ASize(x)].key
SlotVal(x, i) == IF i < ASize(x) THEN x.array[i] ELSE x.node[i - ASize(x)].val

\* A bug: what the array loses is forgotten.
NodesOnly(x, asize, i) == SlotVal(x, i) # Nil /\ i >= ASize(x)

\* What is stored again: values beyond a smaller array, and those of the nodes.
Leaves(x, asize, i) == SlotVal(x, i) # Nil /\ (i < ASize(x) => i >= asize)

\* Slot i of x is stored in y, as long as all fitted.
Refilled(s, x, asize, y, i) ==
  IF ~y.fits \/ ~Leaves(x, asize, i) THEN y
  ELSE IF HasRoom(s, y.table, SlotKey(x, i))
    THEN [y EXCEPT !.table = Store(s, @, SlotKey(x, i), SlotVal(x, i))]
  ELSE [y EXCEPT !.fits = FALSE]

\* lj_tab_resize
Resized(s, x, asize, bits) ==
  LET old == [i \in 0..(asize - 1) |-> IF i \in DOMAIN x.array THEN x.array[i] ELSE Nil]
      empty == [NewTable(asize, bits) EXCEPT !.array = old]
      last == ASize(x) + Size(x)
      filled[i \in 0..last] ==
        IF i = 0 THEN [table |-> empty, fits |-> TRUE]
        ELSE Refilled(s, x, asize, filled[i - 1], i - 1)
  IN  filled[last]

\* rehashtab
Rehashed(s, x, k) == Resized(s, x, BestASize(x, k), HBits(HashSize(x, k)))

-----------------------------------------------------------------------------
\* The address of a string in the table of strings, which is that of the
\* string if there is one, and else a new one.
Interned(k) ==
  IF \E a \in Addresses : string[a] = k THEN {a \in Addresses : string[a] = k}
  ELSE {a \in world.places[k] : string[a] = Nil}

\* A key as it is passed to the functions, and the strings there are then.
Passed(k) ==
  IF k \in Strings THEN {[key |-> a, string |-> [string EXCEPT ![a] = k]] : a \in Interned(k)}
  ELSE {[key |-> k, string |-> string]}

\* The key that the program sees.
KeyOf(s, k) == IF k \in Addresses THEN s[k] ELSE k

\* lj_tab_get as the program sees it.
Field(k) ==
  LET key == IF k \in Strings THEN {a \in Addresses : string[a] = k} ELSE {k}
  IN  IF key = {} THEN Nil ELSE KeyOf(string, Get(string, t, CHOOSE a \in key : TRUE))
Traversing == control # NoKey

\* After a fault the behaviour is undefined, and the model stops.
Defined == ~fault

Init ==
  /\ world \in Worlds
  /\ string = [a \in Addresses |-> Nil]
  /\ t \in {NewTable(asize, HBits(hsize)) : asize \in world.asizes, hsize \in world.hsizes}
  /\ control = NoKey /\ seen = Nil
  /\ fault = FALSE

\* lj_tab_set, and a store of v.  While a table is traversed, a program may
\* assign to fields that exist only.
Assign(k, nilled) ==
  /\ Defined
  /\ Traversing => Field(k) # Nil
  /\ \E p \in Passed(k) :
       LET room(y) == HasRoom(p.string, y, p.key)
           known(y) == InArray(y, p.key) \/ Holding(p.string, y, p.key) # {}
           new == Rehashed(p.string, t, p.key)
           x == IF room(t) THEN t ELSE new.table
       IN  /\ string' = p.string
           /\ fault' = (\/ ~room(t) /\ ~(new.fits /\ room(x))
                        \/ ~known(x) /\ LostNode(p.string, x, p.key))
           /\ t' = IF fault' THEN t
                   ELSE Store(p.string, x, p.key, IF nilled THEN Nil ELSE p.key)
  /\ UNCHANGED <<world, control, seen>>

Put(k) == Assign(k, FALSE)
Unset(k) == Assign(k, TRUE)

\* An allocation fails and lj_mem_newvec or lj_mem_realloc throw: before
\* anything was done, or when the array part is larger already.
OutOfMemory(k) ==
  /\ Defined
  /\ ~Traversing
  /\ \E p \in Passed(k) :
       LET asize == BestASize(t, p.key)
           grows == asize > ASize(t)
           longer == [i \in 0..(asize - 1) |-> IF i \in DOMAIN t.array THEN t.array[i] ELSE Nil]
       IN  /\ ~HasRoom(p.string, t, p.key)
           /\ \/ /\ "array" \in world.exhausted /\ grows
                 /\ UNCHANGED t
              \/ /\ "nodes" \in world.exhausted /\ HashSize(t, p.key) > 0
                 /\ t' = IF grows THEN [t EXCEPT !.array = longer] ELSE t
           /\ string' = p.string
  /\ UNCHANGED <<world, control, seen, fault>>

\* lj_tab_reasize, before several values are stored at once.
Grow(nasize) ==
  /\ Defined
  /\ ~Traversing /\ nasize >= ASize(t)
  /\ LET x == Resized(string, t, nasize + 1, HBits(IF Size(t) = 1 THEN 0 ELSE Size(t)))
     IN  /\ fault' = ~x.fits
         /\ t' = IF fault' THEN t ELSE x.table
  /\ UNCHANGED <<world, string, control, seen>>

\* A bug: the top of the free nodes stays where it was.
TopKept == t.free
ClearedTop == NewTop(IF Size(t) = 1 THEN 0 ELSE HBits(Size(t)))

\* lj_tab_clear
Clear ==
  /\ Defined
  /\ ~Traversing
  /\ t' = [array |-> [i \in DOMAIN t.array |-> Nil], free |-> ClearedTop,
           node |-> [n \in DOMAIN t.node |-> [key |-> Nil, val |-> Nil, next |-> None]]]
  /\ UNCHANGED <<world, string, control, seen, fault>>

-----------------------------------------------------------------------------
\* keyindex: array slots come before nodes.
Index(k) ==
  IF k = Nil THEN -1
  ELSE IF InArray(t, k) THEN k
  ELSE ASize(t) + (CHOOSE n \in Holding(string, t, k) : TRUE)

Begin ==
  /\ Defined
  /\ ~Traversing
  /\ control' = Nil /\ seen' = {}
  /\ UNCHANGED <<world, string, t, fault>>

\* A bug: the traversal goes on at the node of the key itself.
LaterFrom(i) == {j \in Slots(t) : j >= i}

\* What lies beyond an index.
Later(i) == {j \in Slots(t) : j > i}

\* lj_tab_next: the next slot or node with a value, if there is one.  The
\* control value is a reference that keeps its string.
NextKey ==
  /\ Defined
  /\ Traversing
  /\ LET found == {i \in Later(Index(control)) : SlotVal(t, i) # Nil}
     IN  IF found = {} THEN control' = NoKey /\ seen' = Nil
         ELSE /\ control' = SlotKey(t, Min(found))
              /\ seen' = seen \cup {KeyOf(string, control')}
  /\ UNCHANGED <<world, string, t, fault>>

\* A string that is no key of a live node, and that the loop does not hold,
\* is freed.
FreeString(a) ==
  /\ Defined
  /\ string[a] # Nil
  /\ control # a
  /\ \A n \in DOMAIN t.node : t.node[n].val # Nil => t.node[n].key # a
  /\ string' = [string EXCEPT ![a] = Nil]
  /\ UNCHANGED <<world, t, control, seen, fault>>

Next ==
  \/ \E k \in world.keys : Put(k) \/ Unset(k) \/ OutOfMemory(k)
  \/ \E n \in world.lengths : Grow(n)
  \/ Clear \/ Begin \/ NextKey
  \/ \E a \in Addresses : FreeString(a)

\* A program that traverses a table calls next until it returns nil.
Spec == Init /\ [][Next]_vars /\ WF_vars(NextKey)

-----------------------------------------------------------------------------
LiveNodes == {n \in DOMAIN t.node : t.node[n].val # Nil}

\* Type correctness.
TypeOK ==
  /\ string \in [Addresses -> Strings \cup {Nil}]
  /\ t.free \in 0..Size(t)
  /\ \A n \in DOMAIN t.node :
       /\ t.node[n].next \in DOMAIN t.node \cup {None}
       /\ t.node[n].key = Nil => t.node[n].val = Nil
  /\ Size(t) = 1 => t.node = NewNodes(0)
  /\ seen = Nil <=> ~Traversing

\* Every live key is in the chain that its hash selects, whatever was put
\* between, moved or left dead there, and at one place in the table.
Chained ==
  \A n \in LiveNodes :
    LET k == t.node[n].key
    IN  n \in Chain(t.node, Main(string, t, k)) /\ ~InArray(t, k)

\* No predecessor of a node is looked for in vain, and a hash part is never
\* too small for what it was made for.
NoFault == ~fault

\* The length of a table is a border, whatever lies in its two parts: the
\* field before it exists and the one behind it does not.
LengthIsBorder ==
  LET len == Length(t)
  IN  (len = 0 \/ Present(t, len)) /\ ~Present(t, len + 1)

\* A rehash happens only when every node of the table was given a key: a
\* table made for a number of keys takes as many without one.
RehashWhenFull ==
  [][DOMAIN t.node # DOMAIN t'.node /\ Size(t) > 1
       => \A n \in DOMAIN t.node : t.node[n].key # Nil]_vars

\* The table is a map, in which a traversal returns every field once, also
\* while its fields are cleared.
Keys == UNION {w.keys : w \in Worlds}
Fields == {<<k, Field(k)>> : k \in {l \in world.keys : Field(l) # Nil}}
Abstract == INSTANCE TableMap WITH fields <- Fields
IsAMap == Abstract!Empty /\ [][Abstract!Operation]_(Abstract!tableVars)

\* What lj_tab_set is given is what lj_tab_get finds afterwards: a store
\* changes the field of its own key, whatever it moves or rebuilds for that,
\* and no other.
StoresAreFound ==
  [][\A k \in world.keys :
       /\ Put(k) => Fields' = Fields \cup {<<k, k>>}
       /\ Unset(k) => Fields' = Fields \ {<<k, k>>}]_vars

\* A traversal ends.
TraversalEnds == Traversing ~> ~Traversing
=============================================================================
