----------------------------- MODULE LuaTab_proofs -----------------------------
(***************************************************************************)
(* Proofs about LuaTab: for every program, that types are kept, that a     *)
(* table is rebuilt only when it is full, and that its length is a border; *)
(* for every program in which an address is that of one string only and    *)
(* running out of memory leaves no integers behind, that live keys are in  *)
(* their chains, that nothing fails, and that the table is a map.          *)
(***************************************************************************)
EXTENDS LuaTab, NumberFacts

\* The nodes from n on, as the least set of nodes that has n and leads nowhere
\* else; None has none.
Leads(node, T) == \A m \in T : node[m].next \in T \cup {None}
Hull(node, n) ==
  {m \in DOMAIN node :
     n # None /\ \A T \in SUBSET DOMAIN node : n \in T /\ Leads(node, T) => m \in T}
Behind(node, n) == Hull(node, node[n].next)

Wired(node) ==
  /\ IsFiniteSet(DOMAIN node) /\ None \notin DOMAIN node
  /\ \A n \in DOMAIN node : node[n].next \in DOMAIN node \cup {None}

\* Chains do not run in circles, and do not merge.
Acyclic(node) == \A n \in DOMAIN node : n \notin Behind(node, n)
Apart(node) ==
  \A m, n \in DOMAIN node : node[m].next = node[n].next /\ node[m].next # None => m = n

\* The nodes from n on are such a set,
LEMMA HullHas ==
  ASSUME NEW node, Wired(node), NEW n \in DOMAIN node \cup {None}
  PROVE  /\ Hull(node, n) \subseteq DOMAIN node
         /\ Leads(node, Hull(node, n))
         /\ n # None => n \in Hull(node, n)
         /\ n = None => Hull(node, n) = {}
<1>1. ASSUME NEW m \in Hull(node, n), node[m].next # None
      PROVE  node[m].next \in Hull(node, n)
  <2>1. m \in DOMAIN node /\ node[m].next \in DOMAIN node /\ n # None
    BY <1>1 DEF Hull, Wired
  <2>2. ASSUME NEW T \in SUBSET DOMAIN node, n \in T, Leads(node, T)
        PROVE  node[m].next \in T
    <3>1. m \in T
      BY <2>2 DEF Hull
    <3> QED
      BY <3>1, <2>2, <1>1 DEF Leads
  <2> QED
    BY <2>1, <2>2 DEF Hull
<1> QED
  BY <1>1 DEF Hull, Leads

\* and are the least one.
LEMMA HullLeast ==
  ASSUME NEW node, NEW n, NEW T, T \subseteq DOMAIN node, n \in T, Leads(node, T)
  PROVE  Hull(node, n) \subseteq T
  BY DEF Hull

\* They are n, and what is behind it.
LEMMA HullStep ==
  ASSUME NEW node, Wired(node), NEW n \in DOMAIN node
  PROVE  Hull(node, n) = {n} \cup Behind(node, n)
<1> DEFINE T == {n} \cup Behind(node, n)
           next == node[n].next
<1>1. next \in DOMAIN node \cup {None} /\ n # None
  BY DEF Wired
<1>2. /\ Behind(node, n) \subseteq DOMAIN node /\ Leads(node, Behind(node, n))
      /\ next # None => next \in Behind(node, n)
  BY <1>1, HullHas DEF Behind
<1>3. Leads(node, T)
  BY <1>1, <1>2 DEF Leads
<1>4. Hull(node, n) \subseteq T
  BY <1>2, <1>3, HullLeast
<1>5. n \in Hull(node, n) /\ Leads(node, Hull(node, n)) /\ Hull(node, n) \subseteq DOMAIN node
  BY <1>1, HullHas
<1>6. Behind(node, n) \subseteq Hull(node, n)
  <2>1. CASE next = None
    BY <2>1, <1>1, HullHas DEF Behind
  <2>2. CASE next # None
    <3>1. next \in Hull(node, n)
      BY <2>2, <1>5 DEF Leads
    <3> QED
      BY <3>1, <1>5, HullLeast DEF Behind
  <2> QED
    BY <2>1, <2>2
<1> QED
  BY <1>4, <1>5, <1>6

\* What is reached leads no further.
LEMMA HullWithin ==
  ASSUME NEW node, Wired(node), NEW n \in DOMAIN node \cup {None}, NEW m \in Hull(node, n)
  PROVE  Hull(node, m) \subseteq Hull(node, n) /\ Behind(node, m) \subseteq Hull(node, n)
<1>1. m \in DOMAIN node /\ Leads(node, Hull(node, n)) /\ Hull(node, n) \subseteq DOMAIN node
  BY HullHas
<1>2. Hull(node, m) \subseteq Hull(node, n)
  BY <1>1, HullLeast
<1> QED
  BY <1>1, <1>2, HullStep

\* What is reached is where one starts, or follows something reached.
LEMMA HullFrom ==
  ASSUME NEW node, Wired(node), NEW n \in DOMAIN node, NEW m \in Hull(node, n), m # n
  PROVE  \E p \in Hull(node, n) : node[p].next = m
<1> DEFINE T == Hull(node, n) \ {m}
<1>1. SUFFICES ASSUME ~ \E p \in Hull(node, n) : node[p].next = m PROVE FALSE
  OBVIOUS
<1>2. n # None /\ Leads(node, Hull(node, n)) /\ Hull(node, n) \subseteq DOMAIN node /\ n \in Hull(node, n)
  BY HullHas DEF Wired
<1>3. Leads(node, T)
  BY <1>1, <1>2 DEF Leads
<1>4. Hull(node, n) \subseteq T
  BY <1>2, <1>3, HullLeast
<1> QED
  BY <1>4

\* Two nodes of a chain are one, or one is behind the other.
LEMMA HullLinear ==
  ASSUME NEW node, Wired(node), NEW n \in DOMAIN node \cup {None},
         NEW i \in Hull(node, n), NEW j \in Hull(node, n)
  PROVE  i = j \/ j \in Behind(node, i) \/ i \in Behind(node, j)
<1> DEFINE H == Hull(node, n)
           T == {k \in H : i \in Hull(node, k) \/ k \in Hull(node, i)}
<1>1. /\ H \subseteq DOMAIN node /\ Leads(node, H) /\ n \in H /\ n \in DOMAIN node
  BY HullHas
<1>2. n \in T
  BY <1>1
<1>3. ASSUME NEW k \in T, node[k].next # None
      PROVE  node[k].next \in T
  <2>1. node[k].next \in H /\ k \in DOMAIN node /\ i \in DOMAIN node
    BY <1>1, <1>3 DEF Leads
  <2>2. CASE k = i \/ k \in Hull(node, i)
    <3>1. k \in Hull(node, i) /\ Leads(node, Hull(node, i))
      BY <2>1, <2>2, HullHas DEF Wired
    <3> QED
      BY <3>1, <2>1, <1>3 DEF Leads
  <2>3. CASE k # i /\ i \in Hull(node, k)
    BY <2>1, <2>3, HullStep DEF Behind
  <2> QED
    BY <2>2, <2>3
<1>4. Leads(node, T)
  BY <1>3 DEF Leads
<1>5. H \subseteq T
  BY <1>1, <1>2, <1>4, HullLeast
<1>6. i \in Hull(node, j) \/ j \in Hull(node, i)
  BY <1>5
<1> QED
  BY <1>1, <1>6, HullStep

\* The walk along next pointers that the code does finds just these nodes: a
\* chain without circles is no longer than the number of nodes.
LEMMA ChainIsHull ==
  ASSUME NEW node, Wired(node), Acyclic(node), NEW n \in DOMAIN node \cup {None}
  PROVE  Chain(node, n) = Hull(node, n)
<1> DEFINE D == DOMAIN node
           size == Cardinality(D)
           row(g, i) == [m \in D \cup {None} |->
                           IF i = 0 \/ m = None THEN {} ELSE {m} \cup g[i - 1][node[m].next]]
           Walk(g, k) == g = [i \in 0..k |-> row(g, i)]
           T == {k \in Nat : \E g : Walk(g, k)}
<1>1. IsFiniteSet(D) /\ size \in Nat /\ None \notin D
  BY FS_CardinalityType DEF Wired
<1>2. Nat \subseteq T
  <2>1. 0 \in T
    <3>1. Walk([i \in 0..0 |-> [m \in D \cup {None} |-> {}]], 0)
      OBVIOUS
    <3> HIDE DEF Walk
    <3> QED
      BY <3>1
  <2>2. ASSUME NEW k \in Nat, k \in T
        PROVE  k + 1 \in T
    <3>1. PICK g : Walk(g, k)
      BY <2>2
    <3> DEFINE h == [i \in 0..(k + 1) |-> IF i <= k THEN g[i] ELSE row(g, k + 1)]
    <3> HIDE DEF row
    <3>2. DOMAIN g = 0..k /\ \A i \in 0..k : g[i] = row(g, i)
      BY <3>1
    <3>3. \A i \in 0..(k + 1) : i # 0 => h[i - 1] = g[i - 1]
      OBVIOUS
    <3>4. \A i \in 0..(k + 1) : row(h, i) = row(g, i)
      <4> HIDE DEF h
      <4> QED
        BY <3>3 DEF row
    <3>5. \A i \in 0..(k + 1) : h[i] = row(h, i)
      <4>1. \A i \in 0..(k + 1) : i <= k \/ i = k + 1
        OBVIOUS
      <4>2. \A i \in 0..(k + 1) : h[i] = row(g, i)
        BY <3>2, <4>1
      <4> QED
        BY <3>4, <4>2
    <3>6. Walk(h, k + 1)
      <4>1. h = [i \in 0..(k + 1) |-> h[i]]
        OBVIOUS
      <4> HIDE DEF h
      <4> QED
        BY <3>5, <4>1
    <3> HIDE DEF Walk
    <3> QED
      BY <3>6
  <2> HIDE DEF T
  <2> QED
    BY <2>1, <2>2, Induction
<1> DEFINE from == CHOOSE g : Walk(g, size)
<1>3. Walk(from, size)
  <2>1. \E g : Walk(g, size)
    BY <1>1, <1>2
  <2> HIDE DEF Walk
  <2> QED
    BY <2>1
<1>4. Chain(node, n) = from[size][n]
  BY DEF Chain
<1> HIDE DEF from
<1>5. ASSUME NEW i \in 0..size, NEW m \in D \cup {None}
      PROVE  from[i][m] = IF i = 0 \/ m = None THEN {} ELSE {m} \cup from[i - 1][node[m].next]
  <2>1. from[i] = row(from, i)
    <3> HIDE DEF row
    <3> QED
      BY <1>3
  <2> QED
    BY <2>1
<1> HIDE DEF Walk, T, row
<1> DEFINE U == {i \in Nat : i <= size =>
                   \A m \in D \cup {None} : Cardinality(Hull(node, m)) <= i => from[i][m] = Hull(node, m)}
<1>6. \A m \in D \cup {None} : IsFiniteSet(Hull(node, m)) /\ Cardinality(Hull(node, m)) \in 0..size
  <2> SUFFICES ASSUME NEW m \in D \cup {None}
               PROVE  IsFiniteSet(Hull(node, m)) /\ Cardinality(Hull(node, m)) \in 0..size
    OBVIOUS
  <2>1. Hull(node, m) \subseteq D
    BY HullHas
  <2>2. IsFiniteSet(Hull(node, m)) /\ Cardinality(Hull(node, m)) <= size
    BY <1>1, <2>1, FS_Subset
  <2> QED
    BY <1>1, <2>2, FS_CardinalityType
<1>7. 0 \in U
  <2>1. ASSUME NEW m \in D \cup {None}, Cardinality(Hull(node, m)) <= 0
        PROVE  from[0][m] = Hull(node, m)
    <3>1. Hull(node, m) = {}
      BY <1>6, <2>1, FS_EmptySet
    <3>2. 0 \in 0..size
      BY <1>1
    <3> HIDE DEF size, D
    <3> QED
      BY <3>1, <3>2, <1>5
  <2> QED
    BY <2>1
<1>8. ASSUME NEW i \in Nat, i \in U
      PROVE  i + 1 \in U
  <2> SUFFICES ASSUME i + 1 <= size, NEW m \in D \cup {None}, Cardinality(Hull(node, m)) <= i + 1
               PROVE  from[i + 1][m] = Hull(node, m)
    OBVIOUS
  <2>1. from[i + 1][m] = IF m = None THEN {} ELSE {m} \cup from[i][node[m].next]
    <3>1. i + 1 \in 0..size /\ i + 1 # 0 /\ (i + 1) - 1 = i
      BY <1>1
    <3> HIDE DEF size, D
    <3> QED
      BY <3>1, <1>5
  <2>2. CASE m = None
    BY <2>1, <2>2, HullHas
  <2>3. CASE m # None
    <3>1. m \in D /\ node[m].next \in D \cup {None} /\ m \notin Behind(node, m)
      BY <2>3 DEF Wired, Acyclic
    <3>2. Hull(node, m) = {m} \cup Hull(node, node[m].next) /\ m \notin Hull(node, node[m].next)
      BY <3>1, HullStep DEF Behind
    <3>3. Cardinality(Hull(node, m)) = Cardinality(Hull(node, node[m].next)) + 1
      <4>1. Hull(node, m) = Hull(node, node[m].next) \cup {m}
        BY <3>2
      <4> QED
        BY <4>1, <3>1, <3>2, <1>6, FS_AddElement
    <3>4. Cardinality(Hull(node, node[m].next)) <= i
      BY <3>1, <3>3, <1>6
    <3>5. from[i][node[m].next] = Hull(node, node[m].next)
      BY <3>1, <3>4, <1>1, <1>8
    <3> QED
      BY <2>1, <2>3, <3>2, <3>5
  <2> QED
    BY <2>2, <2>3
<1>9. size \in U
  <2> HIDE DEF U
  <2> QED
    BY <1>1, <1>7, <1>8, Induction
<1> QED
  BY <1>1, <1>4, <1>6, <1>9

-----------------------------------------------------------------------------
\* A node that no other leads to is behind none.
Isolated(node, f) == \A m \in DOMAIN node : node[m].next # f
\* Such a node is in the chain of no other.
LEMMA NotBehind ==
  ASSUME NEW node, Wired(node), NEW f \in DOMAIN node, Isolated(node, f),
         NEW n \in DOMAIN node \cup {None}, f # n
  PROVE  f \notin Hull(node, n)
<1>1. CASE n = None
  BY <1>1, HullHas
<1>2. CASE n \in DOMAIN node
  <2>1. Hull(node, n) \subseteq DOMAIN node
    BY HullHas
  <2> QED
    BY <1>2, <2>1, HullFrom DEF Isolated
<1> QED
  BY <1>1, <1>2

\* A node is not behind itself, nor are two nodes behind each other.
LEMMA NotBoth ==
  ASSUME NEW node, Wired(node), Acyclic(node), NEW i \in DOMAIN node, NEW j \in DOMAIN node,
         i \in Behind(node, j)
  PROVE  j \notin Hull(node, i) /\ i # j
<1>1. i # j
  BY DEF Acyclic
<1>2. ASSUME j \in Hull(node, i)
      PROVE  FALSE
  <2>1. j \in Behind(node, i)
    BY <1>1, <1>2, HullStep
  <2>2. node[j].next \in DOMAIN node \cup {None}
    BY DEF Wired
  <2>3. Behind(node, i) \subseteq Behind(node, j)
    BY <2>2, HullWithin DEF Behind
  <2> QED
    BY <2>1, <2>3 DEF Acyclic
<1> QED
  BY <1>1, <1>2

\* How to show that a changed chain does not run back to where it starts.
LEMMA NotReached ==
  ASSUME NEW new, Wired(new), NEW i \in DOMAIN new, NEW T, T \subseteq DOMAIN new,
         i \notin T, new[i].next \in T \cup {None}, Leads(new, T)
  PROVE  i \notin Behind(new, i)
<1>1. CASE new[i].next = None
  BY <1>1, HullHas DEF Behind
<1>2. CASE new[i].next \in T
  BY <1>2, HullLeast DEF Behind
<1> QED
  BY <1>1, <1>2

\* A free node f is put behind node n.
Inserted(node, new, n, f) ==
  /\ DOMAIN new = DOMAIN node
  /\ n \in DOMAIN node /\ f \in DOMAIN node /\ n # f
  /\ Isolated(node, f) /\ node[f].next = None
  /\ new[f].next = node[n].next /\ new[n].next = f
  /\ \A i \in DOMAIN node \ {f, n} : new[i].next = node[i].next
\* Chains stay chains, and lose no node, when f is put behind n.
LEMMA InsertKeeps ==
  ASSUME NEW node, Wired(node), Acyclic(node), Apart(node), NEW new, NEW n, NEW f,
         Inserted(node, new, n, f)
  PROVE  /\ Wired(new) /\ Acyclic(new) /\ Apart(new)
         /\ \A m \in DOMAIN node : Hull(node, m) \subseteq Hull(new, m)
         /\ f \in Hull(new, n)
<1> USE DEF Inserted
<1> DEFINE D == DOMAIN node
<1>1. Wired(new)
  BY DEF Wired
<1>2. \A i \in D : Behind(node, i) \subseteq D /\ Leads(node, Behind(node, i))
                   /\ node[i].next \in Behind(node, i) \cup {None} /\ f \notin Behind(node, i)
  <2> SUFFICES ASSUME NEW i \in D
               PROVE  Behind(node, i) \subseteq D /\ Leads(node, Behind(node, i))
                      /\ node[i].next \in Behind(node, i) \cup {None} /\ f \notin Behind(node, i)
    OBVIOUS
  <2>1. node[i].next \in D \cup {None} /\ node[i].next # f
    BY DEF Wired, Isolated
  <2> QED
    BY <2>1, HullHas, NotBehind DEF Behind
<1>3. ASSUME NEW i \in D
      PROVE  i \notin Behind(new, i)
  <2>1. CASE i = f
    <3>1. Leads(new, Behind(node, n)) /\ new[f].next \in Behind(node, n) \cup {None}
      BY <1>2 DEF Leads, Acyclic
    <3> QED
      BY <1>1, <1>2, <2>1, <3>1, NotReached
  <2>2. CASE i # f /\ (i = n \/ n \in Behind(node, i))
    <3> DEFINE T == Behind(node, i) \cup {f}
    <3>1. node[n].next \in Behind(node, i) \cup {None}
      BY <1>2, <2>2 DEF Leads
    <3>2. Leads(new, T) /\ new[i].next \in T \cup {None}
      BY <1>2, <2>2, <3>1 DEF Leads
    <3>3. i \notin T /\ T \subseteq D
      BY <1>2, <2>2 DEF Acyclic
    <3> QED
      BY <1>1, <3>2, <3>3, NotReached
  <2>3. CASE i # f /\ i # n /\ n \notin Behind(node, i)
    <3>1. Leads(new, Behind(node, i)) /\ new[i].next \in Behind(node, i) \cup {None}
      BY <1>2, <2>3 DEF Leads
    <3> QED
      BY <1>1, <1>2, <3>1, NotReached DEF Acyclic
  <2> QED
    BY <2>1, <2>2, <2>3
<1>4. Apart(new)
  <2> SUFFICES ASSUME NEW a \in D, NEW b \in D, new[a].next = new[b].next, new[a].next # None
               PROVE  a = b
    BY DEF Apart
  <2>1. \A i \in D : node[i].next # f
    BY DEF Isolated
  <2> QED
    BY <2>1 DEF Apart, Wired
<1>5. ASSUME NEW m \in D
      PROVE  Hull(node, m) \subseteq Hull(new, m)
  <2> DEFINE T == Hull(new, m)
  <2>1. T \subseteq D /\ m \in T /\ Leads(new, T)
    BY <1>1, HullHas DEF Wired
  <2>2. Leads(node, T)
    <3> SUFFICES ASSUME NEW j \in T PROVE node[j].next \in T \cup {None}
      BY DEF Leads
    <3>1. CASE j = n
      <4>1. f \in T
        BY <2>1, <3>1 DEF Leads, Wired
      <4> QED
        BY <2>1, <3>1, <4>1 DEF Leads
    <3>2. CASE j # n
      BY <2>1, <3>2 DEF Leads
    <3> QED
      BY <3>1, <3>2
  <2> QED
    BY <2>1, <2>2, HullLeast
<1>6. f \in Hull(new, n)
  <2>1. n \in Hull(new, n) /\ Leads(new, Hull(new, n)) /\ f # None
    BY <1>1, HullHas DEF Wired
  <2> QED
    BY <2>1 DEF Leads
<1> QED
  BY <1>1, <1>3, <1>4, <1>5, <1>6 DEF Acyclic

\* What node n has goes to the free node f, and n leaves its chain.
Moved(node, new, before, n, f) ==
  /\ DOMAIN new = DOMAIN node
  /\ before \in DOMAIN node /\ n \in DOMAIN node /\ f \in DOMAIN node /\ n # f
  /\ node[before].next = n
  /\ Isolated(node, f) /\ node[f].next = None
  /\ new[before].next = f /\ new[f].next = node[n].next /\ new[n].next = None
  /\ \A i \in DOMAIN node \ {before, f, n} : new[i].next = node[i].next
\* Chains stay chains when f takes the place of n, and n becomes a chain alone.
LEMMA MoveKeeps ==
  ASSUME NEW node, Wired(node), Acyclic(node), Apart(node), NEW new,
         NEW before, NEW n, NEW f, Moved(node, new, before, n, f)
  PROVE  /\ Wired(new) /\ Acyclic(new) /\ Apart(new) /\ Isolated(new, n)
         /\ \A m \in DOMAIN node \ {n} :
              /\ Hull(node, m) \ {n} \subseteq Hull(new, m)
              /\ n \in Hull(node, m) => f \in Hull(new, m)
<1> USE DEF Moved
<1> DEFINE D == DOMAIN node
<1>1. Wired(new)
  BY DEF Wired
<1>2. \A i \in D : Behind(node, i) \subseteq D /\ Leads(node, Behind(node, i))
                   /\ node[i].next \in Behind(node, i) \cup {None} /\ f \notin Behind(node, i)
  <2> SUFFICES ASSUME NEW i \in D
               PROVE  Behind(node, i) \subseteq D /\ Leads(node, Behind(node, i))
                      /\ node[i].next \in Behind(node, i) \cup {None} /\ f \notin Behind(node, i)
    OBVIOUS
  <2>1. node[i].next \in D \cup {None} /\ node[i].next # f
    BY DEF Wired, Isolated
  <2> QED
    BY <2>1, HullHas, NotBehind DEF Behind
<1>3. before # f /\ before # n /\ n # None /\ f # None
  <2>1. n \in Behind(node, before)
    BY <1>2 DEF Wired
  <2> QED
    BY <2>1 DEF Acyclic, Wired
<1>4. \A i \in D : i # before => node[i].next # n
  BY <1>3 DEF Apart
<1>5. ASSUME NEW i \in D
      PROVE  i \notin Behind(new, i)
  <2>1. CASE i = n
    BY <1>1, <2>1, HullHas DEF Behind
  <2>2. CASE i = f
    <3>1. before \notin Behind(node, n) /\ n \notin Behind(node, n)
      BY <1>2, <1>3 DEF Leads, Acyclic
    <3>2. Leads(new, Behind(node, n)) /\ new[f].next \in Behind(node, n) \cup {None}
      BY <1>2, <3>1 DEF Leads
    <3> QED
      BY <1>1, <1>2, <2>2, <3>2, NotReached
  <2>3. CASE i # n /\ i # f /\ (i = before \/ n \in Behind(node, i))
    <3> DEFINE T == (Behind(node, i) \ {n}) \cup {f}
    <3>1. n \in Behind(node, i)
      BY <1>2, <1>3, <2>3
    <3>2. node[n].next \in T \cup {None}
      BY <1>2, <1>3, <1>4, <3>1 DEF Leads
    <3>3. ASSUME NEW m \in T
          PROVE  new[m].next \in T \cup {None}
      <4>1. CASE m = f \/ m = before
        BY <3>2, <4>1
      <4>2. CASE m # f /\ m # before
        BY <1>2, <1>4, <4>2 DEF Leads
      <4> QED
        BY <4>1, <4>2
    <3>4. new[i].next \in T \cup {None}
      BY <1>2, <1>4, <2>3
    <3>5. i \notin T /\ T \subseteq D
      BY <1>2, <2>3 DEF Acyclic
    <3> HIDE DEF T
    <3> QED
      BY <1>1, <3>3, <3>4, <3>5, NotReached DEF Leads
  <2>4. CASE i # n /\ i # f /\ i # before /\ n \notin Behind(node, i)
    <3>1. before \notin Behind(node, i)
      BY <1>2, <1>3, <2>4 DEF Leads
    <3>2. Leads(new, Behind(node, i)) /\ new[i].next \in Behind(node, i) \cup {None}
      BY <1>2, <2>4, <3>1 DEF Leads
    <3> QED
      BY <1>1, <1>2, <3>2, NotReached DEF Acyclic
  <2> QED
    BY <2>1, <2>2, <2>3, <2>4
<1>6. Apart(new)
  <2> SUFFICES ASSUME NEW a \in D, NEW b \in D, new[a].next = new[b].next, new[a].next # None
               PROVE  a = b
    BY DEF Apart
  <2>1. \A i \in D : node[i].next # f
    BY DEF Isolated
  <2> QED
    BY <2>1, <1>3, <1>4 DEF Apart
<1>7. Isolated(new, n)
  BY <1>2, <1>3, <1>4 DEF Isolated, Acyclic
<1>8. ASSUME NEW m \in D \ {n}
      PROVE  Hull(node, m) \ {n} \subseteq Hull(new, m) /\ (n \in Hull(node, m) => f \in Hull(new, m))
  <2> DEFINE H == Hull(new, m)
             T == IF f \in H THEN H \cup {n} ELSE H
  <2>1. H \subseteq D /\ m \in H /\ Leads(new, H) /\ n \notin H
    BY <1>1, <1>7, HullHas, NotBehind DEF Wired
  <2>2. ASSUME NEW j \in T
        PROVE  node[j].next \in T \cup {None}
    <3>1. CASE j = before
      <4>1. f \in H
        BY <1>3, <2>1, <3>1 DEF Leads
      <4> QED
        BY <4>1, <3>1
    <3>2. CASE j = n
      <4>1. f \in H
        BY <2>1, <3>2
      <4> QED
        BY <4>1, <3>2, <2>1 DEF Leads
    <3>3. CASE j = f
      BY <3>3
    <3>4. CASE j # before /\ j # n /\ j # f
      BY <2>1, <3>4 DEF Leads
    <3> QED
      BY <3>1, <3>2, <3>3, <3>4
  <2>3. T \subseteq D /\ m \in T
    BY <2>1
  <2>4. Hull(node, m) \subseteq T
    <3> HIDE DEF T
    <3> QED
      BY <2>2, <2>3, HullLeast DEF Leads
  <2> QED
    BY <2>1, <2>4
<1> QED
  BY <1>1, <1>5, <1>6, <1>7, <1>8 DEF Acyclic
-----------------------------------------------------------------------------
\* Nodes that are reached are finitely many, and fewer the further one is.
LEMMA HullShrinks ==
  ASSUME NEW node, Wired(node), Acyclic(node), NEW i \in DOMAIN node, NEW j \in Behind(node, i)
  PROVE  /\ Cardinality(Hull(node, i)) \in Nat /\ Cardinality(Hull(node, j)) \in Nat
         /\ Cardinality(Hull(node, j)) < Cardinality(Hull(node, i))
<1>1. node[i].next \in DOMAIN node \cup {None} /\ j \in DOMAIN node
  BY HullHas DEF Wired, Behind
<1>2. Hull(node, j) \subseteq Hull(node, i) /\ i \notin Hull(node, j) /\ i \in Hull(node, i)
  BY <1>1, HullWithin, HullStep, NotBoth DEF Behind
<1>3. IsFiniteSet(Hull(node, i)) /\ IsFiniteSet(Hull(node, j))
  BY <1>1, HullHas, FS_Subset DEF Wired
<1> QED
  BY <1>2, <1>3, FS_Subset, FS_CardinalityType

\* Some nodes of a chain have a first one,
LEMMA FirstIs ==
  ASSUME NEW node, Wired(node), Acyclic(node), NEW m \in DOMAIN node \cup {None},
         NEW S, S \subseteq Hull(node, m), S # {}
  PROVE  FirstOf(node, S) \in S /\ S \subseteq Hull(node, FirstOf(node, S))
<1> DEFINE size(i) == Cardinality(Hull(node, i))
           N == {size(i) : i \in S}
<1>1. S \subseteq DOMAIN node
  BY HullHas
<1>2. \A i \in DOMAIN node : size(i) \in Nat /\ size(i) <= Cardinality(DOMAIN node)
  BY HullHas, FS_Subset, FS_CardinalityType DEF Wired
<1>3. Cardinality(DOMAIN node) \in Nat
  BY FS_CardinalityType DEF Wired
<1>4. PICK i \in S : \A j \in S : size(j) <= size(i)
  <2>1. N \subseteq Nat /\ N # {} /\ \A x \in N : x <= Cardinality(DOMAIN node)
    BY <1>1, <1>2
  <2>2. Max(N) \in N /\ \A y \in N : y <= Max(N)
    <3> HIDE DEF N
    <3> QED
      BY <1>3, <2>1, NatMax
  <2> QED
    BY <2>2
<1>5. ASSUME NEW j \in S
      PROVE  j \in Hull(node, i)
  <2>1. i \notin Behind(node, j)
    BY <1>1, <1>4, HullShrinks
  <2> QED
    BY <1>1, <2>1, HullLinear, HullStep
<1>6. \A j \in S : Chain(node, j) = Hull(node, j)
  BY <1>1, ChainIsHull
<1>7. \E j \in S : S \subseteq Chain(node, j)
  BY <1>5, <1>6
<1>8. FirstOf(node, S) \in S /\ S \subseteq Chain(node, FirstOf(node, S))
  BY <1>7 DEF FirstOf
<1> QED
  BY <1>6, <1>8

\* and a last one.
LEMMA LastIs ==
  ASSUME NEW node, Wired(node), Acyclic(node), NEW m \in DOMAIN node \cup {None},
         NEW S, S \subseteq Hull(node, m), S # {}
  PROVE  LastOf(node, S) \in S /\ \A j \in S : LastOf(node, S) \in Hull(node, j)
<1> DEFINE size(i) == Cardinality(Hull(node, i))
           N == {size(i) : i \in S}
<1>1. S \subseteq DOMAIN node
  BY HullHas
<1>2. \A i \in DOMAIN node : size(i) \in Nat
  BY HullHas, FS_Subset, FS_CardinalityType DEF Wired
<1>3. PICK i \in S : \A j \in S : size(i) <= size(j)
  <2>1. N \subseteq Nat /\ N # {}
    BY <1>1, <1>2
  <2>2. Min(N) \in N /\ \A y \in N : Min(N) <= y
    <3> HIDE DEF N
    <3> QED
      BY <2>1, NatMin
  <2> QED
    BY <2>2
<1>4. ASSUME NEW j \in S
      PROVE  i \in Hull(node, j)
  <2>1. j \notin Behind(node, i)
    BY <1>1, <1>3, HullShrinks
  <2> QED
    BY <1>1, <2>1, HullLinear, HullStep
<1>5. \A j \in S : Chain(node, j) = Hull(node, j)
  BY <1>1, ChainIsHull
<1>6. \E k \in S : \A j \in S : k \in Chain(node, j)
  BY <1>4, <1>5
<1>7. LastOf(node, S) \in S /\ \A j \in S : LastOf(node, S) \in Chain(node, j)
  BY <1>6 DEF LastOf
<1> QED
  BY <1>5, <1>7

\* Nodes M behind f go one by one to the front of the chain of n, in which
\* nothing else is; the others that are behind f stay, in their order.
Rewoven(node, new, n, f, M) ==
  LET stay == Behind(node, f) \ M
  IN  /\ DOMAIN new = DOMAIN node
      /\ n \in DOMAIN node /\ f \in DOMAIN node /\ n # f
      /\ Isolated(node, n) /\ node[n].next = None
      /\ M \subseteq Behind(node, f)
      /\ new[n].next = LastOf(node, M)
      /\ \A i \in M : new[i].next = LastOf(node, {j \in M : i \in Behind(node, j)})
      /\ \A i \in stay \cup {f} : new[i].next = FirstOf(node, Behind(node, i) \cap stay)
      /\ \A i \in DOMAIN node \ (Behind(node, f) \cup {f, n}) : new[i].next = node[i].next
\* Chains stay chains when some nodes behind f go to the chain of n.
LEMMA ReweaveKeeps ==
  ASSUME NEW node, Wired(node), Acyclic(node), Apart(node), NEW new,
         NEW n, NEW f, NEW M, Rewoven(node, new, n, f, M)
  PROVE  /\ Wired(new) /\ Acyclic(new) /\ Apart(new)
         /\ \A i \in DOMAIN node : new[i].next \in Behind(node, f) \cup {None, node[i].next}
<1> DEFINE D == DOMAIN node
           B == Behind(node, f)
           stay == B \ M
           behind(i) == {j \in M : i \in Behind(node, j)}
           after(i) == Behind(node, i) \cap stay
           other(i) == i \in D \ (B \cup {f, n})
<1>1. /\ DOMAIN new = D /\ n \in D /\ f \in D /\ n # f /\ M \subseteq B
      /\ new[n].next = LastOf(node, M)
      /\ \A i \in M : new[i].next = LastOf(node, behind(i))
      /\ \A i \in stay \cup {f} : new[i].next = FirstOf(node, after(i))
      /\ \A i \in D : other(i) => new[i].next = node[i].next
  BY DEF Rewoven
<1>2. /\ Isolated(node, n) /\ node[n].next = None
      /\ \A i \in D : node[i].next \in D \cup {None} /\ i # None
  BY DEF Rewoven, Wired
<1>3. \A i \in D : /\ Behind(node, i) \subseteq D /\ Leads(node, Behind(node, i))
                   /\ node[i].next \in Behind(node, i) \cup {None}
                   /\ n \notin Behind(node, i) /\ i \notin Behind(node, i)
  <2> SUFFICES ASSUME NEW i \in D
               PROVE  /\ Behind(node, i) \subseteq D /\ Leads(node, Behind(node, i))
                      /\ node[i].next \in Behind(node, i) \cup {None}
                      /\ n \notin Behind(node, i) /\ i \notin Behind(node, i)
    OBVIOUS
  <2>1. node[i].next \in D \cup {None} /\ node[i].next # n
    BY <1>2 DEF Isolated
  <2> QED
    BY <1>1, <1>2, <2>1, HullHas, NotBehind DEF Behind, Acyclic
<1>4. \A i \in D : \A j \in Behind(node, i) :
        Behind(node, j) \subseteq Behind(node, i) /\ i \notin Hull(node, j)
        /\ i \notin Behind(node, j)
  BY <1>2, <1>3, HullWithin, HullStep, NotBoth DEF Behind
<1>5. B \subseteq Hull(node, f) /\ f \in Hull(node, f) /\ f \notin B /\ n \notin B
  BY <1>1, <1>3, HullStep
<1>6. \A i, j \in B \cup {f} : i = j \/ j \in Behind(node, i) \/ i \in Behind(node, j)
  BY <1>1, <1>5, HullLinear
<1>7. M # {} => /\ LastOf(node, M) \in M
                /\ \A j \in M : LastOf(node, M) \in Hull(node, j)
  BY <1>1, <1>5, LastIs
<1>8. \A i \in M : behind(i) # {} =>
        /\ LastOf(node, behind(i)) \in behind(i)
        /\ \A j \in behind(i) : LastOf(node, behind(i)) \in Hull(node, j)
  <2> TAKE i \in M
  <2>1. behind(i) \subseteq Hull(node, f)
    BY <1>1, <1>5
  <2> HIDE DEF behind
  <2> QED
    BY <1>1, <2>1, LastIs
<1>9. \A i \in stay \cup {f} : after(i) # {} =>
        /\ FirstOf(node, after(i)) \in after(i)
        /\ after(i) \subseteq Hull(node, FirstOf(node, after(i)))
  <2> TAKE i \in stay \cup {f}
  <2>1. after(i) \subseteq Hull(node, f)
    BY <1>5
  <2> HIDE DEF after
  <2> QED
    BY <1>1, <2>1, FirstIs
<1>10. LastOf(node, {}) = None /\ FirstOf(node, {}) = None
  BY DEF LastOf, FirstOf
<1>11. new[n].next \in M \cup {None}
  BY <1>1, <1>7, <1>10
<1>12. \A i \in M : new[i].next \in behind(i) \cup {None}
  <2> HIDE DEF behind
  <2> QED
    BY <1>1, <1>8, <1>10
<1>13. \A i \in stay \cup {f} : new[i].next \in after(i) \cup {None}
  <2> HIDE DEF after
  <2> QED
    BY <1>1, <1>9, <1>10
<1>14. \A i \in D : other(i) => new[i].next = node[i].next /\ node[i].next \notin B
  <2> SUFFICES ASSUME NEW i \in D, other(i), node[i].next \in B
               PROVE  FALSE
    BY <1>1
  <2>1. node[f].next \in D
    BY <1>1, <1>2, HullHas DEF Behind
  <2>2. \E p \in B \cup {f} : node[p].next = node[i].next
    BY <2>1, HullFrom DEF Behind
  <2> QED
    BY <1>1, <1>2, <1>3, <2>2 DEF Apart
<1>15. \A i \in D : i \in M \/ i = n \/ i \in stay \cup {f} \/ other(i)
  OBVIOUS
<1>16. Wired(new) /\ \A i \in D : new[i].next \in B \cup {None, node[i].next}
  <2>1. \A i \in D : new[i].next \in B \cup {None, node[i].next}
    BY <1>1, <1>11, <1>12, <1>13, <1>14
  <2> QED
    BY <1>1, <1>2, <1>3, <2>1 DEF Wired
<1>17. ASSUME NEW i \in D
       PROVE  i \notin Behind(new, i)
  <2>1. CASE i = n
    <3>1. Leads(new, M)
      BY <1>12 DEF Leads
    <3> QED
      BY <1>1, <1>3, <1>5, <1>11, <1>16, <2>1, <3>1, NotReached
  <2>2. CASE i \in M
    <3>1. \A j \in behind(i) : behind(j) \subseteq behind(i)
      BY <1>1, <1>3, <1>4
    <3>2. Leads(new, behind(i)) /\ new[i].next \in behind(i) \cup {None}
      BY <1>12, <2>2, <3>1 DEF Leads
    <3>3. i \notin behind(i) /\ behind(i) \subseteq DOMAIN new
      BY <1>1, <1>3, <2>2
    <3> HIDE DEF behind
    <3> QED
      BY <1>1, <1>16, <3>2, <3>3, NotReached
  <2>3. CASE i \in stay \cup {f} \/ other(i)
    <3> DEFINE T == Behind(node, i) \ M
    <3>1. new[i].next \in T \cup {None}
      BY <1>1, <1>3, <1>13, <1>14, <2>3
    <3>2. ASSUME NEW j \in T
          PROVE  new[j].next \in T \cup {None}
      <4>1. j \in D /\ j # n /\ Behind(node, j) \subseteq Behind(node, i)
            /\ node[j].next \in Behind(node, i) \cup {None}
        BY <1>3, <1>4 DEF Leads
      <4>2. CASE j \in stay \cup {f}
        BY <1>13, <4>1, <4>2
      <4>3. CASE other(j)
        BY <1>1, <1>14, <4>1, <4>3
      <4> QED
        BY <1>15, <4>1, <4>2, <4>3
    <3>3. i \notin T /\ T \subseteq DOMAIN new
      BY <1>1, <1>3
    <3> HIDE DEF T
    <3> QED
      BY <1>1, <1>16, <3>1, <3>2, <3>3, NotReached DEF Leads
  <2> QED
    BY <1>15, <2>1, <2>2, <2>3
<1>18. /\ \A i \in M \cup {n} : new[i].next \in M \cup {None}
       /\ \A i \in stay \cup {f} : new[i].next \in stay \cup {None}
       /\ \A i \in D : other(i) => new[i].next \notin B
       /\ M \subseteq B /\ M \cap stay = {}
  BY <1>1, <1>11, <1>12, <1>13, <1>14
<1>19. ASSUME NEW p \in D, NEW q \in D, new[p].next = new[q].next, new[p].next # None
       PROVE  p = q
  <2> DEFINE c == new[p].next
  <2>1. CASE c \in M
    <3>1. p \in M \cup {n} /\ q \in M \cup {n}
      BY <1>15, <1>18, <1>19, <2>1
    <3>2. ASSUME NEW r \in M, c = LastOf(node, M), c \in behind(r)
          PROVE  FALSE
      BY <1>1, <1>3, <1>4, <1>7, <3>2
    <3>3. ASSUME NEW r \in M, NEW s \in M, c = LastOf(node, behind(r)), c = LastOf(node, behind(s)),
                 r # s, c \in behind(r), c \in behind(s)
          PROVE  FALSE
      <4>1. s \in Behind(node, r) \/ r \in Behind(node, s)
        BY <1>1, <1>6, <3>3
      <4>2. CASE s \in Behind(node, r)
        <5>1. r \in behind(s)
          BY <4>2
        <5>2. c \in Hull(node, r)
          BY <1>8, <3>3, <5>1
        <5> QED
          BY <1>1, <1>3, <1>4, <3>3, <5>2
      <4>3. CASE r \in Behind(node, s)
        <5>1. s \in behind(r)
          BY <4>3
        <5>2. c \in Hull(node, s)
          BY <1>8, <3>3, <5>1
        <5> QED
          BY <1>1, <1>3, <1>4, <3>3, <5>2
      <4> QED
        BY <4>1, <4>2, <4>3
    <3>4. \A r \in M : c = new[r].next => c = LastOf(node, behind(r)) /\ c \in behind(r)
      BY <1>12, <1>1, <1>19
    <3>5. c = new[n].next => c = LastOf(node, M)
      BY <1>1
    <3> HIDE DEF behind, c
    <3>6. c = new[p].next /\ c = new[q].next
      BY <1>19 DEF c
    <3> QED
      BY <3>1, <3>2, <3>3, <3>4, <3>5, <3>6
  <2>2. CASE c \in stay
    <3>1. p \in stay \cup {f} /\ q \in stay \cup {f}
      BY <1>15, <1>18, <1>19, <2>2
    <3>2. ASSUME NEW r \in stay \cup {f}, NEW s \in stay \cup {f}, s \in Behind(node, r),
                 c = FirstOf(node, after(r)), after(r) # {}, c \in after(s)
          PROVE  FALSE
      <4>1. s # f
        BY <1>1, <1>3, <1>4, <3>2
      <4>2. s \in after(r)
        BY <3>2, <4>1
      <4>3. s \in Hull(node, c)
        BY <1>9, <3>2, <4>2
      <4> QED
        BY <1>1, <1>3, <1>4, <3>2, <4>3
    <3>3. \A r \in stay \cup {f} : c = new[r].next =>
             c = FirstOf(node, after(r)) /\ c \in after(r) /\ after(r) # {}
      BY <1>1, <1>13, <1>19
    <3>4. p = q \/ q \in Behind(node, p) \/ p \in Behind(node, q)
      BY <1>6, <3>1
    <3> HIDE DEF after, c
    <3>5. c = new[p].next /\ c = new[q].next
      BY <1>19 DEF c
    <3> QED
      BY <3>1, <3>2, <3>3, <3>4, <3>5
  <2>3. CASE c \notin B
    <3>1. other(p) /\ other(q)
      BY <1>15, <1>18, <1>19, <2>3
    <3> QED
      BY <1>14, <1>19, <3>1 DEF Apart
  <2> QED
    BY <2>1, <2>2, <2>3
<1> QED
  BY <1>1, <1>16, <1>17, <1>19 DEF Acyclic, Apart

-----------------------------------------------------------------------------
\* The invariant.  First what holds of a table x in every program.
TableKeys == Addresses \cup (world.keys \ Strings)
Values == TableKeys \cup {Nil}
NodesOver(D) == [key : Values, val : Values, next : D \cup {None}]
Powers == {2^b : b \in Nat}

\* It has an array, a power of two of nodes, and a top of the free ones; the
\* array has values of the program's integers only.
Shape(x) ==
  /\ x = [array |-> x.array, node |-> x.node, free |-> x.free]
  /\ ASize(x) \in Nat /\ x.array \in [0..(ASize(x) - 1) -> Values]
  /\ Size(x) \in Powers
  /\ x.node \in [0..(Size(x) - 1) -> NodesOver(0..(Size(x) - 1))]
  /\ x.free \in 0..Size(x)
  /\ \A i \in DOMAIN x.array : x.array[i] # Nil => i \in world.keys

\* A node without a key has nothing and is in no chain; from the top of the
\* free nodes on there is none.
Filled(x) ==
  /\ \A n \in DOMAIN x.node : x.node[n].key = Nil => x.node[n].val = Nil /\ x.node[n].next = None
  /\ \A n \in DOMAIN x.node : x.node[n].next # None => x.node[x.node[n].next].key # Nil
  /\ Size(x) = 1 => x.free = 0 /\ x.node = NewNodes(0)
  /\ Size(x) > 1 => \A n \in DOMAIN x.node : n >= x.free => x.node[n].key # Nil

\* The string of a live key has not been freed: s tells the strings.
Named(s, k) == k \in Addresses => s[k] \in world.keys \cap Strings
LiveNamed(s, x) == \A n \in DOMAIN x.node : x.node[n].val # Nil => Named(s, x.node[n].key)

Good(s, x) ==
  Shape(x) /\ Filled(x) /\ Acyclic(x.node) /\ Apart(x.node) /\ LiveNamed(s, x)

\* Then what holds where every key keeps its hash, which c tells: every key,
\* dead or live, is in the chain of its home, which is home to its own key,
\* and nowhere else.
Keyed(x) == {n \in DOMAIN x.node : x.node[n].key # Nil}
Home(c, x, n) == Main(c, x, x.node[n].key)
Placed(c, x) ==
  /\ \A n \in Keyed(x) : Named(c, x.node[n].key)
  /\ \A n \in Keyed(x) : n \in Hull(x.node, Home(c, x, n))
  /\ \A n \in Keyed(x) : Home(c, x, n) \in Keyed(x) /\ Home(c, x, Home(c, x, n)) = Home(c, x, n)
  /\ \A m, n \in Keyed(x) : x.node[m].key = x.node[n].key => m = n
  /\ \A n \in Keyed(x) : ~InArray(x, x.node[n].key)

\* Keys are neither Nil nor NoKey.
LEMMA KeyFacts ==
  ASSUME world \in Worlds
  PROVE  /\ Nil \notin TableKeys /\ NoKey \notin TableKeys /\ None \notin Nat
         /\ TableKeys \cap Strings = {}
         /\ \A S \in SUBSET world.keys : S # Nil
<1>1. world.keys \subseteq Strings \cup Numbers \cup Nat
  BY WorldAssumption
<1>2. \A S \in SUBSET world.keys : S # Nil
  BY KeyAssumption
<1>3. TableKeys \subseteq Addresses \cup Numbers \cup Nat
  BY <1>1 DEF TableKeys
<1>4. /\ (Strings \cup Addresses \cup {Nil, NoKey}) \cap (Numbers \cup Nat) = {}
      /\ Addresses \cap (Strings \cup {Nil, NoKey}) = {}
  BY KeyAssumption
<1> QED
  BY <1>2, <1>3, <1>4 DEF None

\* What the shape of a table gives: its sizes, and a home for every key.
LEMMA ShapeFacts ==
  ASSUME NEW x, Shape(x)
  PROVE  /\ Size(x) \in Nat /\ Size(x) >= 1
         /\ DOMAIN x.node = 0..(Size(x) - 1)
         /\ Wired(x.node)
         /\ DOMAIN x.array = 0..(ASize(x) - 1)
         /\ \A n \in DOMAIN x.node : /\ x.node[n] \in NodesOver(DOMAIN x.node)
                                     /\ x.node[n].key \in Values /\ x.node[n].val \in Values
                                     /\ x.node[n].next \in DOMAIN x.node \cup {None}
<1>1. Size(x) \in Nat /\ Size(x) >= 1
  <2>1. PICK b \in Nat : Size(x) = 2^b
    BY DEF Shape, Powers
  <2> QED
    BY <2>1, PowerOfTwo
<1>2. DOMAIN x.node = 0..(Size(x) - 1) /\ DOMAIN x.array = 0..(ASize(x) - 1)
  BY DEF Shape
<1>3. \A n \in DOMAIN x.node : x.node[n] \in NodesOver(DOMAIN x.node)
  BY DEF Shape
<1>4. IsFiniteSet(DOMAIN x.node) /\ None \notin DOMAIN x.node
  <2>1. IsFiniteSet(0..(Size(x) - 1))
    BY <1>1, FS_Interval
  <2> QED
    BY <1>1, <1>2, <2>1 DEF None
<1> QED
  BY <1>1, <1>2, <1>3, <1>4 DEF Wired, NodesOver

\* The home of a key that has a hash is a node of the table.
LEMMA MainFacts ==
  ASSUME world \in Worlds, NEW x, Shape(x), NEW s, NEW k \in TableKeys, Named(s, k)
  PROVE  Main(s, x, k) \in DOMAIN x.node
<1>1. Hash(s, k) \in Nat
  BY WorldAssumption DEF Hash, Named, TableKeys
<1> QED
  BY <1>1, ShapeFacts DEF Main

\* A table with the same next pointers has the same chains.
LEMMA SameNext ==
  ASSUME NEW node, NEW new, DOMAIN new = DOMAIN node, Wired(node), Acyclic(node), Apart(node),
         \A i \in DOMAIN node : new[i].next = node[i].next
  PROVE  /\ Wired(new) /\ Acyclic(new) /\ Apart(new)
         /\ \A i \in DOMAIN node : Hull(new, i) = Hull(node, i)
<1>1. \A T \in SUBSET DOMAIN node : Leads(new, T) <=> Leads(node, T)
  BY DEF Leads
<1>2. \A i \in DOMAIN node \cup {None} : Hull(new, i) = Hull(node, i)
  BY <1>1 DEF Hull
<1> QED
  BY <1>2 DEF Wired, Acyclic, Apart, Behind

\* What the code does to the nodes behind f is what was called reweaving, and
\* nothing if there are no strays.
LEMMA RechainedIs ==
  ASSUME NEW x, Wired(x.node), Acyclic(x.node), NEW s,
         x.node \in [DOMAIN x.node -> NodesOver(DOMAIN x.node)],
         NEW n \in DOMAIN x.node, NEW f \in DOMAIN x.node, n # f,
         Isolated(x.node, n), x.node[n].next = None
  PROVE  LET new == Rechained(s, x, n, f)
         IN  /\ Rewoven(x.node, new, n, f, Strays(s, x, n, f))
             /\ \A i \in DOMAIN x.node :
                  new[i] = [key |-> x.node[i].key, val |-> x.node[i].val, next |-> new[i].next]
             /\ Strays(s, x, n, f) = {} => new = x.node
<1> DEFINE node == x.node
           D == DOMAIN node
           M == Strays(s, x, n, f)
           stay == Behind(node, f) \ M
           new == Rechained(s, x, n, f)
<1>1. \A i \in D : Beyond(node, i) = Behind(node, i)
  BY ChainIsHull DEF Beyond, Behind, Wired
<1>2. M \subseteq Behind(node, f) /\ Behind(node, f) \subseteq D
  BY <1>1, HullHas DEF Strays, Behind, Wired
<1>3. f \notin Behind(node, f) /\ n \notin Behind(node, f)
  BY NotBehind DEF Acyclic, Behind, Wired, Isolated
<1>4. DOMAIN new = D
      /\ \A i \in D : new[i] = [key |-> node[i].key, val |-> node[i].val, next |-> new[i].next]
  BY DEF Rechained, NodesOver
<1>5. /\ new[n].next = LastOf(node, M)
      /\ \A i \in M : new[i].next = LastOf(node, {j \in M : i \in Behind(node, j)})
      /\ \A i \in stay \cup {f} : new[i].next = FirstOf(node, Behind(node, i) \cap stay)
      /\ \A i \in D \ (Behind(node, f) \cup {f, n}) : new[i].next = node[i].next
  <2> DEFINE next(i) ==
               CASE i = n -> LastOf(node, M)
                 [] i \in M -> LastOf(node, {j \in M : i \in Beyond(node, j)})
                 [] i \in (Beyond(node, f) \ M) \cup {f} ->
                      FirstOf(node, Beyond(node, i) \cap (Beyond(node, f) \ M))
                 [] OTHER -> node[i].next
  <2>1. \A i \in D : new[i].next = next(i)
    <3>1. new = [i \in D |-> [node[i] EXCEPT !.next = next(i)]]
      BY DEF Rechained
    <3> HIDE DEF next, new
    <3> QED
      BY <3>1 DEF NodesOver
  <2>2. \A i \in M : {j \in M : i \in Beyond(node, j)} = {j \in M : i \in Behind(node, j)}
    BY <1>1, <1>2
  <2>3. \A i \in stay \cup {f} :
          Beyond(node, i) \cap (Beyond(node, f) \ M) = Behind(node, i) \cap stay
    BY <1>1, <1>2
  <2>4. next(n) = LastOf(node, M)
    BY <1>1, <1>2, <1>3
  <2>5. \A i \in M : next(i) = LastOf(node, {j \in M : i \in Behind(node, j)})
    BY <1>2, <1>3, <2>2
  <2>6. \A i \in stay \cup {f} : next(i) = FirstOf(node, Behind(node, i) \cap stay)
    BY <1>1, <1>2, <1>3, <2>3
  <2>7. \A i \in D \ (Behind(node, f) \cup {f, n}) : next(i) = node[i].next
    BY <1>1, <1>2
  <2> HIDE DEF next, new
  <2> QED
    BY <1>2, <2>1, <2>4, <2>5, <2>6, <2>7
<1>6. Rewoven(node, new, n, f, M)
  <2> HIDE DEF M, new
  <2> QED
    BY <1>2, <1>4, <1>5 DEF Rewoven
<1>7. ASSUME M = {}
      PROVE  new = node
  <2>1. new[n].next = node[n].next
    BY <1>5, <1>7 DEF LastOf
  <2>2. ASSUME NEW i \in Behind(node, f) \cup {f}
        PROVE  new[i].next = node[i].next
    <3> DEFINE S == Behind(node, i)
    <3>1. i \in D /\ node[i].next \in D \cup {None} /\ None \notin D
      BY <1>2 DEF Wired
    <3>2. S \subseteq Behind(node, f)
      BY <1>2, <3>1, HullWithin DEF Wired, Behind
    <3>3. new[i].next = FirstOf(node, S)
      <4>1. S \cap stay = S
        BY <1>7, <3>2
      <4> QED
        BY <1>5, <1>7, <4>1
    <3>4. CASE node[i].next = None
      <4>1. S = {}
        BY <3>4, HullHas DEF Behind
      <4> QED
        BY <3>3, <3>4, <4>1 DEF FirstOf
    <3>5. CASE node[i].next # None
      <4> DEFINE c == FirstOf(node, S)
      <4>1. node[i].next \in S
        BY <3>1, <3>5, HullHas DEF Behind
      <4>2. c \in S /\ S \subseteq Hull(node, c)
        BY <3>1, <4>1, FirstIs DEF Behind
      <4>3. c = node[i].next \/ c \in Behind(node, node[i].next)
        <5>1. Hull(node, node[i].next) = {node[i].next} \cup Behind(node, node[i].next)
          BY <3>1, <3>5, HullStep
        <5> QED
          BY <4>2, <5>1 DEF Behind
      <4>4. c = node[i].next
        BY <1>2, <3>1, <3>2, <3>5, <4>1, <4>2, <4>3, NotBoth
      <4> QED
        BY <3>3, <4>4
    <3> QED
      BY <3>4, <3>5
  <2>3. \A i \in D : new[i].next = node[i].next
    BY <1>5, <2>1, <2>2
  <2>4. \A i \in D : new[i] = node[i]
    <3>1. \A i \in D : node[i] = [key |-> node[i].key, val |-> node[i].val, next |-> node[i].next]
      BY DEF NodesOver
    <3> HIDE DEF new, node
    <3> QED
      BY <1>4, <2>3, <3>1
  <2>5. node = [i \in D |-> node[i]]
    OBVIOUS
  <2>6. new = [i \in D |-> new[i]]
    BY DEF Rechained
  <2> HIDE DEF new
  <2> QED
    BY <2>4, <2>5, <2>6
<1> QED
  BY <1>4, <1>6, <1>7

-----------------------------------------------------------------------------
\* The last free node, when there is one: all behind it have keys, and it is
\* in no chain.
LEMMA FreeTop ==
  ASSUME NEW s, NEW x, Good(s, x), FreeNodes(x) # {}
  PROVE  LET f == Max(FreeNodes(x))
         IN  /\ Size(x) > 1 /\ f \in DOMAIN x.node /\ f \in 0..Size(x)
             /\ x.node[f].key = Nil /\ x.node[f].val = Nil /\ x.node[f].next = None
             /\ Isolated(x.node, f)
             /\ \A n \in DOMAIN x.node : x.node[n].key = Nil => n = f \/ n < f
<1> DEFINE F == FreeNodes(x)
           f == Max(F)
<1>1. /\ Size(x) \in Nat /\ Size(x) >= 1 /\ DOMAIN x.node = 0..(Size(x) - 1)
      /\ x.free \in 0..Size(x)
  BY ShapeFacts DEF Good, Shape
<1>2. F \subseteq 0..(Size(x) - 1) /\ \A n \in F : n < x.free /\ x.node[n].key = Nil
  BY <1>1 DEF FreeNodes
<1>3. Size(x) > 1
  <2>1. PICK n \in F : n \in 0..(Size(x) - 1) /\ n < x.free
    BY <1>2
  <2>2. Size(x) # 1
    BY <1>1, <2>1 DEF Good, Filled
  <2> QED
    BY <1>1, <2>2
<1>4. f \in F /\ \A n \in F : n <= f
  <2>1. F \subseteq Nat /\ F # {} /\ \A n \in F : n <= Size(x)
    BY <1>1, <1>2
  <2> HIDE DEF F
  <2> QED
    BY <1>1, <2>1, NatMax
<1>5. f \in 0..(Size(x) - 1) /\ f < x.free /\ x.node[f].key = Nil
  BY <1>2, <1>4
<1>6. \A n \in DOMAIN x.node : x.node[n].key = Nil => n = f \/ n < f
  <2> SUFFICES ASSUME NEW n \in 0..(Size(x) - 1), x.node[n].key = Nil
               PROVE  n = f \/ n < f
    BY <1>1
  <2>1. n < x.free
    BY <1>1, <1>3 DEF Good, Filled
  <2>2. n \in F
    BY <1>1, <2>1 DEF FreeNodes
  <2> QED
    BY <1>1, <1>4, <1>5, <2>2
<1>7. Isolated(x.node, f)
  BY <1>1, <1>5, ShapeFacts DEF Isolated, Good, Filled, None
<1> HIDE DEF f
<1>8. x.node[f].val = Nil /\ x.node[f].next = None
  BY <1>1, <1>5 DEF Good, Filled
<1>9. f \in 0..Size(x)
  BY <1>1, <1>5
<1> QED
  BY <1>1, <1>3, <1>5, <1>6, <1>7, <1>8, <1>9 DEF f

\* A table stays a good one with other nodes.
LEMMA GoodNodes ==
  ASSUME NEW s, NEW x, Good(s, x), Size(x) > 1,
         NEW new \in [DOMAIN x.node -> NodesOver(DOMAIN x.node)], NEW f \in 0..Size(x),
         Acyclic(new), Apart(new),
         \A n \in DOMAIN x.node :
           /\ new[n].key = Nil => new[n].val = Nil /\ new[n].next = None /\ n < f
           /\ new[n].next # None => new[new[n].next].key # Nil
           /\ new[n].val # Nil => Named(s, new[n].key)
  PROVE  Good(s, [array |-> x.array, node |-> new, free |-> f])
<1> DEFINE y == [array |-> x.array, node |-> new, free |-> f]
<1>1. /\ DOMAIN x.node = 0..(Size(x) - 1) /\ Size(x) \in Nat /\ DOMAIN new = DOMAIN x.node
  BY ShapeFacts DEF Good
<1>2. /\ Size(y) = Size(x) /\ ASize(y) = ASize(x)
      /\ y.array = x.array /\ y.node = new /\ y.free = f
  BY <1>1 DEF Size, ASize
<1>3. y = [array |-> y.array, node |-> y.node, free |-> y.free]
  OBVIOUS
<1> HIDE DEF y
<1>4. Shape(y)
  BY <1>1, <1>2, <1>3 DEF Good, Shape
<1>5. Filled(y)
  <2>1. \A n \in DOMAIN new : n >= f => new[n].key # Nil
    BY <1>1
  <2> QED
    BY <1>1, <1>2, <2>1 DEF Filled
<1>6. LiveNamed(s, y)
  BY <1>1, <1>2 DEF LiveNamed
<1> QED
  BY <1>2, <1>4, <1>5, <1>6 DEF Good, y

-----------------------------------------------------------------------------
\* What lj_tab_newkey makes of the nodes: the home n of key k is free,
Taken(x, n, k) ==
  [i \in DOMAIN x.node |->
     IF i = n THEN [key |-> k, val |-> Nil, next |-> x.node[n].next] ELSE x.node[i]]
\* or has a key that is at home there, and the new one goes to f,
Added(x, n, f, k) ==
  [i \in DOMAIN x.node |->
     IF i = f THEN [key |-> k, val |-> Nil, next |-> x.node[n].next]
     ELSE IF i = n THEN [key |-> x.node[n].key, val |-> x.node[n].val, next |-> f]
     ELSE x.node[i]]
\* or has one that is not, and that one goes to f.
Cleared(x, before, n, f, k) ==
  [i \in DOMAIN x.node |->
     IF i = n THEN [key |-> k, val |-> Nil, next |-> None]
     ELSE IF i = f THEN x.node[n]
     ELSE IF i = before THEN [key |-> x.node[before].key, val |-> x.node[before].val, next |-> f]
     ELSE x.node[i]]
With(x, node, f) == [array |-> x.array, node |-> node, free |-> f]

\* lj_tab_newkey does one of these three things.
LEMMA NewKeyIs ==
  ASSUME world \in Worlds, NEW s, NEW x, Good(s, x), NEW k \in TableKeys, Named(s, k),
         ~NeedsFree(s, x, k) \/ FreeNodes(x) # {}, ~LostNode(s, x, k)
  PROVE  LET n == Main(s, x, k)
             f == Max(FreeNodes(x))
             y == NewKey(s, x, k)
         IN  /\ n \in DOMAIN x.node /\ Size(x) > 1
             /\ ~NeedsFree(s, x, k) => /\ x.node[n].val = Nil
                                       /\ y = With(x, Taken(x, n, k), x.free)
             /\ NeedsFree(s, x, k) /\ Home(s, x, n) = n =>
                  y = With(x, Added(x, n, f, k), f)
             /\ NeedsFree(s, x, k) /\ Home(s, x, n) # n =>
                  \E before \in DOMAIN x.node :
                    /\ x.node[before].next = n
                    /\ y = With(x, Rechained(s, With(x, Cleared(x, before, n, f, k), x.free), n, f), f)
             /\ NeedsFree(s, x, k) => x.node[n].val # Nil /\ x.node[n].key \in TableKeys
                                      /\ Named(s, x.node[n].key)
<1> DEFINE n == Main(s, x, k)
           f == Max(FreeNodes(x))
           D == DOMAIN x.node
           y == NewKey(s, x, k)
<1>1. n \in D
  BY MainFacts DEF Good
<1>2. Size(x) > 1
  <2>1. CASE ~NeedsFree(s, x, k)
    BY <2>1, ShapeFacts DEF NeedsFree, Good
  <2>2. CASE NeedsFree(s, x, k)
    BY <2>2, FreeTop
  <2> QED
    BY <2>1, <2>2
<1>3. /\ x.node \in [D -> NodesOver(D)]
      /\ x = [array |-> x.array, node |-> x.node, free |-> x.free]
      /\ \A i \in D : x.node[i] = [key |-> x.node[i].key, val |-> x.node[i].val, next |-> x.node[i].next]
  BY ShapeFacts DEF Good, Shape, NodesOver
<1>4. ASSUME ~NeedsFree(s, x, k)
      PROVE  x.node[n].val = Nil /\ y = With(x, Taken(x, n, k), x.free)
  <2>1. x.node[n].val = Nil
    BY <1>4 DEF NeedsFree
  <2>2. y = [x EXCEPT !.node[n].key = k]
    BY <1>4 DEF NewKey
  <2>3. [x.node EXCEPT ![n].key = k] = Taken(x, n, k)
    <3>1. [x.node[n] EXCEPT !.key = k] = [key |-> k, val |-> Nil, next |-> x.node[n].next]
      BY <1>1, <1>3, <2>1 DEF NodesOver
    <3> HIDE DEF n
    <3> QED
      BY <1>1, <1>3, <3>1 DEF Taken
  <2>4. [x EXCEPT !.node[n].key = k] = [x EXCEPT !.node = [x.node EXCEPT ![n].key = k]]
    BY <1>3
  <2> HIDE DEF y, n
  <2> QED
    BY <1>3, <2>1, <2>2, <2>3, <2>4 DEF With
<1>5. ASSUME NeedsFree(s, x, k)
      PROVE  x.node[n].val # Nil /\ x.node[n].key \in TableKeys /\ Named(s, x.node[n].key)
  <2>1. x.node[n].val # Nil
    BY <1>2, <1>5 DEF NeedsFree
  <2>2. x.node[n].key \in TableKeys
    BY <1>1, <2>1, ShapeFacts DEF Good, Filled, Values
  <2> QED
    BY <1>1, <2>1, <2>2 DEF Good, LiveNamed
<1>6. ASSUME NeedsFree(s, x, k), Home(s, x, n) = n
      PROVE  y = With(x, Added(x, n, f, k), f)
  <2>1. f \in D
    BY <1>6, FreeTop
  <2>2. y = [x EXCEPT !.node = [@ EXCEPT ![f] = [key |-> k, val |-> Nil, next |-> x.node[n].next],
                                         ![n].next = f],
                      !.free = f]
    BY <1>6 DEF NewKey, Home
  <2>3. f # n
    BY <1>5, <1>6, FreeTop
  <2>4. [x.node EXCEPT ![f] = [key |-> k, val |-> Nil, next |-> x.node[n].next],
                       ![n].next = f] = Added(x, n, f, k)
    <3> HIDE DEF n, f
    <3>1. [x.node[n] EXCEPT !.next = f] = [key |-> x.node[n].key, val |-> x.node[n].val, next |-> f]
      BY <1>1, <1>3 DEF NodesOver
    <3> QED
      BY <1>1, <1>3, <2>1, <2>3, <3>1 DEF Added
  <2> HIDE DEF y, n, f
  <2> QED
    BY <1>3, <2>2, <2>4 DEF With
<1>7. ASSUME NeedsFree(s, x, k), Home(s, x, n) # n
      PROVE  \E before \in D :
                    /\ x.node[before].next = n
                    /\ y = With(x, Rechained(s, With(x, Cleared(x, before, n, f, k), x.free), n, f), f)
  <2> DEFINE before == CHOOSE p \in Anchored(s, x, n) : x.node[p].next = n
             moved == [x.node EXCEPT ![before].next = f, ![f] = x.node[n],
                                     ![n] = [key |-> k, val |-> Nil, next |-> None]]
  <2>1. f \in D /\ x.node[f].val = Nil /\ x.node[f].next = None
    BY <1>7, FreeTop
  <2>2. Wired(x.node) /\ Home(s, x, n) \in D
    BY <1>5, <1>7, ShapeFacts, MainFacts DEF Good, Home
  <2>3. Anchored(s, x, n) = Hull(x.node, Home(s, x, n))
    BY <2>2, ChainIsHull DEF Anchored, Home, Good
  <2>4. n \in Hull(x.node, Home(s, x, n))
    BY <1>7, <2>3 DEF LostNode
  <2>5. \E p \in Anchored(s, x, n) : x.node[p].next = n
    BY <1>7, <2>2, <2>3, <2>4, HullFrom
  <2>6. before \in D /\ x.node[before].next = n
    BY <2>2, <2>3, <2>5, HullHas
  <2>7. before # f /\ before # n
    <3>1. f # n
      BY <1>5, <1>7, <2>1
    <3>2. n \in Behind(x.node, before)
      <4>1. n # None
        BY <1>1, <2>2 DEF Wired
      <4>2. n \in Hull(x.node, n)
        BY <1>1, <2>2, <4>1, HullHas
      <4> QED
        BY <2>6, <4>2 DEF Behind
    <3> HIDE DEF n, f, before
    <3> QED
      BY <1>1, <2>1, <2>2, <2>6, <3>2 DEF Good, Acyclic, Wired
  <2>8. y = [x EXCEPT !.node = Rechained(s, [x EXCEPT !.node = moved], n, f), !.free = f]
    BY <1>7 DEF NewKey, Home
  <2>9. moved = Cleared(x, before, n, f, k)
    <3> HIDE DEF n, f, before
    <3>1. [x.node[before] EXCEPT !.next = f]
            = [key |-> x.node[before].key, val |-> x.node[before].val, next |-> f]
      BY <1>3, <2>6 DEF NodesOver
    <3> QED
      BY <1>1, <1>3, <2>1, <2>6, <2>7, <3>1 DEF Cleared
  <2>10. [x EXCEPT !.node = moved] = With(x, Cleared(x, before, n, f, k), x.free)
    <3> HIDE DEF moved, n, f, before
    <3> QED
      BY <1>3, <2>9 DEF With
  <2>11. y = With(x, Rechained(s, With(x, Cleared(x, before, n, f, k), x.free), n, f), f)
    <3> HIDE DEF moved, n, f, before, y
    <3> QED
      BY <1>3, <2>8, <2>10 DEF With
  <2> HIDE DEF y, n, f, before, moved
  <2> QED
    BY <2>6, <2>11
<1> QED
  BY <1>1, <1>2, <1>4, <1>5, <1>6, <1>7

\* A good table with one more key: y has it where its hash leads, and has no
\* other keys than x and it.
Gains(s, x, y, k) ==
  /\ Good(s, y) /\ y.array = x.array /\ DOMAIN y.node = DOMAIN x.node
  /\ Holding(s, y, k) # {}
  /\ \A i \in DOMAIN x.node :
       y.node[i].key = k \/ \E j \in DOMAIN x.node : y.node[i].key = x.node[j].key

\* The first of them: a free home takes the key.
LEMMA TakenGains ==
  ASSUME world \in Worlds, NEW s, NEW x, Good(s, x), Size(x) > 1, NEW k \in TableKeys, Named(s, k),
         Main(s, x, k) \in DOMAIN x.node, x.node[Main(s, x, k)].val = Nil
  PROVE  LET new == Taken(x, Main(s, x, k), k)
         IN  /\ Gains(s, x, With(x, new, x.free), k)
             /\ \A i \in DOMAIN x.node : Hull(new, i) = Hull(x.node, i)
<1> DEFINE n == Main(s, x, k)
           D == DOMAIN x.node
           new == Taken(x, n, k)
           y == With(x, new, x.free)
<1>1. Wired(x.node) /\ x.node \in [D -> NodesOver(D)] /\ x.free \in 0..Size(x) /\ Nil \notin TableKeys
  BY ShapeFacts, KeyFacts DEF Good, Shape
<1>2. /\ DOMAIN new = D
      /\ \A i \in D : /\ new[i].next = x.node[i].next /\ new[i].val = x.node[i].val
                      /\ new[i].key = IF i = n THEN k ELSE x.node[i].key
  <2>1. x.node[n].val = Nil
    OBVIOUS
  <2> HIDE DEF n
  <2> QED
    BY <1>1, <2>1 DEF Taken
<1>3. Wired(new) /\ Acyclic(new) /\ Apart(new) /\ \A i \in D : Hull(new, i) = Hull(x.node, i)
  <2> HIDE DEF new
  <2> QED
    BY <1>1, <1>2, SameNext DEF Good
<1>4. new \in [D -> NodesOver(D)]
  BY <1>1 DEF Taken, NodesOver, Values
<1>5. Good(s, y)
  <2>1. \A i \in D :
          /\ new[i].key = Nil => new[i].val = Nil /\ new[i].next = None /\ i < x.free
          /\ new[i].next # None => new[new[i].next].key # Nil
          /\ new[i].val # Nil => Named(s, new[i].key)
    <3> SUFFICES ASSUME NEW i \in D
                 PROVE  /\ new[i].key = Nil => new[i].val = Nil /\ new[i].next = None /\ i < x.free
                        /\ new[i].next # None => new[new[i].next].key # Nil
                        /\ new[i].val # Nil => Named(s, new[i].key)
      OBVIOUS
    <3>1. x.node[i].key = Nil => i < x.free
      <4>1. i \in Nat /\ Size(x) \in Nat
        BY ShapeFacts DEF Good
      <4> QED
        BY <1>1, <4>1 DEF Good, Filled
    <3>2. x.node[i].next \in D \cup {None}
      BY <1>1 DEF Wired
    <3>3. /\ x.node[i].key = Nil => x.node[i].val = Nil /\ x.node[i].next = None
          /\ x.node[i].next # None => x.node[x.node[i].next].key # Nil
          /\ x.node[i].val # Nil => Named(s, x.node[i].key)
      BY DEF Good, Filled, LiveNamed
    <3> HIDE DEF new, n
    <3> QED
      BY <1>1, <1>2, <3>1, <3>2, <3>3
  <2> HIDE DEF new
  <2> QED
    BY <1>1, <1>3, <1>4, <2>1, GoodNodes DEF With
<1>6. Holding(s, y, k) # {}
  <2>1. Size(y) = Size(x) /\ y.node = new
    BY <1>2 DEF Size, With
  <2>2. Main(s, y, k) = n
    BY <2>1 DEF Main
  <2>3. n \in Chain(new, n)
    BY <1>1, <1>2, <1>3, ChainIsHull, HullHas DEF Wired
  <2>4. new[n].key = k
    BY <1>2
  <2> HIDE DEF new, n, y
  <2> QED
    BY <2>1, <2>2, <2>3, <2>4 DEF Holding
<1>7. y.array = x.array /\ y.node = new
  BY DEF With
<1>8. \A i \in D : new[i].key = k \/ \E j \in D : new[i].key = x.node[j].key
  BY <1>2
<1> HIDE DEF new, y
<1> QED
  BY <1>2, <1>3, <1>5, <1>6, <1>7, <1>8 DEF Gains, y, new

\* The second: the key goes to the node f behind its home.
LEMMA AddedGains ==
  ASSUME world \in Worlds, NEW s, NEW x, Good(s, x), NEW k \in TableKeys, Named(s, k),
         NEW n \in DOMAIN x.node, n = Main(s, x, k), x.node[n].val # Nil, FreeNodes(x) # {}
  PROVE  LET f == Max(FreeNodes(x))
             new == Added(x, n, f, k)
         IN  /\ Gains(s, x, With(x, new, f), k)
             /\ \A i \in DOMAIN x.node : Hull(x.node, i) \subseteq Hull(new, i)
             /\ f \in Hull(new, n) /\ f \in DOMAIN x.node /\ f # n /\ x.node[f].key = Nil
<1> DEFINE D == DOMAIN x.node
           f == Max(FreeNodes(x))
           new == Added(x, n, f, k)
           y == With(x, new, f)
<1>1. Wired(x.node) /\ x.node \in [D -> NodesOver(D)] /\ Nil \notin TableKeys
  BY ShapeFacts, KeyFacts DEF Good, Shape
<1>2. /\ Size(x) > 1 /\ f \in D /\ f \in 0..Size(x)
      /\ x.node[f].key = Nil /\ x.node[f].val = Nil /\ x.node[f].next = None
      /\ Isolated(x.node, f)
      /\ \A i \in D : x.node[i].key = Nil => i = f \/ i < f
  BY FreeTop
<1>3. f # n
  BY <1>2
<1>4. /\ DOMAIN new = D
      /\ \A i \in D :
           /\ new[i].next = IF i = f THEN x.node[n].next ELSE IF i = n THEN f ELSE x.node[i].next
           /\ new[i].key = IF i = f THEN k ELSE x.node[i].key
           /\ new[i].val = x.node[i].val
  <2> HIDE DEF f
  <2> QED
    BY <1>1, <1>2 DEF Added
<1> HIDE DEF f
<1>5. Inserted(x.node, new, n, f)
  <2> HIDE DEF new
  <2> QED
    BY <1>2, <1>3, <1>4 DEF Inserted
<1>6. /\ Wired(new) /\ Acyclic(new) /\ Apart(new)
      /\ \A i \in D : Hull(x.node, i) \subseteq Hull(new, i)
      /\ f \in Hull(new, n)
  <2> HIDE DEF new
  <2> QED
    BY <1>1, <1>5, InsertKeeps DEF Good
<1>7. new \in [D -> NodesOver(D)]
  BY <1>1, <1>2 DEF Added, NodesOver, Values
<1>8. Good(s, y)
  <2>1. \A i \in D :
          /\ new[i].key = Nil => new[i].val = Nil /\ new[i].next = None /\ i < f
          /\ new[i].next # None => new[new[i].next].key # Nil
          /\ new[i].val # Nil => Named(s, new[i].key)
    <3> SUFFICES ASSUME NEW i \in D
                 PROVE  /\ new[i].key = Nil => new[i].val = Nil /\ new[i].next = None /\ i < f
                        /\ new[i].next # None => new[new[i].next].key # Nil
                        /\ new[i].val # Nil => Named(s, new[i].key)
      OBVIOUS
    <3>1. \A j \in D :
            /\ x.node[j].next \in D \cup {None}
            /\ x.node[j].key = Nil => x.node[j].val = Nil /\ x.node[j].next = None
            /\ x.node[j].next # None => x.node[x.node[j].next].key # Nil
            /\ x.node[j].val # Nil => Named(s, x.node[j].key)
      BY <1>1 DEF Good, Filled, LiveNamed, Wired
    <3>2. x.node[n].key # Nil
      BY <3>1
    <3> HIDE DEF new
    <3> QED
      BY <1>1, <1>2, <1>4, <3>1, <3>2
  <2> HIDE DEF new
  <2> QED
    BY <1>2, <1>6, <1>7, <2>1, GoodNodes DEF With
<1>9. Holding(s, y, k) # {}
  <2>1. Size(y) = Size(x) /\ y.node = new
    BY <1>4 DEF Size, With
  <2>2. Main(s, y, k) = n
    BY <2>1 DEF Main
  <2>3. f \in Chain(new, n)
    BY <1>4, <1>6, ChainIsHull
  <2>4. new[f].key = k
    BY <1>2, <1>4
  <2> HIDE DEF new, y
  <2> QED
    BY <2>1, <2>2, <2>3, <2>4 DEF Holding
<1>10. y.array = x.array /\ y.node = new
  BY DEF With
<1>11. \A i \in D : new[i].key = k \/ \E j \in D : new[i].key = x.node[j].key
  BY <1>4
<1> HIDE DEF new, y
<1> QED
  BY <1>2, <1>3, <1>4, <1>6, <1>8, <1>9, <1>10, <1>11 DEF Gains, y, new, f

\* The third, before strays are moved: what the nodes are then.
LEMMA ClearedIs ==
  ASSUME world \in Worlds, NEW s, NEW x, Good(s, x), NEW k \in TableKeys,
         NEW n \in DOMAIN x.node, x.node[n].val # Nil, FreeNodes(x) # {},
         NEW before \in DOMAIN x.node, x.node[before].next = n
  PROVE  LET D == DOMAIN x.node
             f == Max(FreeNodes(x))
             new == Cleared(x, before, n, f, k)
         IN  /\ f \in D /\ n # f /\ before # f /\ before # n /\ x.node[f].key = Nil
             /\ new \in [D -> NodesOver(D)]
             /\ \A i \in D :
                  /\ new[i].next = IF i = n THEN None ELSE IF i = f THEN x.node[n].next
                                   ELSE IF i = before THEN f ELSE x.node[i].next
                  /\ new[i].key = IF i = n THEN k ELSE IF i = f THEN x.node[n].key
                                  ELSE x.node[i].key
                  /\ new[i].val = IF i = n THEN Nil ELSE IF i = f THEN x.node[n].val
                                  ELSE x.node[i].val
             /\ Wired(new) /\ Acyclic(new) /\ Apart(new) /\ Isolated(new, n)
             /\ \A m \in D \ {n} : /\ Hull(x.node, m) \ {n} \subseteq Hull(new, m)
                                   /\ n \in Hull(x.node, m) => f \in Hull(new, m)
<1> DEFINE D == DOMAIN x.node
           f == Max(FreeNodes(x))
           new == Cleared(x, before, n, f, k)
<1>1. Wired(x.node) /\ x.node \in [D -> NodesOver(D)] /\ Nil \notin TableKeys
  BY ShapeFacts, KeyFacts DEF Good, Shape
<1>2. /\ f \in D /\ x.node[f].key = Nil /\ x.node[f].val = Nil /\ x.node[f].next = None
      /\ Isolated(x.node, f)
  BY FreeTop
<1>3. n # f /\ before # f /\ before # n
  <2>1. n # None /\ n \in Hull(x.node, n)
    BY <1>1, HullHas DEF Wired
  <2> QED
    BY <1>1, <1>2, <2>1 DEF Good, Acyclic, Behind
<1> HIDE DEF f
<1>4. /\ new \in [D -> NodesOver(D)] /\ DOMAIN new = D
      /\ \A i \in D :
                  /\ new[i].next = IF i = n THEN None ELSE IF i = f THEN x.node[n].next
                                   ELSE IF i = before THEN f ELSE x.node[i].next
                  /\ new[i].key = IF i = n THEN k ELSE IF i = f THEN x.node[n].key
                                  ELSE x.node[i].key
                  /\ new[i].val = IF i = n THEN Nil ELSE IF i = f THEN x.node[n].val
                                  ELSE x.node[i].val
  BY <1>1, <1>2, <1>3 DEF Cleared, NodesOver, Values
<1>5. Moved(x.node, new, before, n, f)
  <2> HIDE DEF new
  <2> QED
    BY <1>2, <1>3, <1>4 DEF Moved
<1> HIDE DEF new
<1>6. /\ Wired(new) /\ Acyclic(new) /\ Apart(new) /\ Isolated(new, n)
      /\ \A m \in D \ {n} : /\ Hull(x.node, m) \ {n} \subseteq Hull(new, m)
                            /\ n \in Hull(x.node, m) => f \in Hull(new, m)
  BY <1>1, <1>5, MoveKeeps DEF Good
<1> QED
  BY <1>2, <1>3, <1>4, <1>6 DEF new, f

\* The third, with strays moved: the key has its home, and no key is lost.
LEMMA ClearedGains ==
  ASSUME world \in Worlds, NEW s, NEW x, Good(s, x), NEW k \in TableKeys, Named(s, k),
         NEW n \in DOMAIN x.node, n = Main(s, x, k), x.node[n].val # Nil, FreeNodes(x) # {},
         NEW before \in DOMAIN x.node, x.node[before].next = n
  PROVE  LET f == Max(FreeNodes(x))
             z == With(x, Cleared(x, before, n, f, k), x.free)
         IN  /\ Gains(s, x, With(x, Rechained(s, z, n, f), f), k)
             /\ Strays(s, z, n, f) = {} => Rechained(s, z, n, f) = Cleared(x, before, n, f, k)
<1> DEFINE D == DOMAIN x.node
           f == Max(FreeNodes(x))
           old == Cleared(x, before, n, f, k)
           z == With(x, old, x.free)
           new == Rechained(s, z, n, f)
           y == With(x, new, f)
<1>1. /\ f \in D /\ n # f /\ before # f /\ before # n /\ x.node[f].key = Nil
      /\ old \in [D -> NodesOver(D)]
      /\ \A i \in D :
           /\ old[i].next = IF i = n THEN None ELSE IF i = f THEN x.node[n].next
                            ELSE IF i = before THEN f ELSE x.node[i].next
           /\ old[i].key = IF i = n THEN k ELSE IF i = f THEN x.node[n].key ELSE x.node[i].key
           /\ old[i].val = IF i = n THEN Nil ELSE IF i = f THEN x.node[n].val ELSE x.node[i].val
      /\ Wired(old) /\ Acyclic(old) /\ Apart(old) /\ Isolated(old, n)
  BY ClearedIs
<1>2. /\ Size(x) > 1 /\ f \in 0..Size(x) /\ \A i \in D : x.node[i].key = Nil => i = f \/ i < f
      /\ x.node[f].val = Nil /\ x.node[f].next = None /\ Isolated(x.node, f)
  BY FreeTop
<1>3. Nil \notin TableKeys /\ \A j \in D :
            /\ x.node[j].next \in D \cup {None}
            /\ x.node[j].key = Nil => x.node[j].val = Nil /\ x.node[j].next = None
            /\ x.node[j].next # None => x.node[x.node[j].next].key # Nil
            /\ x.node[j].val # Nil => Named(s, x.node[j].key)
  BY ShapeFacts, KeyFacts DEF Good, Filled, LiveNamed
<1> HIDE DEF f, old
<1>4. DOMAIN old = D /\ n \in DOMAIN old /\ f \in DOMAIN old /\ None \notin D
  BY <1>1 DEF Wired
<1>5. z.node = old /\ z.array = x.array
  BY DEF With
<1> HIDE DEF z
<1>6. /\ Rewoven(old, new, n, f, Strays(s, z, n, f))
      /\ \A i \in D : new[i] = [key |-> old[i].key, val |-> old[i].val, next |-> new[i].next]
      /\ Strays(s, z, n, f) = {} => new = old
  <2>1. /\ Wired(z.node) /\ Acyclic(z.node) /\ z.node \in [DOMAIN z.node -> NodesOver(DOMAIN z.node)]
        /\ n \in DOMAIN z.node /\ f \in DOMAIN z.node /\ n # f
        /\ Isolated(z.node, n) /\ z.node[n].next = None
    BY <1>1, <1>4, <1>5
  <2>2. /\ Rewoven(z.node, new, n, f, Strays(s, z, n, f))
        /\ \A i \in DOMAIN z.node :
             new[i] = [key |-> z.node[i].key, val |-> z.node[i].val, next |-> new[i].next]
        /\ Strays(s, z, n, f) = {} => new = z.node
    BY <2>1, RechainedIs
  <2> HIDE DEF new
  <2> QED
    BY <1>4, <1>5, <2>2
<1>7. DOMAIN new = D /\ new = [i \in D |-> new[i]]
  BY <1>4, <1>5 DEF Rechained
<1> HIDE DEF new
<1>8. /\ Wired(new) /\ Acyclic(new) /\ Apart(new)
      /\ \A i \in D : new[i].next \in Behind(old, f) \cup {None, old[i].next}
  <2> DEFINE M == Strays(s, z, n, f)
  <2>1. Rewoven(old, new, n, f, M)
    BY <1>6
  <2> HIDE DEF M
  <2> QED
    BY <1>1, <1>4, <2>1, ReweaveKeeps
<1>9. \A i \in D : new[i].key = old[i].key /\ new[i].val = old[i].val
  <2> TAKE i \in D
  <2>1. PICK j : new[i] = [key |-> old[i].key, val |-> old[i].val, next |-> j]
    BY <1>6
  <2> QED
    BY <2>1
<1>10. \A i \in D : old[i].next # None => old[i].next \in D /\ old[old[i].next].key # Nil
  <2>1. \A i \in D : x.node[i].next # None => x.node[i].next # f
    BY <1>2 DEF Isolated
  <2>2. x.node[n].key # Nil
    BY <1>3
  <2> QED
    BY <1>1, <1>3, <2>1, <2>2
<1>11. \A i \in D : new[i].next # None => new[i].next \in D /\ old[new[i].next].key # Nil
  <2>1. ASSUME NEW m \in Behind(old, f)
        PROVE  m \in D /\ old[m].key # Nil
    <3>1. old[f].next \in D /\ old[f].next # None
      BY <1>1, <1>4, <2>1, HullHas DEF Behind, Wired
    <3>2. CASE m = old[f].next
      BY <1>4, <1>10, <3>1, <3>2
    <3>3. CASE m # old[f].next
      <4>1. \E p \in Behind(old, f) : p \in D /\ old[p].next = m
        BY <1>1, <1>4, <2>1, <3>1, <3>3, HullFrom, HullHas DEF Behind
      <4>2. m \in D
        BY <1>1, <1>4, <2>1, <3>1, HullHas DEF Behind
      <4> QED
        BY <1>4, <1>10, <4>1, <4>2
    <3> QED
      BY <3>2, <3>3
  <2> QED
    BY <1>8, <1>10, <2>1
<1>12. new \in [D -> NodesOver(D)]
  <2>1. \A i \in D : new[i] \in NodesOver(D)
    <3> SUFFICES ASSUME NEW i \in D
                 PROVE  new[i] \in NodesOver(D)
      OBVIOUS
    <3>1. old[i].key \in Values /\ old[i].val \in Values /\ new[i].next \in D \cup {None}
      BY <1>1, <1>8, <1>7 DEF NodesOver, Wired
    <3>2. PICK j : j = new[i].next
      OBVIOUS
    <3>3. new[i] = [key |-> old[i].key, val |-> old[i].val, next |-> j]
      BY <1>6, <3>2
    <3> QED
      BY <3>1, <3>2, <3>3 DEF NodesOver
  <2> QED
    BY <1>7, <2>1
<1>13. Good(s, y)
  <2>1. \A i \in D :
          /\ new[i].key = Nil => new[i].val = Nil /\ new[i].next = None /\ i < f
          /\ new[i].next # None => new[new[i].next].key # Nil
          /\ new[i].val # Nil => Named(s, new[i].key)
    <3> SUFFICES ASSUME NEW i \in D
                 PROVE  /\ new[i].key = Nil => new[i].val = Nil /\ new[i].next = None /\ i < f
                        /\ new[i].next # None => new[new[i].next].key # Nil
                        /\ new[i].val # Nil => Named(s, new[i].key)
      OBVIOUS
    <3>1. ASSUME old[i].key = Nil
          PROVE  old[i].val = Nil /\ i < f /\ i # n /\ i # f /\ old[i].next = None
      <4>1. i # n /\ i # f
        BY <1>1, <1>3, <3>1
      <4>2. i # before
        BY <1>1, <1>3, <1>4, <3>1, <4>1
      <4> QED
        BY <1>1, <1>2, <1>3, <3>1, <4>1, <4>2
    <3>2. ASSUME old[i].key = Nil
          PROVE  new[i].next = None
      <4>1. i \notin Behind(old, f)
        <5> SUFFICES ASSUME i \in Behind(old, f)
                     PROVE  FALSE
          OBVIOUS
        <5>1. old[f].next \in D
          BY <1>1, <1>4, HullHas DEF Behind, Wired
        <5>2. CASE i = old[f].next
          BY <1>4, <1>10, <3>2, <5>1, <5>2
        <5>3. CASE i # old[f].next
          <6>1. \E p \in Behind(old, f) : p \in D /\ old[p].next = i
            BY <1>1, <1>4, <5>1, <5>3, HullFrom, HullHas DEF Behind
          <6> QED
            BY <1>4, <1>10, <3>2, <6>1
        <5> QED
          BY <5>2, <5>3
      <4> QED
        BY <1>4, <1>6, <3>1, <3>2, <4>1 DEF Rewoven
    <3>3. new[i].next # None => new[new[i].next].key # Nil
      BY <1>9, <1>11
    <3>4. old[i].val # Nil => Named(s, old[i].key)
      BY <1>1, <1>3
    <3> QED
      BY <1>9, <3>1, <3>2, <3>3, <3>4
  <2> QED
    BY <1>2, <1>8, <1>12, <2>1, GoodNodes DEF With
<1>14. Holding(s, y, k) # {}
  <2>1. Size(y) = Size(x) /\ y.node = new
    BY <1>7 DEF Size, With
  <2>2. Main(s, y, k) = n
    BY <2>1 DEF Main
  <2>3. n \in Chain(new, n)
    BY <1>4, <1>7, <1>8, ChainIsHull, HullHas
  <2>4. new[n].key = k
    BY <1>1, <1>9
  <2> HIDE DEF y
  <2> QED
    BY <2>1, <2>2, <2>3, <2>4 DEF Holding
<1>15. y.array = x.array /\ y.node = new
  BY DEF With
<1>16. \A i \in D : new[i].key = k \/ \E j \in D : new[i].key = x.node[j].key
  BY <1>1, <1>9
<1>17. Gains(s, x, y, k)
  <2> HIDE DEF y
  <2> QED
    BY <1>7, <1>13, <1>14, <1>15, <1>16 DEF Gains
<1> HIDE DEF y
<1> QED
  BY <1>6, <1>17 DEF y, new, z, old, f

\* lj_tab_newkey gives a key a node, in every program.
LEMMA NewKeyGains ==
  ASSUME world \in Worlds, NEW s, NEW x, Good(s, x), NEW k \in TableKeys, Named(s, k),
         ~NeedsFree(s, x, k) \/ FreeNodes(x) # {}, ~LostNode(s, x, k)
  PROVE  Gains(s, x, NewKey(s, x, k), k) /\ Size(x) > 1
<1> DEFINE n == Main(s, x, k)
           f == Max(FreeNodes(x))
           y == NewKey(s, x, k)
<1>1. /\ n \in DOMAIN x.node /\ Size(x) > 1
      /\ ~NeedsFree(s, x, k) => /\ x.node[n].val = Nil
                                /\ y = With(x, Taken(x, n, k), x.free)
      /\ NeedsFree(s, x, k) /\ Home(s, x, n) = n => y = With(x, Added(x, n, f, k), f)
      /\ NeedsFree(s, x, k) /\ Home(s, x, n) # n =>
           \E before \in DOMAIN x.node :
             /\ x.node[before].next = n
             /\ y = With(x, Rechained(s, With(x, Cleared(x, before, n, f, k), x.free), n, f), f)
      /\ NeedsFree(s, x, k) => x.node[n].val # Nil
  BY NewKeyIs
<1>2. CASE ~NeedsFree(s, x, k)
  BY <1>1, <1>2, TakenGains
<1>3. CASE NeedsFree(s, x, k) /\ Home(s, x, n) = n
  BY <1>1, <1>3, AddedGains
<1>4. CASE NeedsFree(s, x, k) /\ Home(s, x, n) # n
  BY <1>1, <1>4, ClearedGains
<1> QED
  BY <1>1, <1>2, <1>3, <1>4

\* Where every key keeps its hash the predecessor of a node is always found.
Agrees(s, c, x) ==
  \A n \in DOMAIN x.node : x.node[n].val # Nil => Hash(s, x.node[n].key) = Hash(c, x.node[n].key)

\* The node before the one that is moved is in the chain of the home of its key.
LEMMA NotLost ==
  ASSUME world \in Worlds, NEW s, NEW x, Good(s, x), NEW k \in TableKeys, Named(s, k),
         NeedsFree(s, x, k) => FreeNodes(x) # {},
         NEW c, Placed(c, x), Agrees(s, c, x)
  PROVE  ~LostNode(s, x, k)
<1> DEFINE n == Main(s, x, k)
<1> SUFFICES ASSUME NeedsFree(s, x, k)
             PROVE  n \in Anchored(s, x, n)
  BY DEF LostNode
<1>1. n \in DOMAIN x.node /\ Wired(x.node)
  BY MainFacts, ShapeFacts DEF Good
<1>2. x.node[n].val # Nil
  BY FreeTop DEF NeedsFree
<1>3. x.node[n].key \in TableKeys /\ n \in Keyed(x)
  BY <1>1, <1>2, ShapeFacts DEF Keyed, Good, Filled, Values
<1>4. Main(s, x, x.node[n].key) = Home(c, x, n)
  BY <1>1, <1>2 DEF Agrees, Main, Home
<1>5. Home(c, x, n) \in DOMAIN x.node /\ n \in Hull(x.node, Home(c, x, n))
  BY <1>3 DEF Placed, Keyed
<1> QED
  BY <1>1, <1>4, <1>5, ChainIsHull DEF Anchored, Good

\* Where every key keeps its hash a new key leaves all of them in their places.
LEMMA NewKeyPlaced ==
  ASSUME world \in Worlds, NEW s, NEW x, Good(s, x), NEW k \in TableKeys, Named(s, k),
         ~NeedsFree(s, x, k) \/ FreeNodes(x) # {},
         NEW c, Placed(c, x), Agrees(s, c, x), Named(c, k), Hash(s, k) = Hash(c, k),
         Holding(s, x, k) = {}, ~InArray(x, k)
  PROVE  Placed(c, NewKey(s, x, k))
<1> DEFINE n == Main(s, x, k)
           f == Max(FreeNodes(x))
           D == DOMAIN x.node
           y == NewKey(s, x, k)
           H(q) == Main(c, x, q)
<1>1. ~LostNode(s, x, k)
  BY NotLost
<1>2. /\ n \in D /\ Size(x) > 1
      /\ ~NeedsFree(s, x, k) => /\ x.node[n].val = Nil
                                /\ y = With(x, Taken(x, n, k), x.free)
      /\ NeedsFree(s, x, k) /\ Home(s, x, n) = n => y = With(x, Added(x, n, f, k), f)
      /\ NeedsFree(s, x, k) /\ Home(s, x, n) # n =>
           \E before \in D :
             /\ x.node[before].next = n
             /\ y = With(x, Rechained(s, With(x, Cleared(x, before, n, f, k), x.free), n, f), f)
      /\ NeedsFree(s, x, k) => x.node[n].val # Nil /\ x.node[n].key \in TableKeys
  BY <1>1, NewKeyIs
<1>3. H(k) = n /\ Nil \notin TableKeys /\ Wired(x.node)
  BY KeyFacts, ShapeFacts DEF Main, Good
<1>4. \A i \in D : x.node[i].val # Nil => Main(s, x, x.node[i].key) = H(x.node[i].key)
  BY DEF Agrees, Main
<1>5. /\ \A i \in Keyed(x) : Named(c, x.node[i].key) /\ ~InArray(x, x.node[i].key)
      /\ \A i \in Keyed(x) : i \in Hull(x.node, H(x.node[i].key))
      /\ \A i \in Keyed(x) : /\ H(x.node[i].key) \in Keyed(x)
                             /\ H(x.node[H(x.node[i].key)].key) = H(x.node[i].key)
      /\ \A i, j \in Keyed(x) : x.node[i].key = x.node[j].key => i = j
  BY DEF Placed, Home
<1>6. \A i \in D : x.node[i].key # k
  <2>0. SUFFICES ASSUME NEW i \in D, x.node[i].key = k
               PROVE  FALSE
    OBVIOUS
  <2>1. i \in Hull(x.node, n)
    BY <1>3, <1>5, <2>0 DEF Keyed
  <2>2. i \in Chain(x.node, n)
    BY <1>2, <1>3, <2>1, ChainIsHull DEF Good
  <2> QED
    BY <2>0, <2>2 DEF Holding
<1>7. ASSUME NEW new, NEW free, y = With(x, new, free), DOMAIN new = D,
             \A i \in D : new[i].key # Nil =>
               /\ new[i].key # k => \E j \in Keyed(x) : new[i].key = x.node[j].key
               /\ i \in Hull(new, H(new[i].key))
               /\ H(new[i].key) \in D
               /\ new[H(new[i].key)].key # Nil
               /\ H(new[H(new[i].key)].key) = H(new[i].key),
             \A i, j \in D : new[i].key # Nil /\ new[i].key = new[j].key => i = j
      PROVE  Placed(c, y)
  <2>1. y.node = new /\ y.array = x.array /\ Size(y) = Size(x)
    BY <1>7 DEF With, Size
  <2>2. \A q : Main(c, y, q) = H(q)
    BY <2>1 DEF Main
  <2>3. Keyed(y) = {i \in D : new[i].key # Nil}
    BY <1>7, <2>1 DEF Keyed
  <2>4. \A i \in Keyed(y) : Named(c, new[i].key) /\ ~InArray(y, new[i].key)
    BY <1>5, <1>7, <2>1, <2>3 DEF InArray
  <2> HIDE DEF y, H
  <2> QED
    BY <1>7, <2>1, <2>2, <2>3, <2>4 DEF Placed, Home
<1>8. CASE ~NeedsFree(s, x, k)
  <2> DEFINE new == Taken(x, n, k)
  <2>1. \A i \in D : Hull(new, i) = Hull(x.node, i)
    BY <1>2, <1>8, TakenGains
  <2>2. DOMAIN new = D /\ \A i \in D : new[i].key = IF i = n THEN k ELSE x.node[i].key
    <3> HIDE DEF n
    <3> QED
      BY <1>2 DEF Taken
  <2>3. n \in Hull(x.node, n)
    BY <1>2, <1>3, HullHas DEF Wired
  <2>4. ASSUME NEW i \in D, new[i].key # Nil
        PROVE  /\ new[i].key # k => \E j \in Keyed(x) : new[i].key = x.node[j].key
               /\ i \in Hull(new, H(new[i].key))
               /\ H(new[i].key) \in D
               /\ new[H(new[i].key)].key # Nil
               /\ H(new[H(new[i].key)].key) = H(new[i].key)
    <3> HIDE DEF new, n, H
    <3>1. CASE i = n
      BY <1>2, <1>3, <2>1, <2>2, <2>3, <3>1
    <3>2. CASE i # n
      <4>1. i \in Keyed(x) /\ new[i].key = x.node[i].key
        BY <2>2, <2>4, <3>2 DEF Keyed
      <4>2. H(x.node[i].key) \in D
        BY <1>5, <4>1 DEF Keyed
      <4> QED
        BY <1>3, <1>5, <2>1, <2>2, <4>1, <4>2 DEF Keyed
    <3> QED
      BY <3>1, <3>2
  <2>5. \A i, j \in D : new[i].key # Nil /\ new[i].key = new[j].key => i = j
    <3> HIDE DEF new, n
    <3> QED
      BY <1>5, <1>6, <2>2 DEF Keyed
  <2>6. y = With(x, new, x.free)
    BY <1>2, <1>8
  <2> HIDE DEF new, y, H
  <2> QED
    BY <1>7, <2>2, <2>4, <2>5, <2>6 DEF y
<1>9. CASE NeedsFree(s, x, k) /\ Home(s, x, n) = n
  <2> DEFINE new == Added(x, n, f, k)
  <2>1. /\ \A i \in D : Hull(x.node, i) \subseteq Hull(new, i)
        /\ f \in Hull(new, n) /\ f \in D /\ f # n /\ x.node[f].key = Nil
    BY <1>2, <1>9, AddedGains
  <2>2. DOMAIN new = D /\ \A i \in D : new[i].key = IF i = f THEN k ELSE x.node[i].key
    <3> HIDE DEF n, f
    <3> QED
      BY <1>2, <2>1 DEF Added
  <2>3. H(x.node[n].key) = n /\ x.node[n].key # Nil
    BY <1>2, <1>3, <1>4, <1>9 DEF Home
  <2> HIDE DEF new, n, H, f, y
  <2>4. ASSUME NEW i \in D, new[i].key # Nil
        PROVE  /\ new[i].key # k => \E j \in Keyed(x) : new[i].key = x.node[j].key
               /\ i \in Hull(new, H(new[i].key))
               /\ H(new[i].key) \in D
               /\ new[H(new[i].key)].key # Nil
               /\ H(new[H(new[i].key)].key) = H(new[i].key)
    <3>1. CASE i = f
      BY <1>2, <1>3, <2>1, <2>2, <2>3, <3>1
    <3>2. CASE i # f
      <4>1. i \in Keyed(x) /\ new[i].key = x.node[i].key
        BY <2>2, <2>4, <3>2 DEF Keyed
      <4>2. H(x.node[i].key) \in D /\ H(x.node[i].key) # f
        BY <1>5, <2>1, <4>1 DEF Keyed
      <4> QED
        BY <1>5, <2>1, <2>2, <4>1, <4>2 DEF Keyed
    <3> QED
      BY <3>1, <3>2
  <2>5. \A i, j \in D : new[i].key # Nil /\ new[i].key = new[j].key => i = j
    BY <1>5, <1>6, <2>2 DEF Keyed
  <2>6. y = With(x, new, f)
    BY <1>2, <1>9 DEF new
  <2> QED
    BY <1>7, <2>2, <2>4, <2>5, <2>6 DEF y
<1>10. CASE NeedsFree(s, x, k) /\ Home(s, x, n) # n
  <2>1. PICK before \in D :
             /\ x.node[before].next = n
             /\ y = With(x, Rechained(s, With(x, Cleared(x, before, n, f, k), x.free), n, f), f)
    BY <1>2, <1>10
  <2> DEFINE new == Cleared(x, before, n, f, k)
             z == With(x, new, x.free)
  <2>2. Strays(s, z, n, f) = {} => Rechained(s, z, n, f) = new
    BY <1>2, <1>10, <2>1, ClearedGains
  <2>3. /\ f \in D /\ n # f /\ before # f /\ before # n /\ x.node[f].key = Nil
        /\ DOMAIN new = D
        /\ \A i \in D :
             /\ new[i].key = IF i = n THEN k ELSE IF i = f THEN x.node[n].key ELSE x.node[i].key
             /\ new[i].val = IF i = n THEN Nil ELSE IF i = f THEN x.node[n].val ELSE x.node[i].val
        /\ Wired(new) /\ Acyclic(new)
        /\ \A m \in D \ {n} : /\ Hull(x.node, m) \ {n} \subseteq Hull(new, m)
                              /\ n \in Hull(x.node, m) => f \in Hull(new, m)
    <3> HIDE DEF new
    <3>1. new \in [D -> NodesOver(D)]
      BY <1>2, <1>10, <2>1, ClearedIs DEF new
    <3> QED
      BY <1>2, <1>10, <2>1, <3>1, ClearedIs DEF new
  <2>4. n \in Keyed(x) /\ H(x.node[n].key) # n
    BY <1>2, <1>3, <1>4, <1>10 DEF Home, Keyed
  <2>5. \A i \in Keyed(x) : H(x.node[i].key) # n
    BY <1>5, <2>4
  <2>6. z.node = new /\ Size(z) = Size(x)
    BY <2>3 DEF With, Size
  <2>7. Strays(s, z, n, f) = {}
    <3> HIDE DEF z, new
    <3> SUFFICES ASSUME NEW i \in Beyond(new, f), new[i].val # Nil, Main(s, z, new[i].key) = n
                 PROVE  FALSE
      BY <2>6 DEF Strays
    <3>1. i \in D
      BY <2>3, ChainIsHull, HullHas DEF Beyond, Wired
    <3>2. \E j \in D : x.node[j].val # Nil /\ new[i].key = x.node[j].key
      BY <1>2, <2>3, <3>1
    <3>3. PICK j \in D : x.node[j].val # Nil /\ new[i].key = x.node[j].key
      BY <3>2
    <3>4. H(x.node[j].key) = n
      <4>1. Main(s, z, x.node[j].key) = Main(s, x, x.node[j].key)
        BY <2>6 DEF Main
      <4> HIDE DEF n, H
      <4> QED
        BY <1>4, <3>3, <4>1
    <3>5. j \in Keyed(x)
      BY <3>3 DEF Keyed, Good, Filled
    <3> QED
      BY <2>5, <3>4, <3>5
  <2>8. y = With(x, new, f)
    BY <2>1, <2>2, <2>7
  <2>9. n \in Hull(new, n)
    BY <1>2, <2>3, HullHas DEF Wired
  <2> HIDE DEF new, z, n, H, f, y
  <2>10. ASSUME NEW i \in D, new[i].key # Nil
        PROVE  /\ new[i].key # k => \E j \in Keyed(x) : new[i].key = x.node[j].key
               /\ i \in Hull(new, H(new[i].key))
               /\ H(new[i].key) \in D
               /\ new[H(new[i].key)].key # Nil
               /\ H(new[H(new[i].key)].key) = H(new[i].key)
    <3>1. CASE i = n
      BY <1>2, <1>3, <2>3, <2>9, <3>1
    <3>2. CASE i # n
      <4>1. PICK j \in Keyed(x) : /\ new[i].key = x.node[j].key /\ (i = f => j = n)
                                  /\ (i # f => j = i)
        BY <2>3, <2>4, <2>10, <3>2 DEF Keyed
      <4> DEFINE h == H(x.node[j].key)
      <4>2. h \in Keyed(x) /\ h \in D /\ h # n /\ h # f /\ H(x.node[h].key) = h
            /\ j \in Hull(x.node, h)
        BY <1>5, <2>3, <2>5, <4>1 DEF Keyed
      <4>3. new[h].key = x.node[h].key /\ new[h].key # Nil
        BY <2>3, <4>2 DEF Keyed
      <4>4. i \in Hull(new, h)
        BY <2>3, <3>2, <4>1, <4>2
      <4> QED
        BY <4>1, <4>2, <4>3, <4>4
    <3> QED
      BY <3>1, <3>2
  <2>11. \A i, j \in D : new[i].key # Nil /\ new[i].key = new[j].key => i = j
    BY <1>5, <1>6, <2>3, <2>4 DEF Keyed
  <2> QED
    BY <1>7, <2>3, <2>8, <2>10, <2>11 DEF y
<1> QED
  BY <1>8, <1>9, <1>10

-----------------------------------------------------------------------------
\* Values do not matter for where keys are.
LEMMA SamePlaces ==
  ASSUME NEW x, Wired(x.node), Acyclic(x.node), Apart(x.node), NEW c, Placed(c, x), NEW y,
         DOMAIN y.node = DOMAIN x.node, DOMAIN y.array = DOMAIN x.array,
         \A i \in DOMAIN x.node : y.node[i].key = x.node[i].key /\ y.node[i].next = x.node[i].next
  PROVE  Placed(c, y)
<1>1. \A i \in DOMAIN x.node : Hull(y.node, i) = Hull(x.node, i)
  BY SameNext
<1>2. \A q : Main(c, y, q) = Main(c, x, q)
  BY DEF Main, Size
<1>3. \A q : InArray(y, q) <=> InArray(x, q)
  BY DEF InArray
<1>4. Keyed(y) = Keyed(x) /\ Keyed(x) \subseteq DOMAIN x.node
  BY DEF Keyed
<1>5. \A i \in Keyed(x) : Home(c, y, i) = Home(c, x, i) /\ Home(c, x, i) \in Keyed(x)
  BY <1>2, <1>4 DEF Home, Placed
<1> QED
  BY <1>1, <1>3, <1>4, <1>5 DEF Placed

\* A node that has the key takes a value.
Valued(x, n, v) ==
  With(x, [i \in DOMAIN x.node |->
             IF i = n THEN [key |-> x.node[n].key, val |-> v, next |-> x.node[n].next]
             ELSE x.node[i]], x.free)
\* An assignment to a value is that.
LEMMA ValuedIs ==
  ASSUME NEW x, Shape(x), NEW n \in DOMAIN x.node, NEW v
  PROVE  [x EXCEPT !.node[n].val = v] = Valued(x, n, v)
<1> DEFINE y == [x EXCEPT !.node[n].val = v]
           new == [x.node EXCEPT ![n].val = v]
<1>1. /\ x.node \in [DOMAIN x.node -> NodesOver(DOMAIN x.node)]
      /\ x = [array |-> x.array, node |-> x.node, free |-> x.free]
  BY ShapeFacts DEF Shape
<1>2. y = [x EXCEPT !.node = new]
  BY <1>1
<1>3. new = [i \in DOMAIN x.node |->
               IF i = n THEN [key |-> x.node[n].key, val |-> v, next |-> x.node[n].next]
               ELSE x.node[i]]
  BY <1>1 DEF NodesOver
<1> HIDE DEF new
<1>4. y = With(x, new, x.free)
  <2> HIDE DEF y
  <2> QED
    BY <1>1, <1>2 DEF With
<1> QED
  BY <1>3, <1>4 DEF Valued

\* It keeps a good table, and all keys and places.
LEMMA ValueGood ==
  ASSUME world \in Worlds, NEW s, NEW x, Good(s, x), NEW n \in DOMAIN x.node,
         x.node[n].key \in TableKeys, Named(s, x.node[n].key), NEW v \in Values
  PROVE  LET y == Valued(x, n, v)
         IN  /\ Good(s, y) /\ y.array = x.array /\ DOMAIN y.node = DOMAIN x.node
             /\ \A i \in DOMAIN x.node :
                  y.node[i].key = x.node[i].key /\ y.node[i].next = x.node[i].next
             /\ \A c : Placed(c, x) => Placed(c, y)
             /\ \A i \in DOMAIN x.node : y.node[i].val = IF i = n THEN v ELSE x.node[i].val
<1> DEFINE D == DOMAIN x.node
           y == Valued(x, n, v)
           new == [i \in DOMAIN x.node |->
                     IF i = n THEN [key |-> x.node[n].key, val |-> v, next |-> x.node[n].next]
                     ELSE x.node[i]]
<1>1. /\ Wired(x.node) /\ x.node \in [D -> NodesOver(D)] /\ Nil \notin TableKeys
      /\ x = [array |-> x.array, node |-> x.node, free |-> x.free] /\ x.free \in 0..Size(x)
  BY ShapeFacts, KeyFacts DEF Good, Shape
<1>2. y = With(x, new, x.free)
  BY DEF Valued
<1>3. /\ new \in [D -> NodesOver(D)] /\ DOMAIN new = D
      /\ \A i \in D : /\ new[i].key = x.node[i].key /\ new[i].next = x.node[i].next
                      /\ new[i].val = IF i = n THEN v ELSE x.node[i].val
  BY <1>1 DEF NodesOver
<1> HIDE DEF new, y
<1>4. Acyclic(new) /\ Apart(new)
  BY <1>1, <1>3, SameNext DEF Good
<1>5. Size(x) > 1
  <2>1. x.node # NewNodes(0)
    <3> SUFFICES ASSUME x.node = NewNodes(0)
                 PROVE  FALSE
      OBVIOUS
    <3>1. x.node[n].key = Nil
      BY DEF NewNodes
    <3> QED
      BY <1>1, <3>1
  <2> QED
    BY <2>1, ShapeFacts DEF Good, Filled
<1>6. \A i \in D : /\ new[i].key = Nil => new[i].val = Nil /\ new[i].next = None /\ i < x.free
                   /\ new[i].next # None => new[new[i].next].key # Nil
                   /\ new[i].val # Nil => Named(s, new[i].key)
  <2> TAKE i \in D
  <2>1. x.node[i].key = Nil => i < x.free
    <3>1. i \in Nat /\ Size(x) \in Nat
      BY ShapeFacts DEF Good
    <3> QED
      BY <1>1, <1>5, <3>1 DEF Good, Filled
  <2>2. x.node[i].next \in D \cup {None}
    BY <1>1 DEF Wired
  <2>3. /\ x.node[i].key = Nil => x.node[i].val = Nil /\ x.node[i].next = None
        /\ x.node[i].next # None => x.node[x.node[i].next].key # Nil
        /\ x.node[i].val # Nil => Named(s, x.node[i].key)
    BY DEF Good, Filled, LiveNamed
  <2> QED
    BY <1>1, <1>3, <2>1, <2>2, <2>3
<1>7. Good(s, y)
  BY <1>1, <1>2, <1>3, <1>4, <1>5, <1>6, GoodNodes DEF With
<1>8. y.node = new /\ y.array = x.array
  BY <1>2 DEF With
<1>9. \A c : Placed(c, x) => Placed(c, y)
  BY <1>1, <1>3, <1>8, SamePlaces DEF Good
<1> QED
  BY <1>3, <1>7, <1>8, <1>9 DEF y

\* So does a slot of the array.
LEMMA SlotGood ==
  ASSUME world \in Worlds, NEW s, NEW x, Good(s, x), NEW k \in TableKeys, InArray(x, k),
         NEW v \in Values
  PROVE  LET y == [x EXCEPT !.array[k] = v]
         IN  /\ Good(s, y) /\ DOMAIN y.array = DOMAIN x.array /\ y.node = x.node
             /\ \A c : Placed(c, x) => Placed(c, y)
<1> DEFINE y == [x EXCEPT !.array[k] = v]
           new == [x.array EXCEPT ![k] = v]
<1>1. /\ x = [array |-> x.array, node |-> x.node, free |-> x.free]
      /\ x.array \in [0..(ASize(x) - 1) -> Values] /\ k \in DOMAIN x.array
  BY DEF Good, Shape, InArray
<1>2. k \in world.keys
  BY KeyAssumption DEF TableKeys, InArray, Integer
<1>3. y = [array |-> new, node |-> x.node, free |-> x.free]
  <2>1. y = [x EXCEPT !.array = new]
    BY <1>1
  <2> HIDE DEF new, y
  <2> QED
    BY <1>1, <2>1
<1>4. /\ new \in [0..(ASize(x) - 1) -> Values] /\ DOMAIN new = DOMAIN x.array
      /\ \A i \in DOMAIN x.array : new[i] # Nil => i \in world.keys
  BY <1>1, <1>2 DEF Good, Shape
<1> HIDE DEF new
<1>5. /\ y.array = new /\ y.node = x.node /\ y.free = x.free
      /\ y = [array |-> y.array, node |-> y.node, free |-> y.free]
  BY <1>3
<1> HIDE DEF y
<1>6. Size(y) = Size(x) /\ ASize(y) = ASize(x)
  BY <1>4, <1>5 DEF Size, ASize
<1>7. Shape(y)
  BY <1>4, <1>5, <1>6 DEF Good, Shape
<1>8. Good(s, y)
  BY <1>5, <1>6, <1>7 DEF Good, Filled, LiveNamed
<1>9. \A c : Placed(c, x) => Placed(c, y)
  BY <1>4, <1>5, SamePlaces, ShapeFacts DEF Good
<1> QED
  BY <1>4, <1>5, <1>8, <1>9 DEF y

\* A store keeps a good table, its sizes and its keys, and adds its own key.
LEMMA StoreGood ==
  ASSUME world \in Worlds, NEW s, NEW x, Good(s, x), NEW k \in TableKeys, Named(s, k),
         NEW v \in Values, HasRoom(s, x, k),
         InArray(x, k) \/ Holding(s, x, k) # {} \/ ~LostNode(s, x, k)
  PROVE  LET y == Store(s, x, k, v)
         IN  /\ Good(s, y) /\ DOMAIN y.array = DOMAIN x.array /\ DOMAIN y.node = DOMAIN x.node
             /\ \A i \in DOMAIN x.node :
                  \/ y.node[i].key = k /\ ~InArray(x, k)
                  \/ \E j \in DOMAIN x.node : y.node[i].key = x.node[j].key
             /\ \A c : /\ Placed(c, x) /\ Agrees(s, c, x) /\ Named(c, k) /\ Hash(s, k) = Hash(c, k)
                       => Placed(c, y)
<1> DEFINE D == DOMAIN x.node
           y == Store(s, x, k, v)
           agree(c) == Placed(c, x) /\ Agrees(s, c, x) /\ Named(c, k) /\ Hash(s, k) = Hash(c, k)
<1>1. CASE InArray(x, k)
  <2>1. y = [x EXCEPT !.array[k] = v]
    BY <1>1 DEF Store
  <2>2. /\ Good(s, y) /\ DOMAIN y.array = DOMAIN x.array /\ y.node = x.node
        /\ \A c : Placed(c, x) => Placed(c, y)
    BY <1>1, <2>1, SlotGood
  <2>3. \A i \in D : \E j \in D : y.node[i].key = x.node[j].key
    BY <2>2
  <2> HIDE DEF y
  <2>4. DOMAIN y.node = D
    BY <2>2
  <2>5. \A c : agree(c) => Placed(c, y)
    BY <2>2
  <2> QED
    BY <2>2, <2>3, <2>4, <2>5 DEF y
<1>2. CASE ~InArray(x, k)
  <2> DEFINE z == IF Holding(s, x, k) = {} THEN NewKey(s, x, k) ELSE x
  <2>1. /\ Good(s, z) /\ z.array = x.array /\ DOMAIN z.node = D
        /\ Holding(s, z, k) # {}
        /\ \A i \in D : z.node[i].key = k \/ \E j \in D : z.node[i].key = x.node[j].key
    <3>1. CASE Holding(s, x, k) = {}
      BY <1>2, <3>1, NewKeyGains DEF HasRoom, Gains
    <3>2. CASE Holding(s, x, k) # {}
      BY <3>2
    <3> QED
      BY <3>1, <3>2
  <2>2. ASSUME NEW c, agree(c)
        PROVE  Placed(c, z)
    <3>1. CASE Holding(s, x, k) = {}
      BY <1>2, <2>2, <3>1, NewKeyPlaced DEF HasRoom
    <3>2. CASE Holding(s, x, k) # {}
      BY <2>2, <3>2
    <3> QED
      BY <3>1, <3>2
  <2> DEFINE n == CHOOSE m \in Holding(s, z, k) : TRUE
  <2>3. y = [z EXCEPT !.node[n].val = v]
    BY <1>2 DEF Store
  <2> HIDE DEF z, y
  <2>4. n \in Holding(s, z, k)
    BY <2>1
  <2>5. n \in D /\ z.node[n].key = k
    <3>1. Chain(z.node, Main(s, z, k)) \subseteq DOMAIN z.node
      <4>1. Wired(z.node) /\ Main(s, z, k) \in DOMAIN z.node
        BY <2>1, ShapeFacts, MainFacts DEF Good
      <4> QED
        BY <2>1, <4>1, ChainIsHull, HullHas DEF Good
    <3> QED
      BY <2>1, <2>4, <3>1 DEF Holding
  <2> HIDE DEF n
  <2>6. /\ Good(s, y) /\ y.array = z.array /\ DOMAIN y.node = DOMAIN z.node
        /\ \A i \in DOMAIN z.node : y.node[i].key = z.node[i].key
        /\ \A c : Placed(c, z) => Placed(c, y)
    <3>1. /\ Good(s, z) /\ n \in DOMAIN z.node /\ z.node[n].key \in TableKeys
          /\ Named(s, z.node[n].key)
      BY <2>1, <2>5
    <3>2. y = Valued(z, n, v)
      BY <2>1, <2>3, <2>5, ValuedIs DEF Good
    <3> QED
      BY <3>1, <3>2, ValueGood
  <2> QED
    BY <1>2, <2>1, <2>2, <2>6 DEF y
<1> QED
  BY <1>1, <1>2

-----------------------------------------------------------------------------
\* A table as a map.  A node has a value for the key, which may be in the array
\* part as well where keys are not in their places.
Live(x, k) == \E n \in DOMAIN x.node : x.node[n].key = k /\ x.node[n].val # Nil

\* What is stored under a key is the key.
Mirrored(x) ==
  /\ \A i \in DOMAIN x.array : x.array[i] \in {Nil, i}
  /\ \A n \in DOMAIN x.node : x.node[n].val \in {Nil, x.node[n].key}

\* Nodes that move change nothing of that.
LEMMA SameLive ==
  ASSUME NEW x, NEW y, y.array = x.array, DOMAIN y.node = DOMAIN x.node,
         \A i \in DOMAIN x.node : y.node[i].val # Nil =>
           \E j \in DOMAIN x.node :
             y.node[i].key = x.node[j].key /\ y.node[i].val = x.node[j].val,
         \A i \in DOMAIN x.node : x.node[i].val # Nil =>
           \E j \in DOMAIN x.node :
             x.node[i].key = y.node[j].key /\ x.node[i].val = y.node[j].val
  PROVE  (\A k : Live(y, k) <=> Live(x, k)) /\ (Mirrored(x) => Mirrored(y))
BY DEF Live, Mirrored

\* lj_tab_newkey adds no field and loses none, in every program.
LEMMA NewKeySame ==
  ASSUME world \in Worlds, NEW s, NEW x, Good(s, x), NEW k \in TableKeys, Named(s, k),
         ~NeedsFree(s, x, k) \/ FreeNodes(x) # {}, ~LostNode(s, x, k)
  PROVE  LET y == NewKey(s, x, k)
         IN  (\A q : Live(y, q) <=> Live(x, q)) /\ (Mirrored(x) => Mirrored(y))
<1> DEFINE D == DOMAIN x.node
           n == Main(s, x, k)
           f == Max(FreeNodes(x))
           y == NewKey(s, x, k)
<1>1. /\ n \in D /\ Size(x) > 1
      /\ ~NeedsFree(s, x, k) => /\ x.node[n].val = Nil
                                /\ y = With(x, Taken(x, n, k), x.free)
      /\ NeedsFree(s, x, k) /\ Home(s, x, n) = n => y = With(x, Added(x, n, f, k), f)
      /\ NeedsFree(s, x, k) /\ Home(s, x, n) # n =>
           \E before \in D :
             /\ x.node[before].next = n
             /\ y = With(x, Rechained(s, With(x, Cleared(x, before, n, f, k), x.free), n, f), f)
      /\ NeedsFree(s, x, k) => x.node[n].val # Nil
  BY NewKeyIs
<1>2. NeedsFree(s, x, k) => f \in D /\ x.node[f].val = Nil /\ n # f
  BY <1>1, FreeTop
<1> HIDE DEF y, n, f
<1>3. CASE ~NeedsFree(s, x, k)
  <2> DEFINE new == Taken(x, n, k)
  <2>1. y.array = x.array /\ y.node = new
    BY <1>1, <1>3 DEF With
  <2>2. DOMAIN new = D
    BY DEF Taken
  <2>3. new[n].val = Nil /\ \A i \in D \ {n} : new[i] = x.node[i]
    BY <1>1 DEF Taken
  <2> HIDE DEF new
  <2>4. \A i \in D : i = n \/ (y.node[i].key = x.node[i].key /\ y.node[i].val = x.node[i].val)
    BY <2>1, <2>3
  <2> QED
    BY <1>1, <1>3, <2>1, <2>2, <2>3, <2>4, SameLive DEF y
<1>4. CASE NeedsFree(s, x, k) /\ Home(s, x, n) = n
  <2> DEFINE new == Added(x, n, f, k)
  <2>1. y.array = x.array /\ y.node = new
    BY <1>1, <1>4 DEF With
  <2>2. DOMAIN new = D
    BY DEF Added
  <2>3. new[f].val = Nil
        /\ \A i \in D \ {f} : new[i].key = x.node[i].key /\ new[i].val = x.node[i].val
    BY <1>1, <1>2, <1>4 DEF Added
  <2> HIDE DEF new
  <2> QED
    BY <1>2, <1>4, <2>1, <2>2, <2>3, SameLive DEF y
<1>5. CASE NeedsFree(s, x, k) /\ Home(s, x, n) # n
  <2>1. PICK before \in D :
          y = With(x, Rechained(s, With(x, Cleared(x, before, n, f, k), x.free), n, f), f)
    BY <1>1, <1>5
  <2> DEFINE mid == Cleared(x, before, n, f, k)
             z == With(x, mid, x.free)
             new == Rechained(s, z, n, f)
  <2>2. DOMAIN mid = D
    BY DEF Cleared
  <2>3. /\ mid[n].val = Nil /\ mid[f].key = x.node[n].key /\ mid[f].val = x.node[n].val
        /\ \A i \in D \ {n, f} : mid[i].key = x.node[i].key /\ mid[i].val = x.node[i].val
    BY <1>1, <1>2, <1>5, SMTT(30) DEF Cleared
  <2>4. \A i \in D : mid[i] = [key |-> mid[i].key, val |-> mid[i].val, next |-> mid[i].next]
    <3>1. \A i \in D : x.node[i] = [key |-> x.node[i].key, val |-> x.node[i].val,
                                    next |-> x.node[i].next]
      BY ShapeFacts DEF Good, NodesOver
    <3> QED
      BY <1>1, <3>1 DEF Cleared
  <2> HIDE DEF mid
  <2>5. z.node = mid
    BY DEF With
  <2>6. DOMAIN new = D
    BY <2>2, <2>5 DEF Rechained
  <2>7. \A i \in D : new[i].key = mid[i].key /\ new[i].val = mid[i].val
    <3>1. \A i \in D : \E q : new[i] = [mid[i] EXCEPT !.next = q]
      BY <2>2, <2>5 DEF Rechained
    <3>2. \A a, b, d, q : [[key |-> a, val |-> b, next |-> d] EXCEPT !.next = q]
                            = [key |-> a, val |-> b, next |-> q]
      OBVIOUS
    <3> HIDE DEF new
    <3> TAKE i \in D
    <3>3. PICK q : new[i] = [mid[i] EXCEPT !.next = q]
      BY <3>1
    <3>4. new[i] = [key |-> mid[i].key, val |-> mid[i].val, next |-> q]
      BY <2>4, <3>2, <3>3
    <3> QED
      BY <3>4
  <2> HIDE DEF new
  <2>8. y.array = x.array /\ y.node = new
    BY <2>1 DEF With, new, mid
  <2>9. \A i \in D : new[i].val # Nil =>
          \E j \in D : new[i].key = x.node[j].key /\ new[i].val = x.node[j].val
    BY <1>1, <2>3, <2>7
  <2>10. \A i \in D : x.node[i].val # Nil =>
           \E j \in D : x.node[i].key = new[j].key /\ x.node[i].val = new[j].val
    BY <1>1, <1>2, <1>5, <2>3, <2>7
  <2>11. /\ DOMAIN y.node = D
         /\ \A i \in D : y.node[i].val # Nil =>
              \E j \in D : y.node[i].key = x.node[j].key /\ y.node[i].val = x.node[j].val
         /\ \A i \in D : x.node[i].val # Nil =>
              \E j \in D : x.node[i].key = y.node[j].key /\ x.node[i].val = y.node[j].val
    BY <2>6, <2>8, <2>9, <2>10
  <2>12. (\A q : Live(y, q) <=> Live(x, q)) /\ (Mirrored(x) => Mirrored(y))
    BY <2>8, <2>11, SameLive
  <2> QED
    BY <2>12 DEF y
<1> QED
  BY <1>3, <1>4, <1>5

\* A node that holds a key is a node of the table, in the chain of its home.
LEMMA HoldingIs ==
  ASSUME world \in Worlds, NEW s, NEW x, Good(s, x), NEW k \in TableKeys, Named(s, k)
  PROVE  Holding(s, x, k) =
           {n \in DOMAIN x.node : x.node[n].key = k /\ n \in Hull(x.node, Main(s, x, k))}
<1>1. Wired(x.node) /\ Acyclic(x.node) /\ Main(s, x, k) \in DOMAIN x.node
  BY ShapeFacts, MainFacts DEF Good
<1>2. /\ Chain(x.node, Main(s, x, k)) = Hull(x.node, Main(s, x, k))
      /\ Hull(x.node, Main(s, x, k)) \subseteq DOMAIN x.node
  BY <1>1, ChainIsHull, HullHas
<1> QED
  BY <1>2 DEF Holding

\* A store changes the field of its key only; when the key is in the table
\* already, all keys stay in their slots.
LEMMA StoreMaps ==
  ASSUME world \in Worlds, NEW s, NEW x, Good(s, x), NEW k \in TableKeys, Named(s, k),
         NEW v \in {Nil, k}, HasRoom(s, x, k),
         InArray(x, k) \/ Holding(s, x, k) # {} \/ ~LostNode(s, x, k),
         NEW c, Placed(c, x), Agrees(s, c, x), Named(c, k), Hash(s, k) = Hash(c, k),
         Mirrored(x)
  PROVE  LET y == Store(s, x, k, v)
         IN  /\ Mirrored(y)
             /\ \A q : Present(y, q) <=> IF q = k THEN v # Nil ELSE Present(x, q)
             /\ InArray(x, k) \/ Holding(s, x, k) # {} =>
                  /\ \A n \in DOMAIN x.node : /\ y.node[n].key = x.node[n].key
                                              /\ y.node[n].key # k => y.node[n].val = x.node[n].val
                  /\ \A i \in DOMAIN x.array : i # k => y.array[i] = x.array[i]
<1> DEFINE D == DOMAIN x.node
           y == Store(s, x, k, v)
<1>1. k # Nil /\ v \in Values
  BY KeyFacts DEF Values
<1>2. DOMAIN y.array = DOMAIN x.array /\ DOMAIN y.node = D
  BY <1>1, StoreGood
<1>3. CASE InArray(x, k)
  <2>1. y = [x EXCEPT !.array[k] = v]
    BY <1>3 DEF Store
  <2>2. k \in DOMAIN x.array
    BY <1>3 DEF InArray
  <2>3. x = [array |-> x.array, node |-> x.node, free |-> x.free]
    BY DEF Good, Shape
  <2>4. y.node = x.node
    BY <2>1, <2>3
  <2>5. \A i \in DOMAIN x.array : y.array[i] = IF i = k THEN v ELSE x.array[i]
    <3>1. y.array = [x.array EXCEPT ![k] = v]
      BY <2>1, <2>3
    <3> QED
      BY <2>2, <3>1
  <2> HIDE DEF y
  <2>6. Mirrored(y)
    BY <1>2, <2>4, <2>5 DEF Mirrored
  <2>7. \A q : InArray(y, q) <=> InArray(x, q)
    BY <1>2 DEF InArray
  <2>8. ASSUME NEW q
        PROVE  Present(y, q) <=> IF q = k THEN v # Nil ELSE Present(x, q)
    <3>1. CASE InArray(x, q)
      <4>1. q \in DOMAIN x.array
        BY <3>1 DEF InArray
      <4> QED
        BY <2>5, <2>7, <3>1, <4>1 DEF Present
    <3>2. CASE ~InArray(x, q)
      BY <1>3, <2>4, <2>7, <3>2 DEF Present
    <3> QED
      BY <3>1, <3>2
  <2> QED
    BY <2>4, <2>5, <2>6, <2>8 DEF y
<1>4. CASE ~InArray(x, k)
  <2> DEFINE z == IF Holding(s, x, k) = {} THEN NewKey(s, x, k) ELSE x
  <2>1. /\ Good(s, z) /\ z.array = x.array /\ DOMAIN z.node = D
        /\ Holding(s, z, k) # {}
        /\ \A q : Live(z, q) <=> Live(x, q)
        /\ Mirrored(z) /\ Placed(c, z)
    <3>1. CASE Holding(s, x, k) = {}
      <4>1. (NeedsFree(s, x, k) => FreeNodes(x) # {}) /\ ~LostNode(s, x, k)
        BY <1>4, <3>1 DEF HasRoom
      <4>2. Gains(s, x, NewKey(s, x, k), k)
        BY <4>1, NewKeyGains
      <4>3. /\ \A q : Live(NewKey(s, x, k), q) <=> Live(x, q)
            /\ Mirrored(NewKey(s, x, k))
        BY <4>1, NewKeySame
      <4>4. Placed(c, NewKey(s, x, k))
        BY <1>4, <3>1, <4>1, NewKeyPlaced
      <4>5. z = NewKey(s, x, k)
        BY <3>1
      <4> QED
        BY <4>2, <4>3, <4>4, <4>5 DEF Gains
    <3>2. CASE Holding(s, x, k) # {}
      BY <3>2
    <3> QED
      BY <3>1, <3>2
  <2> DEFINE n == CHOOSE m \in Holding(s, z, k) : TRUE
  <2>2. y = [z EXCEPT !.node[n].val = v]
    BY <1>4 DEF Store
  <2>3. Holding(s, x, k) # {} => z = x
    OBVIOUS
  <2> HIDE DEF z, y
  <2>4. n \in Holding(s, z, k)
    BY <2>1
  <2>5. n \in D /\ z.node[n].key = k
    BY <2>1, <2>4, HoldingIs
  <2> HIDE DEF n
  <2>6. y = Valued(z, n, v)
    BY <2>1, <2>2, <2>5, ValuedIs DEF Good
  <2>7. /\ y.array = x.array
        /\ \A i \in D : /\ y.node[i].key = z.node[i].key
                        /\ y.node[i].val = IF i = n THEN v ELSE z.node[i].val
    BY <2>1, <2>5, <2>6 DEF Valued, With
  <2>8. Mirrored(y)
    BY <1>2, <2>1, <2>5, <2>7 DEF Mirrored
  <2>9. \A q : InArray(y, q) <=> InArray(x, q)
    BY <1>2 DEF InArray
  <2>10. \A i \in D : z.node[i].key = k => i = n
    BY <1>1, <2>1, <2>5 DEF Placed, Keyed
  <2>11. ASSUME NEW q
         PROVE  Live(y, q) <=> IF q = k THEN v # Nil ELSE Live(x, q)
    <3>1. CASE q = k
      BY <1>2, <2>5, <2>7, <2>10, <3>1 DEF Live
    <3>2. CASE q # k
      <4>1. Live(y, q) <=> Live(z, q)
        BY <1>2, <2>1, <2>5, <2>7, <3>2 DEF Live
      <4> QED
        BY <2>1, <3>2, <4>1
    <3> QED
      BY <3>1, <3>2
  <2>12. \A q : Present(y, q) <=> IF q = k THEN v # Nil ELSE Present(x, q)
    BY <1>4, <2>7, <2>9, <2>11 DEF Present, Live
  <2>13. Holding(s, x, k) # {} =>
           \A i \in D : /\ y.node[i].key = x.node[i].key
                        /\ y.node[i].key # k => y.node[i].val = x.node[i].val
    BY <2>3, <2>5, <2>7
  <2> QED
    BY <1>4, <2>7, <2>8, <2>12, <2>13 DEF y
<1> QED
  BY <1>3, <1>4

-----------------------------------------------------------------------------
\* A hash part with a place for every key in it never runs full before all of
\* them are stored.
LEMMA Room ==
  ASSUME world \in Worlds, NEW s, NEW y, Good(s, y), Placed(s, y), NEW k \in TableKeys, Named(s, k),
         NEW rest, IsFiniteSet(rest), Cardinality(rest) <= Size(y), rest # {} => Size(y) > 1,
         \A n \in Keyed(y) : y.node[n].key \in rest,
         ~InArray(y, k) => k \in rest
  PROVE  HasRoom(s, y, k)
<1> SUFFICES ASSUME ~InArray(y, k), Holding(s, y, k) = {}, FreeNodes(y) = {}
             PROVE  FALSE
  BY DEF HasRoom
<1> DEFINE D == DOMAIN y.node
           R == rest \ {k}
<1>1. Size(y) > 1 /\ Size(y) \in Nat /\ Wired(y.node) /\ D = 0..(Size(y) - 1) /\ IsFiniteSet(D)
  BY ShapeFacts DEF Good, Wired
<1>2. Keyed(y) = D
  <2> SUFFICES ASSUME NEW n \in D, y.node[n].key = Nil
               PROVE  FALSE
    BY DEF Keyed
  <2>1. n < y.free
    <3>1. n \in Nat /\ y.free \in Nat
      BY <1>1 DEF Good, Shape
    <3> QED
      BY <1>1, <3>1 DEF Good, Filled
  <2> QED
    BY <2>1 DEF FreeNodes
<1>3. \A n \in D : y.node[n].key # k
  <2> SUFFICES ASSUME NEW n \in D, y.node[n].key = k
               PROVE  FALSE
    OBVIOUS
  <2>1. n \in Hull(y.node, Main(s, y, k))
    BY <1>2 DEF Placed, Home
  <2>2. n \in Chain(y.node, Main(s, y, k))
    BY <1>1, <2>1, MainFacts, ChainIsHull DEF Good
  <2> QED
    BY <2>2 DEF Holding
<1>4. [n \in D |-> y.node[n].key] \in [D -> R]
  BY <1>2, <1>3
<1>5. IsFiniteSet(R) /\ Cardinality(R) < Cardinality(D)
  <2>1. Cardinality(R) = Cardinality(rest) - 1 /\ IsFiniteSet(R)
    BY FS_RemoveElement
  <2>2. Cardinality(rest) \in Nat
    BY FS_CardinalityType
  <2> HIDE DEF R
  <2> QED
    BY <1>1, <2>1, <2>2 DEF Size
<1>6. \E m, n \in D : m # n /\ [i \in D |-> y.node[i].key][m] = [i \in D |-> y.node[i].key][n]
  <2> DEFINE g == [n \in D |-> y.node[n].key]
  <2> HIDE DEF R, D, g
  <2>1. g \in [D -> R]
    BY <1>4 DEF g
  <2>2. \E m, n \in D : m # n /\ g[m] = g[n]
    BY <1>1, <1>5, <2>1, FS_PigeonHole
  <2> QED
    BY <2>2 DEF g
<1> QED
  BY <1>2, <1>6 DEF Placed

\* Powers of two grow, and above every number there is one.
LEMMA PowerGrows ==
  ASSUME NEW m \in Nat, NEW n \in Nat, m <= n
  PROVE  2^m <= 2^n /\ (m < n => 2^m < 2^n)
<1> DEFINE T == {d \in Nat : 2^m <= 2^(m + d) /\ (0 < d => 2^m < 2^(m + d))}
<1>1. 0 \in T
  BY PowerOfTwo
<1>2. ASSUME NEW d \in Nat, d \in T
      PROVE  d + 1 \in T
  <2>1. /\ 2^(m + d) \in Nat /\ 2^(m + d) >= 1 /\ 2^((m + d) + 1) = 2 * 2^(m + d)
        /\ 2^m \in Nat
    BY PowerOfTwo
  <2>2. (m + d) + 1 = m + (d + 1)
    OBVIOUS
  <2>3. 2^m <= 2^(m + d)
    BY <1>2
  <2>4. 2^(m + (d + 1)) = 2 * 2^(m + d)
    BY <2>1, <2>2
  <2> DEFINE p == 2^m
             q == 2^(m + d)
             r == 2^(m + (d + 1))
  <2>5. p \in Nat /\ q \in Nat /\ q >= 1 /\ r = 2 * q /\ p <= q
    BY <2>1, <2>3, <2>4
  <2>6. p <= r /\ p < r
    <3> HIDE DEF p, q, r
    <3> QED
      BY <2>5
  <2> QED
    BY <2>6
<1>3. n - m \in Nat /\ m + (n - m) = n /\ (m < n => 0 < n - m)
  OBVIOUS
<1>4. n - m \in T
  <2> HIDE DEF T
  <2> QED
    BY <1>1, <1>2, <1>3, Induction
<1> QED
  BY <1>3, <1>4

\* 2^n exceeds n.
LEMMA PowerAbove ==
  ASSUME NEW n \in Nat
  PROVE  n < 2^n
<1> DEFINE T == {i \in Nat : i < 2^i}
<1>1. 0 \in T
  BY PowerOfTwo
<1>2. ASSUME NEW i \in Nat, i \in T
      PROVE  i + 1 \in T
  BY <1>2, PowerOfTwo
<1> HIDE DEF T
<1>3. n \in T
  BY <1>1, <1>2, Induction
<1> QED
  BY <1>3 DEF T

\* hsize2hbits: the least number of bits that suffices.
LEMMA HBitsFacts ==
  ASSUME NEW size \in Nat
  PROVE  /\ HBits(size) \in Nat /\ size <= 2^HBits(size)
         /\ size # 0 => HBits(size) >= 1
         /\ \A b \in Nat \ {0} : size = 2^b => HBits(size) = b
<1> DEFINE S == {b \in 1..size : 2^b >= size}
<1>1. CASE size = 0
  BY <1>1, PowerOfTwo DEF HBits
<1>2. CASE size # 0
  <2>1. HBits(size) = Min(S)
    BY <1>2 DEF HBits
  <2>2. size \in S
    <3>1. size < 2^size /\ 2^size \in Nat /\ size \in 1..size
      BY <1>2, PowerAbove, PowerOfTwo
    <3> QED
      BY <3>1
  <2>3. Min(S) \in S /\ \A b \in S : Min(S) <= b
    <3>1. S \subseteq Nat /\ S # {}
      BY <2>2
    <3> HIDE DEF S
    <3> QED
      BY <3>1, NatMin
  <2>4. ASSUME NEW b \in Nat \ {0}, size = 2^b
        PROVE  Min(S) = b
    <3>1. b \in S
      BY <2>4, PowerAbove, PowerOfTwo
    <3>2. Min(S) \in Nat /\ Min(S) <= b /\ 2^Min(S) >= 2^b
      BY <2>3, <2>4, <3>1
    <3>3. Min(S) < b => 2^Min(S) < 2^b
      BY <3>2, PowerGrows
    <3>4. 2^Min(S) \in Nat /\ 2^b \in Nat
      BY <3>2, PowerOfTwo
    <3> DEFINE m == Min(S)
    <3> HIDE DEF S, m
    <3>5. m \in Nat /\ m <= b /\ ~(m < b)
      <4> DEFINE p == 2^m
                 q == 2^b
      <4>1. p \in Nat /\ q \in Nat /\ p >= q /\ (m < b => p < q)
        BY <3>2, <3>3, <3>4 DEF m
      <4> HIDE DEF p, q
      <4> QED
        BY <3>2, <4>1 DEF m
    <3>6. m = b
      BY <3>5
    <3> QED
      BY <3>6 DEF m
  <2> HIDE DEF S
  <2>5. Min(S) \in Nat /\ Min(S) >= 1 /\ size <= 2^Min(S)
    <3>1. Min(S) \in 1..size /\ 2^Min(S) >= size
      BY <2>3 DEF S
    <3>2. 2^Min(S) \in Nat
      BY <3>1, PowerOfTwo
    <3> QED
      BY <3>1, <3>2
  <2> QED
    BY <2>1, <2>4, <2>5
<1> QED
  BY <1>1, <1>2

\* An empty hash part is a good one, in which nothing is.
LEMMA EmptyGood ==
  ASSUME world \in Worlds, NEW s, NEW bits \in Nat, NEW array, NEW asize \in Nat,
         array \in [0..(asize - 1) -> Values],
         \A i \in DOMAIN array : array[i] # Nil => i \in world.keys
  PROVE  LET x == [array |-> array, node |-> NewNodes(bits), free |-> NewTop(bits)]
         IN  /\ Good(s, x) /\ Keyed(x) = {} /\ \A c : Placed(c, x)
             /\ ASize(x) = asize /\ Size(x) = 2^bits
<1> DEFINE x == [array |-> array, node |-> NewNodes(bits), free |-> NewTop(bits)]
           size == 2^bits
           D == 0..(size - 1)
<1>1. /\ size \in Nat /\ size >= 1 /\ IsFiniteSet(D) /\ Cardinality(D) = size
      /\ Cardinality(0..(asize - 1)) = asize
  <2>1. size \in Nat /\ size >= 1
    BY PowerOfTwo
  <2> HIDE DEF size
  <2> QED
    BY <2>1, FS_Interval, SMTT(30)
<1>2. /\ x.array = array /\ x.node = NewNodes(bits) /\ x.free = NewTop(bits)
      /\ x = [array |-> x.array, node |-> x.node, free |-> x.free]
  OBVIOUS
<1> HIDE DEF x
<1>3. DOMAIN x.node = D /\ \A n \in D : /\ x.node[n] = [key |-> Nil, val |-> Nil, next |-> None]
                                        /\ x.node[n].key = Nil /\ x.node[n].val = Nil
                                        /\ x.node[n].next = None
  <2> HIDE DEF size
  <2> QED
    BY <1>2 DEF NewNodes, size
<1>4. Size(x) = size /\ ASize(x) = asize
  BY <1>1, <1>2, <1>3 DEF Size, ASize
<1>5. bits = 0 <=> size = 1
  <2>1. CASE bits = 0
    <3>1. 2^0 = 1
      BY PowerOfTwo
    <3> QED
      BY <2>1, <3>1
  <2>2. CASE bits # 0
    BY <1>1, <2>2, PowerAbove
  <2> QED
    BY <2>1, <2>2
<1>6. x.free = IF size = 1 THEN 0 ELSE size
  BY <1>2, <1>5 DEF NewTop
<1>7. Shape(x)
  <2>1. Size(x) \in Powers
    BY <1>4 DEF Powers
  <2>2. x.node \in [D -> NodesOver(D)]
    <3>1. x.node = [n \in D |-> [key |-> Nil, val |-> Nil, next |-> None]]
      BY <1>2 DEF NewNodes
    <3> HIDE DEF D
    <3> QED
      BY <3>1 DEF NodesOver, Values
  <2> HIDE DEF size
  <2>3. x.free \in 0..Size(x)
    BY <1>1, <1>4, <1>6
  <2> QED
    BY <1>2, <1>4, <2>1, <2>2, <2>3 DEF Shape
<1> HIDE DEF size
<1>8. Filled(x)
  <2>1. Size(x) = 1 => x.node = NewNodes(0)
    BY <1>2, <1>4, <1>5
  <2>2. Size(x) > 1 => \A n \in DOMAIN x.node : ~(n >= x.free)
    BY <1>1, <1>3, <1>4, <1>6
  <2> HIDE DEF D
  <2> QED
    BY <1>3, <1>4, <1>6, <2>1, <2>2 DEF Filled
<1> HIDE DEF D
<1>9. Acyclic(x.node) /\ Apart(x.node)
  <2>1. Wired(x.node)
    BY <1>7, ShapeFacts
  <2> QED
    BY <1>3, <2>1, HullHas DEF Acyclic, Apart, Behind
<1>10. Good(s, x)
  BY <1>3, <1>7, <1>8, <1>9 DEF Good, LiveNamed
<1>11. Keyed(x) = {}
  BY <1>3 DEF Keyed
<1>12. \A c : Placed(c, x)
  BY <1>11 DEF Placed
<1> QED
  BY <1>4, <1>10, <1>11, <1>12 DEF x, size

\* lj_tab_resize stores slot after slot, from an empty table.
Emptied(x, asize, bits) ==
  [array |-> [i \in 0..(asize - 1) |-> IF i \in DOMAIN x.array THEN x.array[i] ELSE Nil],
   node |-> NewNodes(bits), free |-> NewTop(bits)]

\* What lj_tab_resize makes of a table is the last of these.
LEMMA ResizedIs ==
  ASSUME NEW s, NEW x, Shape(x), NEW asize \in Nat, NEW bits
  PROVE  LET last == ASize(x) + Size(x)
         IN  \E g : /\ g[0] = [table |-> Emptied(x, asize, bits), fits |-> TRUE]
                    /\ \A i \in 0..(last - 1) : g[i + 1] = Refilled(s, x, asize, g[i], i)
                    /\ Resized(s, x, asize, bits) = g[last]
<1> DEFINE last == ASize(x) + Size(x)
           old == [i \in 0..(asize - 1) |-> IF i \in DOMAIN x.array THEN x.array[i] ELSE Nil]
           start == [table |-> [NewTable(asize, bits) EXCEPT !.array = old], fits |-> TRUE]
           row(g, i) == IF i = 0 THEN start ELSE Refilled(s, x, asize, g[i - 1], i - 1)
           Walk(g, k) == g = [i \in 0..k |-> row(g, i)]
           T == {k \in Nat : \E g : Walk(g, k)}
<1>1. last \in Nat
  BY ShapeFacts DEF Shape
<1> HIDE DEF last, start
<1>2. Nat \subseteq T
  <2>1. 0 \in T
    <3>1. Walk([i \in 0..0 |-> start], 0)
      OBVIOUS
    <3> HIDE DEF Walk
    <3> QED
      BY <3>1
  <2>2. ASSUME NEW k \in Nat, k \in T
        PROVE  k + 1 \in T
    <3>1. PICK g : Walk(g, k)
      BY <2>2
    <3> DEFINE h == [i \in 0..(k + 1) |-> IF i <= k THEN g[i] ELSE row(g, k + 1)]
    <3> HIDE DEF row
    <3>2. DOMAIN g = 0..k /\ \A i \in 0..k : g[i] = row(g, i)
      BY <3>1
    <3>3. \A i \in 0..(k + 1) : i # 0 => h[i - 1] = g[i - 1]
      OBVIOUS
    <3>4. \A i \in 0..(k + 1) : row(h, i) = row(g, i)
      <4> HIDE DEF h
      <4> QED
        BY <3>3 DEF row
    <3>5. \A i \in 0..(k + 1) : h[i] = row(h, i)
      <4>1. \A i \in 0..(k + 1) : i <= k \/ i = k + 1
        OBVIOUS
      <4>2. \A i \in 0..(k + 1) : h[i] = row(g, i)
        BY <3>2, <4>1
      <4> QED
        BY <3>4, <4>2
    <3>6. Walk(h, k + 1)
      <4>1. h = [i \in 0..(k + 1) |-> h[i]]
        OBVIOUS
      <4> HIDE DEF h
      <4> QED
        BY <3>5, <4>1
    <3> HIDE DEF Walk
    <3> QED
      BY <3>6
  <2> HIDE DEF T
  <2> QED
    BY <2>1, <2>2, Induction
<1> DEFINE filled == CHOOSE g : Walk(g, last)
<1>3. Walk(filled, last)
  <2>1. \E g : Walk(g, last)
    BY <1>1, <1>2
  <2> HIDE DEF Walk
  <2> QED
    BY <2>1
<1>4. Resized(s, x, asize, bits) = filled[last]
  BY DEF Resized, start, last
<1> HIDE DEF filled
<1>5. \A i \in 0..last : filled[i] = row(filled, i)
  <2> HIDE DEF row
  <2> QED
    BY <1>3
<1>6. filled[0] = start
  BY <1>1, <1>5
<1>7. \A i \in 0..(last - 1) : filled[i + 1] = Refilled(s, x, asize, filled[i], i)
  <2> TAKE i \in 0..(last - 1)
  <2>1. i + 1 \in 0..last /\ i + 1 # 0 /\ (i + 1) - 1 = i
    BY <1>1
  <2>2. filled[i + 1] = row(filled, i + 1)
    BY <1>5, <2>1
  <2> QED
    BY <2>1, <2>2
<1>8. start = [table |-> Emptied(x, asize, bits), fits |-> TRUE]
  <2>1. \A a, b, c, d : [[array |-> a, node |-> b, free |-> c] EXCEPT !.array = d]
                           = [array |-> d, node |-> b, free |-> c]
    OBVIOUS
  <2>2. [NewTable(asize, bits) EXCEPT !.array = old] = Emptied(x, asize, bits)
    <3> HIDE DEF old
    <3>1. [NewTable(asize, bits) EXCEPT !.array = old]
            = [array |-> old, node |-> NewNodes(bits), free |-> NewTop(bits)]
      BY <2>1 DEF NewTable
    <3> QED
      BY <3>1 DEF Emptied, old
  <2> QED
    BY <2>2 DEF start
<1> QED
  BY <1>4, <1>6, <1>7, <1>8 DEF last

\* What is stored again is under a key that is still there.
LEMMA SlotFacts ==
  ASSUME world \in Worlds, NEW s, NEW x, Good(s, x), NEW i \in Slots(x), SlotVal(x, i) # Nil
  PROVE  /\ SlotKey(x, i) \in TableKeys /\ Named(s, SlotKey(x, i)) /\ SlotVal(x, i) \in Values
         /\ i >= ASize(x) => i - ASize(x) \in DOMAIN x.node
<1>1. /\ ASize(x) \in Nat /\ Size(x) \in Nat /\ i \in Nat /\ i < ASize(x) + Size(x)
      /\ DOMAIN x.array = 0..(ASize(x) - 1) /\ DOMAIN x.node = 0..(Size(x) - 1)
  BY ShapeFacts DEF Good, Shape, Slots
<1>2. CASE i < ASize(x)
  <2>1. i \in DOMAIN x.array /\ x.array[i] # Nil /\ x.array[i] \in Values
    BY <1>1, <1>2 DEF SlotVal, Good, Shape
  <2>2. i \in world.keys /\ i \notin Strings /\ i \notin Addresses
    BY <1>1, <2>1, KeyAssumption DEF Good, Shape
  <2> QED
    BY <1>1, <1>2, <2>1, <2>2 DEF SlotKey, SlotVal, TableKeys, Named
<1>3. CASE i >= ASize(x)
  <2> DEFINE n == i - ASize(x)
  <2>1. n \in DOMAIN x.node
    BY <1>1, <1>3
  <2>2. SlotKey(x, i) = x.node[n].key /\ SlotVal(x, i) = x.node[n].val
    BY <1>1, <1>3 DEF SlotKey, SlotVal
  <2>3. x.node[n].key \in Values /\ x.node[n].val \in Values
    BY <2>1, ShapeFacts DEF Good
  <2> HIDE DEF n
  <2> QED
    BY <2>1, <2>2, <2>3 DEF Good, Filled, LiveNamed, Values, n
<1> QED
  BY <1>1, <1>2, <1>3

\* The fields that stay in the array, and those that are stored again.
Stays(x, asize, q) == q \in DOMAIN x.array /\ q \in 0..(asize - 1) /\ x.array[q] # Nil
Moves(x, asize, j, q) == Leaves(x, asize, j) /\ SlotKey(x, j) = q

\* What is in the slots of such a table.
LEMMA MirroredSlots ==
  ASSUME NEW x, Mirrored(x), DOMAIN x.array = 0..(ASize(x) - 1), ASize(x) \in Nat,
         DOMAIN x.node = 0..(Size(x) - 1), Size(x) \in Nat
  PROVE  \A m \in Slots(x) : SlotVal(x, m) # Nil => SlotVal(x, m) = SlotKey(x, m)
<1> TAKE m \in Slots(x)
<1>1. CASE m < ASize(x)
  BY <1>1 DEF Mirrored, Slots, SlotVal, SlotKey
<1>2. CASE ~(m < ASize(x))
  <2>1. m - ASize(x) \in DOMAIN x.node
    BY <1>2 DEF Slots
  <2> QED
    BY <1>2, <2>1 DEF Mirrored, SlotVal, SlotKey
<1> QED
  BY <1>1, <1>2

\* A table is rebuilt with all its keys in their places, whatever they were
\* like before, if it has room for those that the new array does not hold.
LEMMA ResizedGood ==
  ASSUME world \in Worlds, NEW s, NEW x, Good(s, x), NEW asize \in Nat, NEW bits \in Nat,
         NEW rest, IsFiniteSet(rest), Cardinality(rest) <= 2^bits, rest # {} => bits # 0,
         \A i \in Slots(x) : Leaves(x, asize, i) => SlotKey(x, i) \in rest \cup 0..(asize - 1)
  PROVE  LET r == Resized(s, x, asize, bits)
         IN  /\ r.fits /\ Good(s, r.table) /\ Placed(s, r.table)
             /\ DOMAIN r.table.array = 0..(asize - 1)
             /\ Size(r.table) = 2^bits
             /\ \A n \in Keyed(r.table) : r.table.node[n].key \in rest
             /\ Mirrored(x) =>
                  /\ Mirrored(r.table)
                  /\ \A q : Present(r.table, q) <=> \/ Stays(x, asize, q)
                                                   \/ \E j \in Slots(x) : Moves(x, asize, j, q)
<1> DEFINE last == ASize(x) + Size(x)
           Fine(y) == /\ y.fits /\ Good(s, y.table) /\ Placed(s, y.table)
                      /\ y = [table |-> y.table, fits |-> y.fits]
                      /\ DOMAIN y.table.array = 0..(asize - 1)
                      /\ Size(y.table) = 2^bits
                      /\ \A n \in Keyed(y.table) : y.table.node[n].key \in rest
           Refills(y, i) ==
             Mirrored(x) =>
               /\ Mirrored(y.table)
               /\ \A q : Present(y.table, q) <=>
                           \/ Stays(x, asize, q)
                           \/ \E j \in Slots(x) : j < i /\ Moves(x, asize, j, q)
<1>1. /\ last \in Nat /\ \A i \in 0..(last - 1) : i \in Slots(x)
      /\ Shape(x) /\ ASize(x) \in Nat /\ DOMAIN x.array = 0..(ASize(x) - 1)
  BY ShapeFacts, SMTT(30) DEF Good, Shape, Slots
<1>2. PICK g : /\ g[0] = [table |-> Emptied(x, asize, bits), fits |-> TRUE]
               /\ \A i \in 0..(last - 1) : g[i + 1] = Refilled(s, x, asize, g[i], i)
               /\ Resized(s, x, asize, bits) = g[last]
  BY <1>1, ResizedIs
<1>3. Fine(g[0]) /\ Refills(g[0], 0)
  <2> DEFINE old == [i \in 0..(asize - 1) |-> IF i \in DOMAIN x.array THEN x.array[i] ELSE Nil]
             e == [array |-> old, node |-> NewNodes(bits), free |-> NewTop(bits)]
  <2>1. old \in [0..(asize - 1) -> Values] /\ \A i \in DOMAIN old : old[i] # Nil => i \in world.keys
    BY <1>1 DEF Shape, Values
  <2>2. Good(s, e) /\ Keyed(e) = {} /\ (\A c : Placed(c, e)) /\ Size(e) = 2^bits
    <3> HIDE DEF old
    <3> QED
      BY <2>1, EmptyGood
  <2>3. e.array = old /\ DOMAIN old = 0..(asize - 1)
    OBVIOUS
  <2>4. e = Emptied(x, asize, bits)
    BY DEF Emptied
  <2> HIDE DEF e, old
  <2>5. g[0].table = e /\ g[0].fits
    BY <1>2, <2>4
  <2>6. g[0] = [table |-> g[0].table, fits |-> g[0].fits]
    BY <1>2
  <2>7. Fine(g[0])
    BY <2>2, <2>3, <2>5, <2>6
  <2>8. /\ \A n \in DOMAIN e.node : e.node[n].val = Nil
        /\ \A i \in 0..(asize - 1) : old[i] = IF i \in DOMAIN x.array THEN x.array[i] ELSE Nil
    BY DEF e, old, NewNodes
  <2>9. Mirrored(x) => Mirrored(e)
    BY <2>3, <2>8 DEF Mirrored
  <2>10. \A q : Present(e, q) <=> Stays(x, asize, q)
    BY <2>3, <2>8 DEF Present, InArray, Integer, Stays
  <2>11. \A j \in Slots(x) : ~(j < 0)
    BY DEF Slots
  <2>12. Refills(g[0], 0)
    BY <2>5, <2>9, <2>10, <2>11
  <2> QED
    BY <2>7, <2>12
<1>4. ASSUME NEW i \in 0..(last - 1), NEW y, Fine(y), Refills(y, i)
      PROVE  Fine(Refilled(s, x, asize, y, i)) /\ Refills(Refilled(s, x, asize, y, i), i + 1)
  <2> DEFINE k == SlotKey(x, i)
             v == SlotVal(x, i)
             z == Store(s, y.table, k, v)
  <2>0. \A q : (\E j \in Slots(x) : j < i + 1 /\ Moves(x, asize, j, q)) <=>
                \/ Moves(x, asize, i, q)
                \/ \E j \in Slots(x) : j < i /\ Moves(x, asize, j, q)
    <3>1. \A j \in Slots(x) : j < i + 1 <=> j < i \/ j = i
      BY <1>1 DEF Slots
    <3> QED
      BY <1>1, <3>1
  <2>1. CASE ~Leaves(x, asize, i)
    <3>1. Refilled(s, x, asize, y, i) = y
      BY <2>1 DEF Refilled
    <3>2. \A q : ~Moves(x, asize, i, q)
      BY <2>1 DEF Moves
    <3> QED
      BY <1>4, <2>0, <3>1, <3>2
  <2>2. CASE Leaves(x, asize, i)
    <3>1. k \in TableKeys /\ Named(s, k) /\ v \in Values
      BY <1>1, <2>2, SlotFacts DEF Leaves
    <3>2. ~InArray(y.table, k) => k \in rest
      <4>1. k \in rest \cup 0..(asize - 1)
        BY <1>1, <2>2
      <4> HIDE DEF k
      <4> QED
        BY <1>4, <4>1 DEF InArray, Integer
    <3>3. HasRoom(s, y.table, k)
      <4>1. rest # {} => Size(y.table) > 1
        <5>1. bits # 0 => bits < 2^bits /\ 2^bits \in Nat
          BY PowerAbove, PowerOfTwo
        <5> HIDE DEF k
        <5> QED
          BY <1>4, <5>1
      <4> HIDE DEF k
      <4> QED
        BY <1>4, <3>1, <3>2, <4>1, Room
    <3> HIDE DEF k, v
    <3>4. \A q \in DOMAIN y.table.node :
            y.table.node[q].val # Nil => Hash(s, y.table.node[q].key) = Hash(s, y.table.node[q].key)
      OBVIOUS
    <3>5. Agrees(s, s, y.table)
      BY <3>4 DEF Agrees
    <3>6. InArray(y.table, k) \/ Holding(s, y.table, k) # {} \/ ~LostNode(s, y.table, k)
      BY <1>4, <3>1, <3>3, <3>5, NotLost DEF HasRoom
    <3>7. /\ Good(s, z) /\ DOMAIN z.array = DOMAIN y.table.array
          /\ DOMAIN z.node = DOMAIN y.table.node
          /\ \A n \in DOMAIN y.table.node :
               \/ z.node[n].key = k /\ ~InArray(y.table, k)
               \/ \E j \in DOMAIN y.table.node : z.node[n].key = y.table.node[j].key
          /\ \A c : /\ Placed(c, y.table) /\ Agrees(s, c, y.table) /\ Named(c, k)
                    /\ Hash(s, k) = Hash(c, k)
                    => Placed(c, z)
      BY <1>4, <3>1, <3>3, <3>6, StoreGood
    <3>8. Placed(s, z)
      BY <1>4, <3>1, <3>5, <3>7
    <3>9. Refilled(s, x, asize, y, i) = [y EXCEPT !.table = z]
      BY <1>4, <2>2, <3>3 DEF Refilled, k, v
    <3> DEFINE w == Refilled(s, x, asize, y, i)
    <3> HIDE DEF z
    <3>10. w = [table |-> z, fits |-> y.fits]
      BY <1>4, <3>9
    <3> HIDE DEF w
    <3>11. w.table = z /\ w.fits = y.fits /\ w = [table |-> w.table, fits |-> w.fits]
      BY <3>10
    <3>12. \A n \in Keyed(z) : z.node[n].key \in rest
      BY <1>4, <3>2, <3>7 DEF Keyed
    <3>13. Size(z) = 2^bits
      BY <1>4, <3>7 DEF Size
    <3>14. Fine(w)
      BY <1>4, <3>7, <3>8, <3>11, <3>12, <3>13
    <3>15. ASSUME Mirrored(x)
           PROVE  /\ Mirrored(z)
                  /\ \A q : Present(z, q) <=> q = k \/ Present(y.table, q)
      <4>1. v = k /\ k # Nil
        <5>1. v = k
          <6>1. \A m \in Slots(x) : SlotVal(x, m) # Nil => SlotVal(x, m) = SlotKey(x, m)
            BY <1>1, <3>15, ShapeFacts, MirroredSlots
          <6>2. v # Nil /\ i \in Slots(x)
            BY <1>1, <2>2 DEF Leaves, v
          <6> QED
            BY <6>1, <6>2 DEF v, k
        <5> QED
          BY <3>1, <5>1, KeyFacts
      <4>2. Mirrored(y.table)
        BY <1>4, <3>15
      <4>3. v \in {Nil, k}
        BY <4>1
      <4> HIDE DEF Fine, Refills
      <4>4. Good(s, y.table) /\ Placed(s, y.table)
        BY <1>4 DEF Fine
      <4>5. /\ Mirrored(z)
            /\ \A q : Present(z, q) <=> IF q = k THEN v # Nil ELSE Present(y.table, q)
        BY <3>1, <3>3, <3>5, <3>6, <4>2, <4>3, <4>4, StoreMaps DEF z
      <4> QED
        BY <4>1, <4>5
    <3>16. \A q : Moves(x, asize, i, q) <=> q = k
      BY <2>2 DEF Moves, k
    <3>17. Refills(w, i + 1)
      BY <1>4, <2>0, <3>11, <3>15, <3>16
    <3> QED
      BY <3>14, <3>17 DEF w
  <2> QED
    BY <2>1, <2>2
<1> DEFINE U == {i \in Nat : i <= last => Fine(g[i]) /\ Refills(g[i], i)}
<1> HIDE DEF last, Fine, Refills
<1>5. 0 \in U
  BY <1>3
<1>6. ASSUME NEW i \in Nat, i \in U
      PROVE  i + 1 \in U
  <2> SUFFICES ASSUME i + 1 <= last
               PROVE  Fine(g[i + 1]) /\ Refills(g[i + 1], i + 1)
    OBVIOUS
  <2>1. i \in 0..(last - 1) /\ Fine(g[i]) /\ Refills(g[i], i)
    BY <1>1, <1>6
  <2> QED
    BY <1>2, <1>4, <2>1
<1>7. last \in U
  <2> HIDE DEF U
  <2> QED
    BY <1>1, <1>5, <1>6, Induction
<1>8. Fine(g[last]) /\ Refills(g[last], last)
  BY <1>1, <1>7
<1>9. \A j \in Slots(x) : j < last
  BY <1>1, ShapeFacts DEF Slots, last
<1> QED
  BY <1>2, <1>8, <1>9 DEF Fine, Refills

-----------------------------------------------------------------------------
\* An integer of bin b is at most 2^(b + 1): an array that reaches as far
\* holds it.
LEMMA BinFacts ==
  ASSUME NEW i \in Nat
  PROVE  Bin(i) \in Nat /\ \A b \in Nat : Bin(i) <= b => i <= 2^(b + 1)
<1>1. Bin(i) \in Nat /\ i <= 2^(Bin(i) + 1)
  <2>1. CASE i <= 2
    <3>1. Bin(i) = 0
      BY <2>1 DEF Bin
    <3>2. 2^0 \in Nat /\ 2^0 >= 1 /\ 2^(0 + 1) = 2 * 2^0
      BY PowerOfTwo
    <3> QED
      BY <2>1, <3>1, <3>2
  <2>2. CASE i > 2
    <3> DEFINE S == {b \in 0..i : 2^b < i}
               m == Max(S)
    <3>1. Bin(i) = m
      BY <2>2 DEF Bin
    <3>2. m \in S /\ \A b \in S : b <= m
      <4>1. S # {}
        <5>1. PICK z : z = 0
          OBVIOUS
        <5>2. z \in 0..i /\ 2^z < i
          BY <2>2, <5>1, PowerOfTwo
        <5> QED
          BY <5>2
      <4>2. S \subseteq 0..i
        OBVIOUS
      <4>3. S \subseteq Nat /\ \A b \in S : b <= i
        <5> HIDE DEF S
        <5> QED
          BY <4>2
      <4> HIDE DEF S
      <4> QED
        BY <4>1, <4>3, NatMax
    <3> HIDE DEF m
    <3>3. m \in Nat
      BY <3>2
    <3>4. ASSUME ~(i <= 2^(m + 1))
          PROVE  FALSE
      <4>1. m + 1 < 2^(m + 1) /\ 2^(m + 1) \in Nat
        BY <3>3, PowerAbove, PowerOfTwo
      <4> DEFINE p == 2^(m + 1)
      <4>2. p < i /\ p \in Nat /\ m + 1 < p
        BY <3>4, <4>1
      <4>3. m + 1 \in 0..i
        <5> HIDE DEF p
        <5> QED
          BY <3>3, <4>2
      <4>4. m + 1 \in S
        BY <4>2, <4>3
      <4> HIDE DEF S
      <4> QED
        BY <3>2, <3>3, <4>4
    <3> QED
      BY <3>1, <3>3, <3>4
  <2> QED
    BY <2>1, <2>2
<1>2. ASSUME NEW b \in Nat, Bin(i) <= b
      PROVE  i <= 2^(b + 1)
  <2>1. 2^(Bin(i) + 1) <= 2^(b + 1) /\ 2^(Bin(i) + 1) \in Nat /\ 2^(b + 1) \in Nat
    BY <1>1, <1>2, PowerGrows, PowerOfTwo
  <2> DEFINE p == 2^(Bin(i) + 1)
             q == 2^(b + 1)
  <2>2. p \in Nat /\ q \in Nat /\ i <= p /\ p <= q
    BY <1>1, <2>1
  <2>3. i <= q
    <3> HIDE DEF p, q
    <3> QED
      BY <2>2
  <2> QED
    BY <2>3
<1> QED
  BY <1>1, <1>2

\* The keys that are counted are finitely many.
LEMMA CountedFacts ==
  ASSUME NEW s, NEW x, Good(s, x), NEW k
  PROVE  IsFiniteSet(Counted(x, k)) /\ Cardinality(Counted(x, k)) \in Nat
<1> DEFINE A == {i \in DOMAIN x.array : x.array[i] # Nil}
           L == {m \in DOMAIN x.node : x.node[m].val # Nil}
           K == {x.node[n].key : n \in L}
           f == [n \in L |-> x.node[n].key]
<1>1. IsFiniteSet(A)
  <2>1. IsFiniteSet(DOMAIN x.array)
    <3>1. ASize(x) - 1 \in Int /\ 0 \in Int /\ DOMAIN x.array = 0..(ASize(x) - 1)
      BY ShapeFacts DEF Good, Shape
    <3> QED
      BY <3>1, FS_Interval
  <2> QED
    BY <2>1, FS_Subset
<1>2. IsFiniteSet(K)
  <2>1. IsFiniteSet(L)
    BY ShapeFacts, FS_Subset DEF Good, Wired
  <2>2. f \in Surjection(L, K)
    BY DEF Surjection
  <2> HIDE DEF f, L, K
  <2> QED
    BY <2>1, <2>2, FS_Surjection
<1>3. Counted(x, k) = (A \cup K) \cup {k}
  BY DEF Counted
<1> HIDE DEF A, K
<1>4. IsFiniteSet(A \cup K)
  BY <1>1, <1>2, FS_Union
<1>5. IsFiniteSet(Counted(x, k))
  BY <1>3, <1>4, FS_AddElement
<1> QED
  BY <1>5, FS_CardinalityType

\* The sizes that a rehash computes are enough: what the new array does not
\* hold fits into the hash part.
LEMMA RehashRoom ==
  ASSUME world \in Worlds, NEW s, NEW x, Good(s, x), NEW k
  PROVE  LET asize == BestASize(x, k)
             bits == HBits(HashSize(x, k))
         IN  /\ asize \in Nat /\ bits \in Nat
             /\ \E rest :
                  /\ IsFiniteSet(rest) /\ Cardinality(rest) <= 2^bits /\ (rest # {} => bits # 0)
                  /\ \A i \in Slots(x) :
                       Leaves(x, asize, i) => SlotKey(x, i) \in rest \cup 0..(asize - 1)
                  /\ k \in rest \cup 0..(asize - 1)
<1> DEFINE C == Counted(x, k)
           F == FullBins(x, k)
           asize == BestASize(x, k)
           size == HashSize(x, k)
           bits == HBits(size)
           held == IF F = {} THEN {} ELSE UpTo(x, k, Max(F))
           rest == C \ held
<1>1. IsFiniteSet(C) /\ Cardinality(C) \in Nat
  BY CountedFacts
<1>2. F \subseteq Nat /\ \A b \in F : b <= 2 * Cardinality(C)
  <2> SUFFICES ASSUME NEW b \in F
               PROVE  b \in Nat /\ b <= 2 * Cardinality(C)
    OBVIOUS
  <2>1. PICK i : Integer(i) /\ b = Bin(i)
    BY DEF FullBins
  <2>2. b \in Nat
    BY <2>1, BinFacts DEF Integer
  <2>3. 2 * Cardinality(UpTo(x, k, b)) > 2^b
    BY DEF FullBins
  <2>4. Cardinality(UpTo(x, k, b)) <= Cardinality(C) /\ Cardinality(UpTo(x, k, b)) \in Nat
    <3>1. UpTo(x, k, b) \subseteq C
      BY DEF UpTo
    <3> QED
      BY <1>1, <3>1, FS_Subset, FS_CardinalityType
  <2>5. b < 2^b /\ 2^b \in Nat
    BY <2>2, PowerAbove, PowerOfTwo
  <2> DEFINE p == 2^b
             c == Cardinality(C)
             u == Cardinality(UpTo(x, k, b))
  <2>6. b \in Nat /\ p \in Nat /\ c \in Nat /\ u \in Nat /\ b < p /\ u <= c /\ 2 * u > p
    BY <1>1, <2>2, <2>3, <2>4, <2>5
  <2>7. b <= 2 * c
    <3> HIDE DEF p, c, u
    <3> QED
      BY <2>6
  <2> QED
    BY <2>2, <2>7
<1>3. F # {} => Max(F) \in Nat
  <2>1. 2 * Cardinality(C) \in Nat
    BY <1>1
  <2> HIDE DEF F, C
  <2> QED
    BY <1>2, <2>1, NatMax
<1>4. asize \in Nat /\ held \subseteq 0..(asize - 1)
  <2>1. CASE F = {}
    BY <2>1 DEF BestASize
  <2>2. CASE F # {}
    <3> DEFINE b == Max(F)
    <3>1. b \in Nat
      BY <1>3, <2>2
    <3>2. asize = 2^(b + 1) + 1
      BY <2>2 DEF BestASize
    <3> HIDE DEF b
    <3>3. 2^(b + 1) \in Nat
      BY <3>1, PowerOfTwo
    <3>4. ASSUME NEW i \in UpTo(x, k, b)
          PROVE  i \in 0..(asize - 1)
      <4>1. i \in Nat /\ i <= 2^(b + 1)
        BY <3>1, BinFacts DEF UpTo, Integer
      <4> DEFINE p == 2^(b + 1)
      <4>2. p \in Nat /\ i \in Nat /\ i <= p /\ asize = p + 1
        BY <3>2, <3>3, <4>1
      <4> HIDE DEF p, asize
      <4> QED
        BY <4>2
    <3>5. held = UpTo(x, k, b)
      BY <2>2 DEF b
    <3> QED
      BY <3>2, <3>3, <3>4, <3>5
  <2> QED
    BY <2>1, <2>2
<1>5. IsFiniteSet(rest) /\ Cardinality(rest) = size
  <2>1. held \subseteq C
    BY DEF UpTo
  <2>2. C \cap held = held
    BY <2>1
  <2>3. size = Cardinality(C) - Cardinality(held)
    <3>1. CASE F = {}
      BY <1>1, <3>1, FS_EmptySet DEF HashSize
    <3>2. CASE F # {}
      BY <3>2 DEF HashSize
    <3> QED
      BY <3>1, <3>2
  <2> HIDE DEF size, C, held
  <2> QED
    BY <1>1, <2>2, <2>3, FS_Difference
<1>6. size \in Nat
  BY <1>5, FS_CardinalityType
<1>7. bits \in Nat /\ size <= 2^bits /\ (size # 0 => bits >= 1)
  <2> HIDE DEF size
  <2> QED
    BY <1>6, HBitsFacts
<1>8. ASSUME NEW q \in C
      PROVE  q \in rest \cup 0..(asize - 1)
  <2> HIDE DEF held, asize, C
  <2> QED
    BY <1>4, <1>8
<1>9. \A i \in Slots(x) : Leaves(x, asize, i) => SlotKey(x, i) \in rest \cup 0..(asize - 1)
  <2> TAKE i \in Slots(x)
  <2> HAVE Leaves(x, asize, i)
  <2>1. SlotKey(x, i) \in C
    <3>1. /\ ASize(x) \in Nat /\ i \in Nat /\ DOMAIN x.array = 0..(ASize(x) - 1)
          /\ SlotVal(x, i) # Nil /\ (i >= ASize(x) => i - ASize(x) \in DOMAIN x.node)
      BY SlotFacts, ShapeFacts DEF Leaves, Good, Shape, Slots
    <3>2. CASE i < ASize(x)
      BY <3>1, <3>2 DEF SlotKey, SlotVal, Counted
    <3>3. CASE i >= ASize(x)
      BY <3>1, <3>3 DEF SlotKey, SlotVal, Counted
    <3> QED
      BY <3>1, <3>2, <3>3
  <2> QED
    BY <1>8, <2>1
<1>10. k \in C
  BY DEF Counted
<1>11. rest # {} => bits # 0
  <2> HIDE DEF rest, size, bits
  <2>1. rest # {} => Cardinality(rest) # 0
    BY <1>5, FS_EmptySet
  <2> QED
    BY <1>5, <1>7, <2>1
<1> HIDE DEF C, held, size
<1>12. /\ IsFiniteSet(rest) /\ Cardinality(rest) <= 2^bits /\ (rest # {} => bits # 0)
       /\ \A i \in Slots(x) : Leaves(x, asize, i) => SlotKey(x, i) \in rest \cup 0..(asize - 1)
       /\ k \in rest \cup 0..(asize - 1)
  BY <1>5, <1>7, <1>8, <1>9, <1>10, <1>11
<1> HIDE DEF rest
<1> QED
  BY <1>4, <1>7, <1>12 DEF size

\* lj_tab_reasize keeps the number of nodes, and their keys fit again.
LEMMA SameBits ==
  ASSUME NEW x, Shape(x)
  PROVE  LET bits == HBits(IF Size(x) = 1 THEN 0 ELSE Size(x))
         IN  /\ bits \in Nat /\ 2^bits = Size(x)
             /\ bits = 0 <=> Size(x) = 1
<1>1. PICK b \in Nat : Size(x) = 2^b
  BY DEF Shape, Powers
<1>2. Size(x) \in Nat /\ Size(x) >= 1
  BY ShapeFacts
<1>3. HBits(0) = 0 /\ 2^0 = 1
  BY PowerOfTwo DEF HBits
<1>4. CASE Size(x) = 1
  <2> DEFINE bits == HBits(IF Size(x) = 1 THEN 0 ELSE Size(x))
  <2>1. bits = 0
    BY <1>3, <1>4
  <2> HIDE DEF bits
  <2>2. bits \in Nat /\ 2^bits = Size(x)
    BY <1>3, <1>4, <2>1
  <2> QED
    BY <1>4, <2>1, <2>2 DEF bits
<1>5. CASE Size(x) # 1
  <2>1. b # 0
    BY <1>1, <1>3, <1>5
  <2>2. HBits(Size(x)) = b
    BY <1>1, <1>2, <2>1, HBitsFacts
  <2> QED
    BY <1>1, <1>5, <2>1, <2>2
<1> QED
  BY <1>4, <1>5

\* All that lj_tab_reasize stores again fits into as many nodes.
LEMMA GrowRoom ==
  ASSUME world \in Worlds, NEW s, NEW x, Good(s, x), NEW nasize \in Nat, nasize >= ASize(x)
  PROVE  \E rest :
           /\ IsFiniteSet(rest) /\ Cardinality(rest) <= Size(x) /\ (rest # {} => Size(x) # 1)
           /\ \A i \in Slots(x) :
                Leaves(x, nasize + 1, i) => SlotKey(x, i) \in rest \cup 0..((nasize + 1) - 1)
<1> DEFINE L == {n \in DOMAIN x.node : x.node[n].val # Nil}
           rest == {x.node[n].key : n \in L}
           f == [n \in L |-> x.node[n].key]
<1>1. /\ Size(x) \in Nat /\ IsFiniteSet(DOMAIN x.node) /\ ASize(x) \in Nat
  BY ShapeFacts DEF Good, Shape, Wired
<1>2. IsFiniteSet(L) /\ Cardinality(L) <= Size(x) /\ Cardinality(L) \in Nat
  BY <1>1, FS_Subset, FS_CardinalityType DEF Size
<1>3. IsFiniteSet(rest) /\ Cardinality(rest) <= Cardinality(L) /\ Cardinality(rest) \in Nat
  <2>1. f \in Surjection(L, rest)
    BY DEF Surjection
  <2> HIDE DEF f, L, rest
  <2> QED
    BY <1>2, <2>1, FS_Surjection, FS_CardinalityType
<1>4. Size(x) = 1 => L = {}
  <2> SUFFICES ASSUME Size(x) = 1, NEW n \in DOMAIN x.node
               PROVE  x.node[n].val = Nil
    OBVIOUS
  <2>1. x.node = NewNodes(0)
    BY DEF Good, Filled
  <2>2. n \in DOMAIN NewNodes(0)
    BY <2>1
  <2>3. NewNodes(0)[n].val = Nil
    BY <2>2 DEF NewNodes
  <2> QED
    BY <2>1, <2>3
<1>5. ASSUME NEW i \in Slots(x), Leaves(x, nasize + 1, i)
      PROVE  SlotKey(x, i) \in rest
  <2>1. i \in Nat /\ SlotVal(x, i) # Nil /\ (i >= ASize(x) => i - ASize(x) \in DOMAIN x.node)
    BY <1>1, <1>5, SlotFacts DEF Leaves, Slots
  <2>2. i >= ASize(x)
    BY <1>1, <1>5, <2>1 DEF Leaves
  <2>3. SlotKey(x, i) = x.node[i - ASize(x)].key /\ SlotVal(x, i) = x.node[i - ASize(x)].val
    BY <1>1, <2>1, <2>2 DEF SlotKey, SlotVal
  <2> QED
    BY <2>1, <2>2, <2>3
<1>6. rest # {} => Size(x) # 1
  BY <1>4
<1> HIDE DEF rest, L
<1>7. /\ IsFiniteSet(rest) /\ Cardinality(rest) <= Size(x)
      /\ \A i \in Slots(x) :
           Leaves(x, nasize + 1, i) => SlotKey(x, i) \in rest \cup 0..((nasize + 1) - 1)
  BY <1>1, <1>2, <1>3, <1>5
<1> QED
  BY <1>6, <1>7

-----------------------------------------------------------------------------
\* Strings are where the program lets them be made.
StringsPlaced(s) ==
  \A a \in Addresses :
    s[a] # Nil => s[a] \in world.keys \cap Strings /\ a \in world.places[s[a]]

\* What holds in every program.
Base ==
  /\ world \in Worlds
  /\ string \in [Addresses -> Strings \cup {Nil}]
  /\ StringsPlaced(string)
  /\ Good(string, t)
  /\ control \in {Nil, NoKey} \cup TableKeys
  /\ seen = Nil <=> ~Traversing
  /\ seen # Nil => seen \subseteq world.keys

\* No address is that of two strings, whatever is freed between: then the
\* hash of a key in a table never changes.
OwnAddresses ==
  \A k, l \in world.keys \cap Strings : k # l => world.places[k] \cap world.places[l] = {}
Owner ==
  [a \in Addresses |-> CHOOSE k \in world.keys \cap Strings : a \in world.places[k]]

\* No array part outgrows the integers in the nodes: an allocation of nodes
\* that fails after that of the array leaves them behind.
Steady == "nodes" \in world.exhausted => world.keys \cap Nat = {}

\* What holds in such programs.
Sound == OwnAddresses /\ Steady => Placed(Owner, t) /\ ~fault

\* Then an address is that of the string which owns it, while it has one.
LEMMA OwnerIs ==
  ASSUME OwnAddresses, NEW s, StringsPlaced(s), NEW a \in Addresses, s[a] # Nil
  PROVE  Owner[a] = s[a]
BY DEF OwnAddresses, StringsPlaced, Owner

\* Then the hash of a key is that of the owner of its address,
LEMMA OwnerHash ==
  ASSUME OwnAddresses, NEW s, StringsPlaced(s), NEW k, Named(s, k)
  PROVE  Named(Owner, k) /\ Hash(s, k) = Hash(Owner, k)
<1>1. k \in Addresses => s[k] # Nil
  BY KeyAssumption DEF Named
<1> QED
  BY <1>1, OwnerIs DEF Named, Hash

\* and a table is placed for the owners if it is for the strings there are.
LEMMA OwnerAgrees ==
  ASSUME OwnAddresses, NEW s, StringsPlaced(s), NEW x, Good(s, x)
  PROVE  Agrees(s, Owner, x) /\ (Placed(s, x) => Placed(Owner, x))
<1>1. Agrees(s, Owner, x)
  BY OwnerHash DEF Agrees, Good, LiveNamed
<1>2. ASSUME Placed(s, x)
      PROVE  Placed(Owner, x)
  <2>1. \A n \in Keyed(x) : Named(s, x.node[n].key)
    BY <1>2 DEF Placed
  <2>2. \A n \in Keyed(x) : /\ Named(Owner, x.node[n].key)
                            /\ Home(s, x, n) = Home(Owner, x, n)
    BY <2>1, OwnerHash DEF Home, Main
  <2> QED
    BY <1>2, <2>2 DEF Placed
<1> QED
  BY <1>1, <1>2

\* A key that is passed has a string, and no other string changes.
LEMMA PassedFacts ==
  ASSUME Base, NEW k \in world.keys, NEW p \in Passed(k)
  PROVE  /\ p.key \in TableKeys /\ Named(p.string, p.key)
         /\ p.string \in [Addresses -> Strings \cup {Nil}] /\ StringsPlaced(p.string)
         /\ Good(p.string, t)
<1>1. CASE k \notin Strings
  <2>1. p = [key |-> k, string |-> string]
    BY <1>1 DEF Passed
  <2>2. k \in TableKeys /\ k \notin Addresses
    <3>1. k \in Numbers \cup Nat
      BY <1>1, WorldAssumption DEF Base
    <3> QED
      BY <1>1, <3>1, KeyAssumption DEF TableKeys
  <2> QED
    BY <2>1, <2>2 DEF Base, Named
<1>2. CASE k \in Strings
  <2>1. PICK a \in Interned(k) : p = [key |-> a, string |-> [string EXCEPT ![a] = k]]
    BY <1>2 DEF Passed
  <2>2. k \in world.keys \cap Strings /\ k # Nil /\ DOMAIN world.places = world.keys \cap Strings
        /\ world.places[k] \subseteq Addresses
    <3>1. world.places \in [world.keys \cap Strings -> SUBSET Addresses]
      BY WorldAssumption DEF Base
    <3>2. Nil \notin Strings
      BY KeyAssumption
    <3> QED
      BY <1>2, <3>1, <3>2
  <2>3. a \in Addresses /\ (string[a] = k \/ (string[a] = Nil /\ a \in world.places[k]))
    BY <2>1, <2>2 DEF Interned
  <2> DEFINE s == [string EXCEPT ![a] = k]
  <2>4. s \in [Addresses -> Strings \cup {Nil}] /\ s[a] = k
        /\ \A b \in Addresses : b # a => s[b] = string[b]
    BY <2>2, <2>3 DEF Base
  <2> HIDE DEF s
  <2>5. p.key = a /\ p.string = s
    BY <2>1 DEF s
  <2>6. StringsPlaced(s)
    BY <2>2, <2>3, <2>4 DEF StringsPlaced, Base
  <2>7. \A q : Named(string, q) => Named(s, q)
    BY <2>2, <2>4 DEF Named
  <2>8. Good(s, t)
    BY <2>7 DEF Good, LiveNamed, Base
  <2> QED
    BY <2>2, <2>3, <2>4, <2>5, <2>6, <2>8 DEF Named, TableKeys
<1> QED
  BY <1>1, <1>2

\* A rehash makes room for the key that it was done for, in every program.
LEMMA RehashedGood ==
  ASSUME world \in Worlds, NEW s, NEW x, Good(s, x), NEW q \in TableKeys, Named(s, q)
  PROVE  LET new == Rehashed(s, x, q)
         IN  /\ new.fits /\ Good(s, new.table) /\ Placed(s, new.table)
             /\ HasRoom(s, new.table, q)
             /\ \/ InArray(new.table, q) \/ Holding(s, new.table, q) # {}
                \/ ~LostNode(s, new.table, q)
<1> DEFINE asize == BestASize(x, q)
           bits == HBits(HashSize(x, q))
           new == Rehashed(s, x, q)
<1>1. PICK rest :
        /\ asize \in Nat /\ bits \in Nat
        /\ IsFiniteSet(rest) /\ Cardinality(rest) <= 2^bits /\ (rest # {} => bits # 0)
        /\ \A i \in Slots(x) : Leaves(x, asize, i) => SlotKey(x, i) \in rest \cup 0..(asize - 1)
        /\ q \in rest \cup 0..(asize - 1)
  BY RehashRoom
<1>2. new = Resized(s, x, asize, bits)
  BY DEF Rehashed
<1> HIDE DEF asize, bits, new
<1>3. /\ new.fits /\ Good(s, new.table) /\ Placed(s, new.table)
      /\ DOMAIN new.table.array = 0..(asize - 1)
      /\ Size(new.table) = 2^bits
      /\ \A n \in Keyed(new.table) : new.table.node[n].key \in rest
  BY <1>1, <1>2, ResizedGood
<1>4. rest # {} => Size(new.table) > 1
  <2>1. bits < 2^bits /\ 2^bits \in Nat
    BY <1>1, PowerAbove, PowerOfTwo
  <2> QED
    BY <1>1, <1>3, <2>1
<1>5. ~InArray(new.table, q) => q \in rest
  BY <1>1, <1>3 DEF InArray, Integer
<1>6. HasRoom(s, new.table, q)
  BY <1>1, <1>3, <1>4, <1>5, Room
<1>7. Agrees(s, s, new.table)
  BY DEF Agrees
<1>8. InArray(new.table, q) \/ Holding(s, new.table, q) # {} \/ ~LostNode(s, new.table, q)
  BY <1>3, <1>6, <1>7, NotLost DEF HasRoom
<1> QED
  BY <1>3, <1>6, <1>8 DEF new

-----------------------------------------------------------------------------
\* The program is the same one after a step: what is to be shown of a step.
LEMMA BaseNext ==
  ASSUME Base, world' = world,
         string' \in [Addresses -> Strings \cup {Nil}], StringsPlaced(string'), Good(string', t'),
         control' \in {Nil, NoKey} \cup TableKeys, seen' = Nil <=> control' = NoKey,
         seen' # Nil => seen' \subseteq world.keys
  PROVE  Base'
<1>1. StringsPlaced(string)'
  BY DEF StringsPlaced
<1>2. Good(string, t)'
  BY DEF Good, Shape, Filled, LiveNamed, Named, NodesOver, Values, TableKeys
<1>3. TableKeys' = TableKeys
  BY DEF TableKeys
<1> QED
  BY <1>1, <1>2, <1>3 DEF Base, Traversing

\* The same of what is shown for programs that keep their hashes.
LEMMA SoundNext ==
  ASSUME world' = world, OwnAddresses /\ Steady => Placed(Owner, t') /\ ~fault'
  PROVE  Sound'
<1>1. (OwnAddresses' <=> OwnAddresses) /\ (Steady' <=> Steady) /\ Owner' = Owner
  BY SMTT(30) DEF OwnAddresses, Steady, Owner
<1>2. Placed(Owner, t') => Placed(Owner, t)'
  BY <1>1 DEF Placed, Home, Main, Hash, Named
<1> QED
  BY <1>1, <1>2 DEF Sound

\* Both hold of a new table.
LEMMA InitBase ==
  ASSUME Init
  PROVE  Base /\ Sound
<1>1. /\ world \in Worlds /\ string = [a \in Addresses |-> Nil]
      /\ control = NoKey /\ seen = Nil /\ fault = FALSE
  BY DEF Init
<1>2. PICK asize \in world.asizes, hsize \in world.hsizes : t = NewTable(asize, HBits(hsize))
  BY DEF Init
<1> DEFINE array == [i \in 0..(asize - 1) |-> Nil]
<1>3. asize \in Nat /\ HBits(hsize) \in Nat
  BY <1>1, <1>2, WorldAssumption, HBitsFacts
<1>4. t = [array |-> array, node |-> NewNodes(HBits(hsize)), free |-> NewTop(HBits(hsize))]
  BY <1>2 DEF NewTable
<1>5. array \in [0..(asize - 1) -> Values] /\ \A i \in DOMAIN array : array[i] = Nil
  BY DEF Values
<1> HIDE DEF array
<1>6. Good(string, t) /\ Placed(Owner, t)
  BY <1>1, <1>3, <1>4, <1>5, EmptyGood
<1>7. StringsPlaced(string)
  BY <1>1 DEF StringsPlaced
<1> QED
  BY <1>1, <1>6, <1>7 DEF Base, Sound, Traversing

\* A store, with the rehash that it may need.
LEMMA AssignKeeps ==
  ASSUME Base, Sound, NEW k \in world.keys, NEW nilled \in BOOLEAN, Assign(k, nilled)
  PROVE  Base' /\ Sound'
<1> DEFINE room(p, y) == HasRoom(p.string, y, p.key)
           known(p, y) == InArray(y, p.key) \/ Holding(p.string, y, p.key) # {}
           new(p) == Rehashed(p.string, t, p.key)
           x(p) == IF room(p, t) THEN t ELSE new(p).table
           v(p) == IF nilled THEN Nil ELSE p.key
<1>1. PICK p \in Passed(k) :
        /\ string' = p.string
        /\ fault' = (\/ ~room(p, t) /\ ~(new(p).fits /\ room(p, x(p)))
                     \/ ~known(p, x(p)) /\ LostNode(p.string, x(p), p.key))
        /\ t' = IF fault' THEN t ELSE Store(p.string, x(p), p.key, v(p))
  BY DEF Assign
<1>2. world' = world /\ control' = control /\ seen' = seen
  BY DEF Assign
<1> DEFINE s == p.string
           q == p.key
           y == x(p)
<1>3. /\ q \in TableKeys /\ Named(s, q) /\ s \in [Addresses -> Strings \cup {Nil}]
      /\ StringsPlaced(s) /\ Good(s, t) /\ world \in Worlds
  BY PassedFacts DEF Base
<1>4. v(p) \in Values
  BY <1>3 DEF Values
<1>5. room(p, t) => y = t
  OBVIOUS
<1>6. ~room(p, t) => /\ new(p).fits /\ Good(s, y) /\ Placed(s, y) /\ room(p, y)
                     /\ known(p, y) \/ ~LostNode(s, y, q)
  BY <1>3, RehashedGood
<1>7. Good(s, y) /\ HasRoom(s, y, q)
  BY <1>3, <1>5, <1>6
<1>8. fault' <=> ~known(p, y) /\ LostNode(s, y, q)
  BY <1>1, <1>6
<1> DEFINE z == Store(s, y, q, v(p))
<1>9. ~fault' => /\ Good(s, z)
                 /\ \A c : /\ Placed(c, y) /\ Agrees(s, c, y) /\ Named(c, q)
                           /\ Hash(s, q) = Hash(c, q)
                           => Placed(c, z)
  <2>1. ~fault' => InArray(y, q) \/ Holding(s, y, q) # {} \/ ~LostNode(s, y, q)
    BY <1>8
  <2> HIDE DEF y, s, q, v
  <2> QED
    BY <1>3, <1>4, <1>7, <2>1, StoreGood
<1>10. fault' => t' = t
  BY <1>1
<1>11. ~fault' => t' = z
  BY <1>1
<1>12. string' = s
  BY <1>1
<1> HIDE DEF z, y, s, q
<1>13. Good(string', t')
  BY <1>3, <1>9, <1>10, <1>11, <1>12
<1>14. Base'
  BY <1>2, <1>3, <1>12, <1>13, BaseNext DEF Base, Traversing
<1>15. ASSUME OwnAddresses, Steady
       PROVE  Placed(Owner, t') /\ ~fault'
  <2>1. Placed(Owner, t)
    BY <1>15 DEF Sound
  <2>2. Placed(Owner, y)
    <3>1. CASE room(p, t)
      BY <1>5, <2>1, <3>1
    <3>2. CASE ~room(p, t)
      BY <1>3, <1>6, <1>15, <3>2, OwnerAgrees
    <3> QED
      BY <3>1, <3>2
  <2>3. Agrees(s, Owner, y) /\ Named(Owner, q) /\ Hash(s, q) = Hash(Owner, q)
    BY <1>3, <1>7, <1>15, OwnerAgrees, OwnerHash
  <2>4. ~fault'
    <3>1. known(p, y) \/ ~LostNode(s, y, q)
      <4>1. known(p, y) <=> InArray(y, q) \/ Holding(s, y, q) # {}
        BY DEF s, q
      <4>2. NeedsFree(s, y, q) /\ ~known(p, y) => FreeNodes(y) # {}
        BY <1>7, <4>1 DEF HasRoom
      <4> QED
        BY <1>3, <1>7, <2>2, <2>3, <4>2, NotLost DEF LostNode
    <3> QED
      BY <1>8, <3>1
  <2> QED
    BY <1>9, <1>11, <2>2, <2>3, <2>4
<1> QED
  BY <1>2, <1>14, <1>15, SoundNext

\* A table whose array grew, and whose nodes are the old ones.
LEMMA LongerGood ==
  ASSUME world \in Worlds, NEW s, NEW x, Good(s, x), NEW asize \in Nat, asize > ASize(x)
  PROVE  LET longer == [i \in 0..(asize - 1) |->
                          IF i \in DOMAIN x.array THEN x.array[i] ELSE Nil]
             y == [x EXCEPT !.array = longer]
         IN  /\ Good(s, y) /\ y.node = x.node
             /\ \A c : Placed(c, x) /\ world.keys \cap Nat = {} => Placed(c, y)
<1> DEFINE longer == [i \in 0..(asize - 1) |-> IF i \in DOMAIN x.array THEN x.array[i] ELSE Nil]
           y == [x EXCEPT !.array = longer]
<1>1. /\ x = [array |-> x.array, node |-> x.node, free |-> x.free]
      /\ x.array \in [DOMAIN x.array -> Values]
      /\ \A i \in DOMAIN x.array : x.array[i] # Nil => i \in world.keys
  BY DEF Good, Shape
<1>2. /\ longer \in [0..(asize - 1) -> Values] /\ DOMAIN longer = 0..(asize - 1)
      /\ \A i \in DOMAIN longer : longer[i] # Nil => i \in world.keys
  BY <1>1 DEF Values
<1> HIDE DEF longer
<1>3. y = [array |-> longer, node |-> x.node, free |-> x.free]
  BY <1>1
<1> HIDE DEF y
<1>4. /\ y.array = longer /\ y.node = x.node /\ y.free = x.free
      /\ y = [array |-> y.array, node |-> y.node, free |-> y.free]
  BY <1>3
<1>5. Size(y) = Size(x) /\ ASize(y) = asize
  <2>1. Cardinality(0..(asize - 1)) = asize
    BY FS_Interval
  <2> QED
    BY <1>2, <1>4, <2>1 DEF Size, ASize
<1>6. Shape(y)
  BY <1>2, <1>4, <1>5 DEF Good, Shape
<1>7. Good(s, y)
  BY <1>4, <1>5, <1>6 DEF Good, Filled, LiveNamed
<1>8. ASSUME NEW c, Placed(c, x), world.keys \cap Nat = {}
      PROVE  Placed(c, y)
  <2>1. Keyed(y) = Keyed(x)
    BY <1>4 DEF Keyed
  <2>2. \A n \in Keyed(x) : ~InArray(y, x.node[n].key)
    <3>1. \A n \in Keyed(x) : x.node[n].key \in TableKeys
      BY ShapeFacts DEF Keyed, Good, Values
    <3>2. TableKeys \cap Nat = {}
      BY <1>8, KeyAssumption DEF TableKeys
    <3> QED
      BY <3>1, <3>2 DEF InArray, Integer
  <2>3. \A q : Main(c, y, q) = Main(c, x, q)
    BY <1>5 DEF Main
  <2> QED
    BY <1>4, <1>8, <2>1, <2>2, <2>3 DEF Placed, Home
<1> QED
  BY <1>4, <1>7, <1>8 DEF y, longer

\* A failed allocation leaves the table, or one with a longer array part.
LEMMA OutOfMemoryKeeps ==
  ASSUME Base, Sound, NEW k \in world.keys, OutOfMemory(k)
  PROVE  Base' /\ Sound'
<1>1. world' = world /\ control' = control /\ seen' = seen /\ fault' = fault
  BY DEF OutOfMemory
<1> DEFINE longer(p) == [i \in 0..(BestASize(t, p.key) - 1) |->
                           IF i \in DOMAIN t.array THEN t.array[i] ELSE Nil]
           grows(p) == BestASize(t, p.key) > ASize(t)
<1>2. PICK p \in Passed(k) :
        /\ string' = p.string
        /\ \/ UNCHANGED t
           \/ /\ "nodes" \in world.exhausted
              /\ t' = IF grows(p) THEN [t EXCEPT !.array = longer(p)] ELSE t
  BY DEF OutOfMemory
<1>3. /\ p.string \in [Addresses -> Strings \cup {Nil}] /\ StringsPlaced(p.string)
      /\ Good(p.string, t) /\ world \in Worlds
  BY PassedFacts DEF Base
<1>4. BestASize(t, p.key) \in Nat
  BY <1>3, RehashRoom
<1>5. CASE UNCHANGED t
  <2>1. Base'
    BY <1>1, <1>2, <1>3, <1>5, BaseNext DEF Base, Traversing
  <2> QED
    BY <1>1, <1>5, <2>1, SoundNext DEF Sound
<1>6. CASE "nodes" \in world.exhausted /\ grows(p) /\ t' = [t EXCEPT !.array = longer(p)]
  <2>1. /\ Good(p.string, t')
        /\ \A c : Placed(c, t) /\ world.keys \cap Nat = {} => Placed(c, t')
    BY <1>3, <1>4, <1>6, LongerGood
  <2>2. Base'
    BY <1>1, <1>2, <1>3, <2>1, BaseNext DEF Base, Traversing
  <2>3. OwnAddresses /\ Steady => Placed(Owner, t') /\ ~fault'
    BY <1>1, <1>6, <2>1 DEF Sound, Steady
  <2> QED
    BY <1>1, <2>2, <2>3, SoundNext
<1> QED
  BY <1>2, <1>5, <1>6

\* lj_tab_reasize rebuilds the table with the same number of nodes.
LEMMA GrowKeeps ==
  ASSUME Base, Sound, NEW nasize \in world.lengths, Grow(nasize)
  PROVE  Base' /\ Sound'
<1> DEFINE bits == HBits(IF Size(t) = 1 THEN 0 ELSE Size(t))
           x == Resized(string, t, nasize + 1, bits)
<1>1. world' = world /\ string' = string /\ control' = control /\ seen' = seen
  BY DEF Grow
<1>2. fault' = ~x.fits /\ t' = IF fault' THEN t ELSE x.table
  BY DEF Grow
<1>3. nasize \in Nat /\ nasize >= ASize(t) /\ world \in Worlds /\ Good(string, t)
  BY WorldAssumption DEF Grow, Base
<1>4. bits \in Nat /\ 2^bits = Size(t) /\ (bits = 0 <=> Size(t) = 1)
  BY <1>3, SameBits DEF Good
<1> HIDE DEF bits
<1>5. PICK rest :
        /\ IsFiniteSet(rest) /\ Cardinality(rest) <= Size(t) /\ (rest # {} => Size(t) # 1)
        /\ \A i \in Slots(t) :
             Leaves(t, nasize + 1, i) => SlotKey(t, i) \in rest \cup 0..((nasize + 1) - 1)
  BY <1>3, GrowRoom
<1>6. x.fits /\ Good(string, x.table) /\ Placed(string, x.table)
  <2>1. Cardinality(rest) <= 2^bits /\ (rest # {} => bits # 0) /\ nasize + 1 \in Nat
    BY <1>3, <1>4, <1>5
  <2> QED
    BY <1>3, <1>4, <1>5, <2>1, ResizedGood
<1> HIDE DEF x
<1>7. ~fault' /\ t' = x.table
  BY <1>2, <1>6
<1>8. Base'
  BY <1>1, <1>6, <1>7, BaseNext DEF Base, Traversing
<1>9. OwnAddresses => Placed(Owner, t')
  BY <1>6, <1>7, OwnerAgrees DEF Base
<1> QED
  BY <1>1, <1>7, <1>8, <1>9, SoundNext

\* lj_tab_clear leaves a table that is like a new one.
LEMMA ClearKeeps ==
  ASSUME Base, Sound, Clear
  PROVE  Base' /\ Sound'
<1>1. /\ world' = world /\ string' = string /\ control' = control /\ seen' = seen /\ fault' = fault
      /\ t' = [array |-> [i \in DOMAIN t.array |-> Nil], free |-> ClearedTop,
               node |-> [n \in DOMAIN t.node |-> [key |-> Nil, val |-> Nil, next |-> None]]]
  BY DEF Clear
<1>2. world \in Worlds /\ Good(string, t) /\ ASize(t) \in Nat
  BY DEF Base, Good, Shape
<1> DEFINE bits == HBits(IF Size(t) = 1 THEN 0 ELSE Size(t))
           array == [i \in DOMAIN t.array |-> Nil]
<1>3. /\ bits \in Nat /\ 2^bits = Size(t) /\ (bits = 0 <=> Size(t) = 1)
      /\ DOMAIN t.node = 0..(Size(t) - 1) /\ DOMAIN t.array = 0..(ASize(t) - 1)
  BY <1>2, SameBits, ShapeFacts DEF Good
<1>4. ClearedTop = NewTop(bits)
  <2>1. HBits(0) = 0
    BY DEF HBits
  <2> QED
    BY <2>1 DEF ClearedTop
<1> HIDE DEF bits
<1>5. [n \in DOMAIN t.node |-> [key |-> Nil, val |-> Nil, next |-> None]] = NewNodes(bits)
  BY <1>3 DEF NewNodes
<1>6. array \in [0..(ASize(t) - 1) -> Values] /\ \A i \in DOMAIN array : array[i] = Nil
  BY <1>3 DEF Values
<1>7. t' = [array |-> array, node |-> NewNodes(bits), free |-> NewTop(bits)]
  BY <1>1, <1>4, <1>5
<1> HIDE DEF array
<1>8. Good(string, t') /\ Placed(Owner, t')
  BY <1>2, <1>3, <1>6, <1>7, EmptyGood
<1>9. Base'
  BY <1>1, <1>8, BaseNext DEF Base, Traversing
<1> QED
  BY <1>1, <1>8, <1>9, SoundNext DEF Sound

\* A traversal changes no table.
LEMMA BeginKeeps ==
  ASSUME Base, Sound, Begin
  PROVE  Base' /\ Sound'
<1>1. /\ world' = world /\ string' = string /\ t' = t /\ fault' = fault
      /\ control' = Nil /\ seen' = {}
  BY DEF Begin
<1>2. {} # Nil /\ Nil # NoKey
  BY KeyFacts, KeyAssumption DEF Base
<1>3. Base'
  BY <1>1, <1>2, BaseNext DEF Base
<1> QED
  BY <1>1, <1>3, SoundNext DEF Sound

\* The key that lj_tab_next returns is live, so that its string is there.
LEMMA NextKeyKeeps ==
  ASSUME Base, Sound, NextKey
  PROVE  Base' /\ Sound'
<1> DEFINE found == {i \in Later(Index(control)) : SlotVal(t, i) # Nil}
<1>1. /\ world' = world /\ string' = string /\ t' = t /\ fault' = fault /\ Traversing
      /\ IF found = {} THEN control' = NoKey /\ seen' = Nil
         ELSE /\ control' = SlotKey(t, Min(found))
              /\ seen' = seen \cup {KeyOf(string, control')}
  BY DEF NextKey
<1>2. world \in Worlds /\ Good(string, t)
  BY DEF Base
<1>3. CASE found = {}
  <2>1. Base'
    BY <1>1, <1>3, BaseNext DEF Base
  <2> QED
    BY <1>1, <2>1, SoundNext DEF Sound
<1>4. CASE found # {}
  <2>1. found \subseteq Slots(t) /\ \A i \in found : SlotVal(t, i) # Nil
    BY DEF Later
  <2>2. Slots(t) \subseteq Nat
    BY DEF Slots
  <2> HIDE DEF found
  <2>3. Min(found) \in found
    BY <1>4, <2>1, <2>2, NatMin
  <2>4. SlotKey(t, Min(found)) \in TableKeys /\ Named(string, SlotKey(t, Min(found)))
    BY <1>2, <2>1, <2>3, SlotFacts
  <2>5. control' \in TableKeys /\ Named(string, control')
    BY <1>1, <1>4, <2>4
  <2>6. control' # NoKey
    BY <1>2, <2>5, KeyFacts
  <2>7. KeyOf(string, control') \in world.keys
    BY <2>5 DEF KeyOf, Named, TableKeys
  <2>8. seen \subseteq world.keys
    BY <1>1 DEF Base
  <2>9. seen' \subseteq world.keys /\ seen' # Nil
    BY <1>1, <1>2, <1>4, <2>7, <2>8, KeyFacts
  <2>10. Base'
    BY <1>1, <2>5, <2>6, <2>9, BaseNext DEF Base
  <2> QED
    BY <1>1, <2>10, SoundNext DEF Sound
<1> QED
  BY <1>3, <1>4

\* A string that is freed is the key of no live node.
LEMMA FreeStringKeeps ==
  ASSUME Base, Sound, NEW a \in Addresses, FreeString(a)
  PROVE  Base' /\ Sound'
<1>1. /\ world' = world /\ t' = t /\ fault' = fault /\ control' = control /\ seen' = seen
      /\ string' = [string EXCEPT ![a] = Nil]
      /\ \A n \in DOMAIN t.node : t.node[n].val # Nil => t.node[n].key # a
  BY DEF FreeString
<1>2. /\ string' \in [Addresses -> Strings \cup {Nil}] /\ string'[a] = Nil
      /\ \A b \in Addresses : b # a => string'[b] = string[b]
  BY <1>1 DEF Base
<1>3. StringsPlaced(string')
  BY <1>2 DEF StringsPlaced, Base
<1>4. Good(string', t')
  <2>1. \A n \in DOMAIN t.node : t.node[n].val # Nil => Named(string', t.node[n].key)
    BY <1>1, <1>2 DEF Named, Base, Good, LiveNamed
  <2> QED
    BY <1>1, <2>1 DEF Good, LiveNamed, Base
<1>5. Base'
  BY <1>1, <1>2, <1>3, <1>4, BaseNext DEF Base, Traversing
<1> QED
  BY <1>1, <1>5, SoundNext DEF Sound

-----------------------------------------------------------------------------
\* Every step keeps both invariants, and the program.
LEMMA StepKeeps ==
  ASSUME Base, Sound, [Next]_vars
  PROVE  Base' /\ Sound' /\ world' = world
<1>1. ASSUME NEW k \in world.keys, Put(k) \/ Unset(k)
      PROVE  Base' /\ Sound' /\ world' = world
  <2>1. PICK nilled \in BOOLEAN : Assign(k, nilled)
    BY <1>1 DEF Put, Unset
  <2>2. world' = world
    BY <2>1 DEF Assign
  <2> QED
    BY <2>1, <2>2, AssignKeeps
<1>2. ASSUME NEW k \in world.keys, OutOfMemory(k)
      PROVE  Base' /\ Sound' /\ world' = world
  <2>1. world' = world
    BY <1>2 DEF OutOfMemory
  <2> QED
    BY <1>2, <2>1, OutOfMemoryKeeps
<1>3. ASSUME NEW n \in world.lengths, Grow(n)
      PROVE  Base' /\ Sound' /\ world' = world
  <2>1. world' = world
    BY <1>3 DEF Grow
  <2> QED
    BY <1>3, <2>1, GrowKeeps
<1>4. CASE Clear
  <2>1. world' = world
    BY <1>4 DEF Clear
  <2> QED
    BY <1>4, <2>1, ClearKeeps
<1>5. CASE Begin
  <2>1. world' = world
    BY <1>5 DEF Begin
  <2> QED
    BY <1>5, <2>1, BeginKeeps
<1>6. CASE NextKey
  <2>1. world' = world
    BY <1>6 DEF NextKey
  <2> QED
    BY <1>6, <2>1, NextKeyKeeps
<1>7. ASSUME NEW a \in Addresses, FreeString(a)
      PROVE  Base' /\ Sound' /\ world' = world
  <2>1. world' = world
    BY <1>7 DEF FreeString
  <2> QED
    BY <1>7, <2>1, FreeStringKeeps
<1>8. CASE UNCHANGED vars
  <2>1. /\ world' = world /\ string' = string /\ t' = t
        /\ control' = control /\ seen' = seen /\ fault' = fault
    BY <1>8 DEF vars
  <2>2. Base'
    BY <2>1, BaseNext DEF Base, Traversing
  <2> QED
    BY <2>1, <2>2, SoundNext DEF Sound
<1>9. Next \/ UNCHANGED vars
  OBVIOUS
<1>10. CASE Next
  BY <1>1, <1>2, <1>3, <1>4, <1>5, <1>6, <1>7, <1>10 DEF Next
<1> QED
  BY <1>8, <1>9, <1>10

\* Both always hold.
LEMMA Invariance == Spec => [](Base /\ Sound)
<1>1. Init => Base /\ Sound
  BY InitBase
<1>2. Base /\ Sound /\ [Next]_vars => (Base /\ Sound)'
  BY StepKeeps
<1> QED
  BY <1>1, <1>2, PTL DEF Spec

-----------------------------------------------------------------------------
\* What the invariant of every program says of its types.
LEMMA BaseTypes ==
  ASSUME Base
  PROVE  TypeOK
<1>1. Shape(t) /\ Filled(t)
  BY DEF Base, Good
<1>2. \A n \in DOMAIN t.node :
        /\ t.node[n].next \in DOMAIN t.node \cup {None}
        /\ t.node[n].key = Nil => t.node[n].val = Nil
  BY <1>1, ShapeFacts DEF Filled
<1>3. t.free \in 0..Size(t) /\ (Size(t) = 1 => t.node = NewNodes(0))
  BY <1>1 DEF Shape, Filled
<1> QED
  BY <1>2, <1>3 DEF Base, TypeOK

\* A table without room for a key has no node that was never given one.
LEMMA FullTable ==
  ASSUME NEW s, NEW x, Good(s, x), NEW k, ~HasRoom(s, x, k), Size(x) > 1
  PROVE  \A n \in DOMAIN x.node : x.node[n].key # Nil
<1>1. FreeNodes(x) = {}
  BY DEF HasRoom
<1>2. DOMAIN x.node \subseteq Nat /\ x.free \in Nat
  <2>1. Shape(x)
    BY DEF Good
  <2> QED
    BY <2>1, ShapeFacts DEF Shape
<1>3. \A n \in DOMAIN x.node : n >= x.free => x.node[n].key # Nil
  BY DEF Good, Filled
<1> QED
  BY <1>1, <1>2, <1>3 DEF FreeNodes

\* A store rebuilds a table that is full only.
LEMMA AssignWhenFull ==
  ASSUME Base, NEW k \in world.keys, NEW nilled \in BOOLEAN, Assign(k, nilled),
         DOMAIN t.node # DOMAIN t'.node, Size(t) > 1
  PROVE  \A n \in DOMAIN t.node : t.node[n].key # Nil
<1> DEFINE room(p, y) == HasRoom(p.string, y, p.key)
           known(p, y) == InArray(y, p.key) \/ Holding(p.string, y, p.key) # {}
           new(p) == Rehashed(p.string, t, p.key)
           x(p) == IF room(p, t) THEN t ELSE new(p).table
           v(p) == IF nilled THEN Nil ELSE p.key
<1>1. PICK p \in Passed(k) :
        /\ fault' = (\/ ~room(p, t) /\ ~(new(p).fits /\ room(p, x(p)))
                     \/ ~known(p, x(p)) /\ LostNode(p.string, x(p), p.key))
        /\ t' = IF fault' THEN t ELSE Store(p.string, x(p), p.key, v(p))
  BY DEF Assign
<1>2. p.key \in TableKeys /\ Named(p.string, p.key) /\ Good(p.string, t) /\ world \in Worlds
  BY PassedFacts DEF Base
<1>3. v(p) \in Values
  BY <1>2 DEF Values
<1>4. ~room(p, t)
  <2>1. SUFFICES ASSUME room(p, t) PROVE FALSE
    OBVIOUS
  <2>2. x(p) = t
    BY <2>1
  <2>3. ~fault'
    BY <1>1
  <2>4. t' = Store(p.string, t, p.key, v(p))
    BY <1>1, <2>2, <2>3
  <2>5. InArray(t, p.key) \/ Holding(p.string, t, p.key) # {} \/ ~LostNode(p.string, t, p.key)
    BY <1>1, <2>2, <2>3
  <2> HIDE DEF v
  <2>6. DOMAIN t'.node = DOMAIN t.node
    BY <1>2, <1>3, <2>1, <2>4, <2>5, StoreGood
  <2> QED
    BY <2>6
<1> QED
  BY <1>2, <1>4, FullTable

\* lj_tab_reasize, lj_tab_clear and all others keep the nodes that there are.
LEMMA OthersKeepNodes ==
  ASSUME Base,
         \/ \E k \in world.keys : OutOfMemory(k)
         \/ \E n \in world.lengths : Grow(n)
         \/ Clear \/ Begin \/ NextKey
         \/ \E a \in Addresses : FreeString(a)
  PROVE  DOMAIN t'.node = DOMAIN t.node
<1>1. world \in Worlds /\ Good(string, t) /\ Shape(t)
  BY DEF Base, Good
<1>2. ASSUME NEW k \in world.keys, OutOfMemory(k)
      PROVE  DOMAIN t'.node = DOMAIN t.node
  <2> DEFINE longer(p) == [i \in 0..(BestASize(t, p.key) - 1) |->
                             IF i \in DOMAIN t.array THEN t.array[i] ELSE Nil]
  <2>1. PICK p \in Passed(k) : t' = t \/ t' = [t EXCEPT !.array = longer(p)]
    BY <1>2 DEF OutOfMemory
  <2>2. t = [array |-> t.array, node |-> t.node, free |-> t.free]
    BY <1>1 DEF Shape
  <2> HIDE DEF longer
  <2> QED
    BY <2>1, <2>2
<1>3. ASSUME NEW nasize \in world.lengths, Grow(nasize)
      PROVE  DOMAIN t'.node = DOMAIN t.node
  <2> DEFINE bits == HBits(IF Size(t) = 1 THEN 0 ELSE Size(t))
             x == Resized(string, t, nasize + 1, bits)
  <2>1. fault' = ~x.fits /\ t' = IF fault' THEN t ELSE x.table
    BY <1>3 DEF Grow
  <2>2. nasize \in Nat /\ nasize >= ASize(t)
    BY <1>1, <1>3, WorldAssumption DEF Grow
  <2>3. bits \in Nat /\ 2^bits = Size(t) /\ (bits = 0 <=> Size(t) = 1)
    BY <1>1, SameBits
  <2> HIDE DEF bits
  <2>4. PICK rest :
          /\ IsFiniteSet(rest) /\ Cardinality(rest) <= Size(t) /\ (rest # {} => Size(t) # 1)
          /\ \A i \in Slots(t) :
               Leaves(t, nasize + 1, i) => SlotKey(t, i) \in rest \cup 0..((nasize + 1) - 1)
    BY <1>1, <2>2, GrowRoom
  <2>5. Good(string, x.table) /\ Size(x.table) = Size(t)
    <3>1. Cardinality(rest) <= 2^bits /\ (rest # {} => bits # 0) /\ nasize + 1 \in Nat
      BY <2>2, <2>3, <2>4
    <3> QED
      BY <1>1, <2>3, <2>4, <3>1, ResizedGood
  <2> HIDE DEF x
  <2>6. DOMAIN x.table.node = 0..(Size(t) - 1) /\ DOMAIN t.node = 0..(Size(t) - 1)
    <3>1. Shape(x.table)
      BY <2>5 DEF Good
    <3> QED
      BY <1>1, <2>5, <3>1, ShapeFacts
  <2> QED
    BY <2>1, <2>6
<1>4. CASE Clear
  <2>1. t'.node = [n \in DOMAIN t.node |-> [key |-> Nil, val |-> Nil, next |-> None]]
    BY <1>4 DEF Clear
  <2> QED
    BY <2>1
<1>5. CASE Begin \/ NextKey \/ \E a \in Addresses : FreeString(a)
  BY <1>5 DEF Begin, NextKey, FreeString
<1> QED
  BY <1>2, <1>3, <1>4, <1>5

\* Every live key is in the chain of its home where each keeps its hash.
LEMMA PlacedChains ==
  ASSUME Base, Sound, OwnAddresses, Steady
  PROVE  Chained
<1>1. Placed(Owner, t) /\ Good(string, t) /\ StringsPlaced(string) /\ world \in Worlds
  BY DEF Base, Sound
<1>2. Shape(t) /\ Wired(t.node) /\ Acyclic(t.node)
  BY <1>1, ShapeFacts DEF Good
<1>3. ASSUME NEW n \in LiveNodes
      PROVE  LET k == t.node[n].key
             IN  n \in Chain(t.node, Main(string, t, k)) /\ ~InArray(t, k)
  <2> DEFINE k == t.node[n].key
  <2>1. n \in DOMAIN t.node /\ t.node[n].val # Nil
    BY DEF LiveNodes
  <2>2. k \in TableKeys /\ Named(string, k) /\ n \in Keyed(t)
    BY <1>1, <1>2, <2>1, ShapeFacts, KeyFacts DEF Good, Filled, LiveNamed, Keyed, Values
  <2>3. Main(string, t, k) = Home(Owner, t, n)
    BY <1>1, <2>2, OwnerHash DEF Main, Home
  <2>4. Main(string, t, k) \in DOMAIN t.node
    BY <1>1, <1>2, <2>2, MainFacts
  <2>5. n \in Hull(t.node, Main(string, t, k)) /\ ~InArray(t, k)
    BY <1>1, <2>2, <2>3 DEF Placed
  <2> HIDE DEF k
  <2>6. Chain(t.node, Main(string, t, k)) = Hull(t.node, Main(string, t, k))
    BY <1>2, <2>4, ChainIsHull
  <2> QED
    BY <2>5, <2>6 DEF k
<1> QED
  BY <1>3 DEF Chained

-----------------------------------------------------------------------------
\* Types are kept: the next pointers of all nodes stay in the table, a node
\* without a key has no value, and the node that tables without a hash part
\* share is never written (lj_tab_newkey, lj_tab_resize, lj_tab_clear).
THEOREM TypesKept == Spec => []TypeOK
BY Invariance, BaseTypes, PTL

\* A table is rebuilt only when every node was given a key: neither a deletion,
\* a free string, a failed allocation nor a move takes one of the free nodes
\* that a table was made with (rehashtab, from lj_tab_newkey).
THEOREM RebuiltWhenFull == Spec => RehashWhenFull
<1>1. ASSUME Base, [Next]_vars
      PROVE  [DOMAIN t.node # DOMAIN t'.node /\ Size(t) > 1
                => \A n \in DOMAIN t.node : t.node[n].key # Nil]_vars
  <2>1. CASE UNCHANGED vars
    BY <2>1
  <2>2. ASSUME Next, DOMAIN t.node # DOMAIN t'.node, Size(t) > 1
        PROVE  \A n \in DOMAIN t.node : t.node[n].key # Nil
    <3>1. PICK k \in world.keys : Put(k) \/ Unset(k)
      BY <1>1, <2>2, OthersKeepNodes DEF Next
    <3>2. PICK nilled \in BOOLEAN : Assign(k, nilled)
      BY <3>1 DEF Put, Unset
    <3> QED
      BY <1>1, <2>2, <3>2, AssignWhenFull
  <2> QED
    BY <1>1, <2>1, <2>2
<1> QED
  BY <1>1, Invariance, PTL DEF Spec, RehashWhenFull

\* A program in which no two strings are made at one address, and no array
\* part outgrows integers left in nodes, stays one.
LEMMA ProgramKept == Spec /\ OwnAddresses /\ Steady => [](OwnAddresses /\ Steady)
<1>1. Base /\ Sound /\ OwnAddresses /\ Steady /\ [Next]_vars => (OwnAddresses /\ Steady)'
  <2>1. SUFFICES ASSUME Base, Sound, OwnAddresses, Steady, [Next]_vars
                 PROVE  (OwnAddresses /\ Steady)'
    OBVIOUS
  <2>2. world' = world
    BY <2>1, StepKeeps
  <2> QED
    BY <2>1, <2>2 DEF OwnAddresses, Steady
<1> QED
  BY <1>1, Invariance, PTL DEF Spec

\* In such a program every live key stays in the chain that its hash selects,
\* whatever lj_tab_newkey moves, and is not in the array part as well: a lookup
\* (lj_tab_getstr, lj_tab_get) finds it.
THEOREM KeysStayChained == Spec /\ OwnAddresses /\ Steady => []Chained
<1>1. Base /\ Sound /\ OwnAddresses /\ Steady => Chained
  BY PlacedChains
<1> QED
  BY <1>1, Invariance, ProgramKept, PTL

\* In such a program lj_tab_newkey always finds the node before the one that it
\* moves, and a rehash always makes room for the key that asked for it, so that
\* lj_tab_resize does not rebuild a table while it rebuilds it.
THEOREM NothingFails == Spec /\ OwnAddresses /\ Steady => []NoFault
<1>1. Base /\ Sound /\ OwnAddresses /\ Steady => NoFault
  BY DEF Sound, NoFault
<1> QED
  BY <1>1, Invariance, ProgramKept, PTL
-----------------------------------------------------------------------------
\* Halving an interval ends between a number that was found in, or its start,
\* and one that was not, or its end.
LEMMA HalvedIs ==
  ASSUME NEW i \in Nat, NEW j \in Nat, i < j, NEW in
  PROVE  LET a == Halved(in, i, j)
         IN  /\ a \in i..(j - 1) /\ (a = i \/ in[a]) /\ (a + 1 = j \/ ~in[a + 1])
<1> DEFINE mid(a, b) == (a + b) \div 2
           half(a, b) == IF b - a <= 1 THEN <<a, b>>
                         ELSE IF in[mid(a, b)] THEN <<mid(a, b), b>> ELSE <<a, mid(a, b)>>
           row(g, n) == IF n = 0 THEN <<i, j>> ELSE half(g[n - 1][1], g[n - 1][2])
           Walk(g, k) == g = [n \in 0..k |-> row(g, n)]
           T == {k \in Nat : \E g : Walk(g, k)}
<1>1. Nat \subseteq T
  <2>1. 0 \in T
    <3>1. Walk([n \in 0..0 |-> <<i, j>>], 0)
      OBVIOUS
    <3> HIDE DEF Walk
    <3> QED
      BY <3>1
  <2>2. ASSUME NEW k \in Nat, k \in T
        PROVE  k + 1 \in T
    <3>1. PICK g : Walk(g, k)
      BY <2>2
    <3> DEFINE h == [n \in 0..(k + 1) |-> IF n <= k THEN g[n] ELSE row(g, k + 1)]
    <3> HIDE DEF row
    <3>2. DOMAIN g = 0..k /\ \A n \in 0..k : g[n] = row(g, n)
      BY <3>1
    <3>3. \A n \in 0..(k + 1) : n # 0 => h[n - 1] = g[n - 1]
      OBVIOUS
    <3>4. \A n \in 0..(k + 1) : row(h, n) = row(g, n)
      <4> HIDE DEF h, half
      <4> QED
        BY <3>3 DEF row
    <3>5. \A n \in 0..(k + 1) : h[n] = row(h, n)
      <4>1. \A n \in 0..(k + 1) : n <= k \/ n = k + 1
        OBVIOUS
      <4>2. \A n \in 0..(k + 1) : h[n] = row(g, n)
        BY <3>2, <4>1
      <4> QED
        BY <3>4, <4>2
    <3>6. Walk(h, k + 1)
      <4>1. h = [n \in 0..(k + 1) |-> h[n]]
        OBVIOUS
      <4> HIDE DEF h
      <4> QED
        BY <3>5, <4>1
    <3> HIDE DEF Walk
    <3> QED
      BY <3>6
  <2> HIDE DEF T
  <2> QED
    BY <2>1, <2>2, Induction
<1> DEFINE bounds == CHOOSE g : Walk(g, j - i)
<1>2. Walk(bounds, j - i)
  <2>1. \E g : Walk(g, j - i)
    <3>1. j - i \in T
      <4> HIDE DEF T
      <4> QED
        BY <1>1
    <3> HIDE DEF Walk
    <3> QED
      BY <3>1
  <2> HIDE DEF Walk
  <2> QED
    BY <2>1
<1>3. Halved(in, i, j) = bounds[j - i][1]
  BY DEF Halved
<1> HIDE DEF bounds
<1>4. \A n \in 0..(j - i) : bounds[n] = row(bounds, n)
  <2> HIDE DEF row
  <2> QED
    BY <1>2
<1> DEFINE Ends(a, b, n) ==
             /\ a \in i..(j - 1) /\ b \in i..j /\ a < b /\ (b - a <= 1 \/ b - a <= j - i - n)
             /\ (a = i \/ in[a]) /\ (b = j \/ ~in[b])
           Kept(n) == \E a, b \in Int : bounds[n] = <<a, b>> /\ Ends(a, b, n)
           U == {n \in Nat : n <= j - i => Kept(n)}
<1>5. 0 \in U
  <2>1. bounds[0] = <<i, j>>
    <3>1. 0 \in 0..(j - i)
      OBVIOUS
    <3>2. bounds[0] = row(bounds, 0)
      <4> HIDE DEF row
      <4> QED
        BY <1>4, <3>1
    <3> HIDE DEF half
    <3> QED
      BY <3>2
  <2>2. Ends(i, j, 0)
    OBVIOUS
  <2>3. Kept(0)
    <3> HIDE DEF Ends
    <3> QED
      BY <2>1, <2>2
  <2> HIDE DEF Kept
  <2> QED
    BY <2>3
<1>6. ASSUME NEW n \in Nat, n \in U
      PROVE  n + 1 \in U
  <2>1. SUFFICES ASSUME n + 1 <= j - i
                 PROVE  Kept(n + 1)
    <3> HIDE DEF Kept
    <3> QED
      OBVIOUS
  <2>2. PICK a, b \in Int : bounds[n] = <<a, b>> /\ Ends(a, b, n)
    <3> HIDE DEF Ends
    <3> QED
      BY <1>6, <2>1
  <2>3. bounds[n + 1] = half(a, b)
    <3>1. n + 1 \in 0..(j - i) /\ n + 1 # 0 /\ (n + 1) - 1 = n
      BY <2>1
    <3> HIDE DEF half
    <3> QED
      BY <1>4, <2>2, <3>1
  <2>4. CASE b - a <= 1
    <3>1. bounds[n + 1] = <<a, b>> /\ Ends(a, b, n + 1)
      BY <2>2, <2>3, <2>4
    <3> HIDE DEF Ends
    <3> QED
      BY <3>1
  <2>5. CASE b - a > 1
    <3> DEFINE m == mid(a, b)
    <3>1. m \in Int /\ a < m /\ m < b
      BY <2>5
    <3>2. bounds[n + 1] = IF in[m] THEN <<m, b>> ELSE <<a, m>>
      BY <2>3, <2>5
    <3> HIDE DEF m
    <3>3. in[m] => Ends(m, b, n + 1)
      BY <2>1, <2>2, <2>5, <3>1
    <3>4. ~in[m] => Ends(a, m, n + 1)
      BY <2>1, <2>2, <2>5, <3>1
    <3> HIDE DEF Ends
    <3> QED
      BY <3>1, <3>2, <3>3, <3>4
  <2> QED
    BY <2>2, <2>4, <2>5
<1>7. PICK a, b \in Int : bounds[j - i] = <<a, b>> /\ Ends(a, b, j - i)
  <2>1. j - i \in U
    <3> HIDE DEF U
    <3> QED
      BY <1>5, <1>6, Induction
  <2> HIDE DEF Ends
  <2> QED
    BY <2>1
<1>8. Halved(in, i, j) = a /\ a + 1 = b
  BY <1>3, <1>7
<1> QED
  BY <1>7, <1>8

\* The doubling of unbound_search ends: a table with n nodes has at most n of
\* the numbers that it looks for.
LEMMA DoublesEnd ==
  ASSUME NEW x, Shape(x), NEW i \in Nat, ASize(x) <= i + 1
  PROVE  \E b \in 0..Size(x) : ~Present(x, (i + 1) * 2^b)
<1> DEFINE D == DOMAIN x.node
           B == 0..Size(x)
           d(b) == (i + 1) * 2^b
<1> SUFFICES ASSUME \A b \in B : Present(x, d(b))
             PROVE  FALSE
  OBVIOUS
<1>1. Size(x) \in Nat /\ D = 0..(Size(x) - 1) /\ DOMAIN x.array = 0..(ASize(x) - 1)
      /\ ASize(x) \in Nat
  BY ShapeFacts DEF Shape
<1>2. \A b \in B : 2^b \in Nat /\ 2^b >= 1
  BY <1>1, PowerOfTwo
<1>3. ASSUME NEW b \in B
      PROVE  \E n \in D : x.node[n].key = d(b)
  <2>1. d(b) \in Nat /\ d(b) >= ASize(x)
    <3>1. \A p \in Nat : p >= 1 => (i + 1) * p \in Nat /\ (i + 1) * p >= i + 1
      <4> TAKE p \in Nat
      <4> HAVE p >= 1
      <4>1. PICK q \in Nat : p = q + 1
        <5>1. p - 1 \in Nat /\ p = (p - 1) + 1
          OBVIOUS
        <5> QED
          BY <5>1
      <4>2. (i + 1) * (q + 1) = (i + 1) * q + (i + 1) /\ (i + 1) * q \in Nat
        OBVIOUS
      <4> QED
        BY <4>1, <4>2
    <3>2. d(b) \in Nat /\ d(b) >= i + 1
      BY <1>2, <3>1
    <3> HIDE DEF d
    <3> QED
      BY <1>1, <3>2
  <2> HIDE DEF d
  <2>2. d(b) \notin DOMAIN x.array
    BY <1>1, <2>1
  <2> QED
    BY <2>2 DEF Present, InArray
<1> DEFINE f == [b \in B |-> CHOOSE n \in D : x.node[n].key = d(b)]
<1>4. \A b \in B : f[b] \in D /\ x.node[f[b]].key = d(b)
  <2> HIDE DEF B, D, d
  <2> QED
    BY <1>3
<1>5. f \in [B -> D]
  <2>1. f = [b \in B |-> f[b]]
    OBVIOUS
  <2> HIDE DEF f, B, D
  <2> QED
    BY <1>4, <2>1
<1>6. IsFiniteSet(B) /\ IsFiniteSet(D) /\ Cardinality(D) < Cardinality(B)
  <2>1. IsFiniteSet(B) /\ Cardinality(B) = Size(x) + 1
    BY <1>1, FS_Interval
  <2>2. IsFiniteSet(D) /\ Cardinality(D) = Size(x)
    BY <1>1, FS_Interval DEF Size
  <2> HIDE DEF B, D
  <2> QED
    BY <1>1, <2>1, <2>2
<1> HIDE DEF f
<1>7. PICK b, c \in B : b # c /\ f[b] = f[c]
  <2> HIDE DEF B, D
  <2> QED
    BY <1>5, <1>6, FS_PigeonHole
<1>8. d(b) = d(c)
  <2> HIDE DEF B, D, d
  <2> QED
    BY <1>4, <1>7
<1>9. \A m, n \in B : m < n => d(m) < d(n)
  <2> TAKE m, n \in B
  <2> HAVE m < n
  <2>1. 2^m < 2^n /\ 2^m \in Nat /\ 2^n \in Nat
    BY <1>1, PowerGrows, <1>2
  <2>2. \A p, q \in Nat : p < q => (i + 1) * p < (i + 1) * q
    <3> TAKE p, q \in Nat
    <3> HAVE p < q
    <3>1. PICK r \in Nat : q = p + r /\ r >= 1
      <4>1. q - p \in Nat /\ q = p + (q - p) /\ q - p >= 1
        OBVIOUS
      <4> QED
        BY <4>1
    <3>2. (i + 1) * (p + r) = (i + 1) * p + (i * r + r) /\ (i + 1) * p \in Nat /\ i * r \in Nat
      OBVIOUS
    <3> QED
      BY <3>1, <3>2
  <2> QED
    BY <2>1, <2>2
<1>10. b \in Int /\ c \in Int /\ d(b) \in Int /\ d(c) \in Int
  BY <1>1, <1>2
<1> HIDE DEF d
<1> QED
  BY <1>7, <1>8, <1>9, <1>10

\* What unbound_search returns is a border, if the number that it starts from
\* is zero or present, and the last that may be in the array part.
LEMMA UnboundSearchIs ==
  ASSUME NEW x, Shape(x), NEW i \in Nat, ASize(x) <= i + 1, i = 0 \/ Present(x, i)
  PROVE  LET len == UnboundSearch(x, i)
         IN  len \in Nat /\ (len = 0 \/ Present(x, len)) /\ ~Present(x, len + 1)
<1> DEFINE S == {d \in {(i + 1) * 2^b : b \in 0..Size(x)} : ~Present(x, d)}
           j == Min(S)
           from == IF j = i + 1 THEN i ELSE j \div 2
           in == [m \in from..j |-> Present(x, m)]
<1>1. Size(x) \in Nat
  BY ShapeFacts
<1>2. \A b \in 0..Size(x) : (i + 1) * 2^b \in Nat
  BY <1>1, PowerOfTwo
<1>3. S # {} /\ S \subseteq Nat
  <2>1. PICK b \in 0..Size(x) : ~Present(x, (i + 1) * 2^b)
    BY DoublesEnd
  <2> QED
    BY <1>2, <2>1
<1>4. j \in S /\ \A d \in S : j <= d
  <2> HIDE DEF S
  <2> QED
    BY <1>3, NatMin
<1>5. j \in Nat /\ ~Present(x, j)
  BY <1>2, <1>4
<1>6. PICK b \in 0..Size(x) : j = (i + 1) * 2^b
  BY <1>4
<1> HIDE DEF j
<1>7. from \in Nat /\ from < j /\ (from = 0 \/ Present(x, from))
  <2>1. CASE b = 0
    <3>1. \A z \in {0} : 2^z = 1
      OBVIOUS
    <3>2. j = i + 1
      <4>1. 2^b = 1
        BY <2>1, <3>1
      <4> QED
        BY <1>6, <4>1
    <3> QED
      BY <3>2
  <2>2. CASE b # 0
    <3> DEFINE c == b - 1
    <3>1. c \in 0..Size(x) /\ b = c + 1
      BY <1>1, <2>2
    <3> HIDE DEF c
    <3>2. 2^b = 2 * 2^c /\ 2^c \in Nat /\ 2^c >= 1
      BY <3>1, PowerOfTwo
    <3> DEFINE d == (i + 1) * 2^c
    <3>3. d \in Nat /\ j = 2 * d /\ d >= 1
      <4>1. \A p \in Nat : p >= 1 => /\ (i + 1) * p \in Nat /\ (i + 1) * (2 * p) = 2 * ((i + 1) * p)
                                     /\ (i + 1) * p >= 1
        OBVIOUS
      <4> QED
        BY <1>6, <3>2, <4>1
    <3>4. d \notin S
      <4> HIDE DEF d
      <4> QED
        BY <1>4, <3>3
    <3>5. Present(x, d)
      BY <3>1, <3>4
    <3>6. j # i + 1 \/ d = i + 1
      <4>1. \A p \in Nat : p >= 1 => (i + 1) * p >= i + 1
        <5> TAKE p \in Nat
        <5> HAVE p >= 1
        <5>1. PICK q \in Nat : p = q + 1
          <6>1. p - 1 \in Nat /\ p = (p - 1) + 1
            OBVIOUS
          <6> QED
            BY <6>1
        <5>2. (i + 1) * (q + 1) = (i + 1) * q + (i + 1) /\ (i + 1) * q \in Nat
          OBVIOUS
        <5> QED
          BY <5>1, <5>2
      <4>2. d >= i + 1
        BY <3>2, <4>1
      <4> HIDE DEF d
      <4> QED
        BY <3>3, <4>2
    <3> HIDE DEF d
    <3>7. j # i + 1
      BY <3>3, <3>6
    <3>8. from = d
      BY <3>3, <3>7
    <3> HIDE DEF from
    <3> QED
      BY <3>3, <3>5, <3>8
  <2> QED
    BY <2>1, <2>2
<1> DEFINE len == Halved(in, from, j)
<1>8. UnboundSearch(x, i) = len
  BY DEF UnboundSearch, j
<1> HIDE DEF from
<1>9. \A m \in from..j : in[m] <=> Present(x, m)
  OBVIOUS
<1> HIDE DEF in
<1>10. /\ len \in from..(j - 1) /\ (len = from \/ in[len]) /\ (len + 1 = j \/ ~in[len + 1])
  BY <1>5, <1>7, HalvedIs
<1> HIDE DEF len
<1>11. len \in from..j /\ len + 1 \in from..j /\ len \in Nat
  BY <1>5, <1>7, <1>10
<1> QED
  BY <1>5, <1>7, <1>8, <1>9, <1>10, <1>11

\* The length of a table is a border in every program: the hash part may hold
\* anything.
LEMMA Borders ==
  ASSUME Base
  PROVE  LengthIsBorder
<1> DEFINE asize == ASize(t)
           last == IF asize = 0 THEN 0 ELSE asize - 1
           in == [m \in 1..asize |-> t.array[m - 1] # Nil]
<1>1. Shape(t) /\ Filled(t)
  BY DEF Base, Good
<1>2. asize \in Nat /\ DOMAIN t.array = 0..(asize - 1) /\ DOMAIN t.node = 0..(Size(t) - 1)
  BY <1>1, ShapeFacts DEF Shape
<1> HIDE DEF asize
<1>3. SUFFICES Length(t) \in Nat /\ (Length(t) = 0 \/ Present(t, Length(t)))
               /\ ~Present(t, Length(t) + 1)
  BY DEF LengthIsBorder
<1>4. \A m \in 1..asize : Present(t, m - 1) <=> t.array[m - 1] # Nil
  BY <1>2 DEF Present, InArray, Integer
<1>5. CASE asize > 1 /\ t.array[last] = Nil
  <2> DEFINE i == Halved(in, 1, asize)
  <2>1. Length(t) = i - 1
    BY <1>5 DEF Length, asize
  <2>2. \A m \in 1..asize : in[m] <=> t.array[m - 1] # Nil
    OBVIOUS
  <2> HIDE DEF in
  <2>3. i \in 1..(asize - 1) /\ (i = 1 \/ in[i]) /\ (i + 1 = asize \/ ~in[i + 1])
    BY <1>2, <1>5, HalvedIs
  <2> HIDE DEF i
  <2>4. i \in 1..asize /\ i + 1 \in 1..asize /\ (i + 1) - 1 = i /\ (i - 1) + 1 = i
        /\ i - 1 \in Nat
    BY <1>2, <1>5, <2>3
  <2>5. i = 1 \/ Present(t, i - 1)
    BY <1>4, <2>2, <2>3, <2>4
  <2>6. t.array[i] = Nil
    <3>1. CASE i + 1 = asize
      BY <1>5, <2>4, <3>1
    <3>2. CASE ~in[i + 1]
      BY <2>2, <2>4, <3>2
    <3> QED
      BY <2>3, <3>1, <3>2
  <2>7. ~Present(t, i)
    BY <1>4, <2>4, <2>6
  <2> QED
    BY <2>1, <2>4, <2>5, <2>7
<1>6. CASE ~(asize > 1 /\ t.array[last] = Nil)
  <2>1. last \in Nat /\ last + 1 \notin DOMAIN t.array /\ asize <= last + 1
    BY <1>2
  <2>2. last = 0 \/ Present(t, last)
    BY <1>2, <1>6 DEF Present, InArray, Integer
  <2>3. CASE Size(t) = 1
    <3>1. Length(t) = last
      BY <1>6, <2>3 DEF Length, asize
    <3>2. \A n \in DOMAIN t.node : t.node[n].val = Nil
      BY <1>1, <2>3 DEF Filled, NewNodes
    <3>3. ~Present(t, last + 1)
      BY <2>1, <3>2 DEF Present, InArray
    <3> QED
      BY <2>1, <2>2, <3>1, <3>3
  <2>4. CASE Size(t) # 1
    <3>1. Length(t) = UnboundSearch(t, last)
      BY <1>6, <2>4 DEF Length, asize
    <3> HIDE DEF last
    <3> QED
      BY <1>1, <2>1, <2>2, <3>1, UnboundSearchIs DEF asize
  <2> QED
    BY <2>3, <2>4
<1> QED
  BY <1>5, <1>6

\* The length of a table is a border whatever lies in its two parts, deleted,
\* moved or left by a shorter array: the field before it exists and the one
\* behind it does not (lj_tab_len, unbound_search).
THEOREM LengthsAreBorders == Spec => []LengthIsBorder
BY Invariance, Borders, PTL
-----------------------------------------------------------------------------
\* What lj_tab_get finds: a key that is present, as what was stored under it.
LEMMA GetIs ==
  ASSUME world \in Worlds, NEW s, NEW x, Good(s, x), NEW k \in TableKeys, Named(s, k),
         NEW c, Placed(c, x), Named(c, k), Hash(s, k) = Hash(c, k), Mirrored(x)
  PROVE  Get(s, x, k) = IF Present(x, k) THEN k ELSE Nil
<1>1. k # Nil
  BY KeyFacts
<1>2. CASE InArray(x, k)
  BY <1>2 DEF Get, Present, InArray, Mirrored
<1>3. CASE ~InArray(x, k)
  <2>1. Holding(s, x, k) = {n \in DOMAIN x.node : x.node[n].key = k}
    <3>1. \A n \in DOMAIN x.node : x.node[n].key = k => n \in Hull(x.node, Main(s, x, k))
      <4> TAKE n \in DOMAIN x.node
      <4> HAVE x.node[n].key = k
      <4>1. n \in Hull(x.node, Home(c, x, n))
        BY <1>1 DEF Placed, Keyed
      <4>2. Home(c, x, n) = Main(s, x, k)
        BY DEF Home, Main
      <4> QED
        BY <4>1, <4>2
    <3> QED
      BY <3>1, HoldingIs
  <2>2. \A m, n \in Holding(s, x, k) : m = n
    BY <1>1, <2>1 DEF Placed, Keyed
  <2>3. CASE Holding(s, x, k) = {}
    <3>1. ~Present(x, k)
      BY <1>3, <2>1, <2>3 DEF Present
    <3> QED
      BY <1>3, <2>3, <3>1 DEF Get
  <2>4. CASE Holding(s, x, k) # {}
    <3> DEFINE n == CHOOSE m \in Holding(s, x, k) : TRUE
    <3>1. Get(s, x, k) = x.node[n].val
      BY <1>3, <2>4 DEF Get
    <3>2. n \in Holding(s, x, k)
      BY <2>4
    <3> HIDE DEF n
    <3>3. n \in DOMAIN x.node /\ x.node[n].key = k
      BY <2>1, <3>2
    <3>4. x.node[n].val \in {Nil, k}
      BY <3>3 DEF Mirrored
    <3>5. Present(x, k) <=> x.node[n].val # Nil
      BY <1>3, <2>1, <2>2, <3>2, <3>3 DEF Present
    <3> QED
      BY <3>1, <3>4, <3>5
  <2> QED
    BY <2>3, <2>4
<1> QED
  BY <1>2, <1>3

\* lj_tab_resize stores again what does not stay.
LEMMA StaysOrMoves ==
  ASSUME NEW s, NEW x, Good(s, x), NEW c, Placed(c, x), NEW asize \in Nat, NEW q
  PROVE  Present(x, q) <=> Stays(x, asize, q) \/ \E j \in Slots(x) : Moves(x, asize, j, q)
<1>1. /\ ASize(x) \in Nat /\ Size(x) \in Nat
      /\ DOMAIN x.array = 0..(ASize(x) - 1) /\ DOMAIN x.node = 0..(Size(x) - 1)
  BY ShapeFacts DEF Good, Shape
<1>2. ASSUME Present(x, q)
      PROVE  Stays(x, asize, q) \/ \E j \in Slots(x) : Moves(x, asize, j, q)
  <2>1. CASE InArray(x, q)
    <3>1. q \in 0..(ASize(x) - 1) /\ x.array[q] # Nil
      BY <1>1, <1>2, <2>1 DEF Present, InArray
    <3>2. q < asize => Stays(x, asize, q)
      BY <1>1, <3>1 DEF Stays
    <3>3. q >= asize => q \in Slots(x) /\ Moves(x, asize, q, q)
      BY <1>1, <3>1 DEF Moves, Leaves, Slots, SlotKey, SlotVal
    <3> QED
      BY <3>1, <3>2, <3>3
  <2>2. CASE ~InArray(x, q)
    <3>1. PICK n \in DOMAIN x.node : x.node[n].key = q /\ x.node[n].val # Nil
      BY <1>2, <2>2 DEF Present
    <3> DEFINE j == ASize(x) + n
    <3>2. j \in Slots(x) /\ ~(j < ASize(x)) /\ j - ASize(x) = n
      BY <1>1 DEF Slots
    <3> HIDE DEF j
    <3>3. Moves(x, asize, j, q)
      BY <3>1, <3>2 DEF Moves, Leaves, SlotKey, SlotVal
    <3> QED
      BY <3>2, <3>3
  <2> QED
    BY <2>1, <2>2
<1>3. ASSUME Stays(x, asize, q)
      PROVE  Present(x, q)
  BY <1>1, <1>3 DEF Stays, Present, InArray, Integer
<1>4. ASSUME NEW j \in Slots(x), Moves(x, asize, j, q)
      PROVE  Present(x, q)
  <2>1. CASE j < ASize(x)
    <3>1. q = j /\ x.array[j] # Nil /\ j \in DOMAIN x.array /\ j \in Nat
      BY <1>1, <1>4, <2>1 DEF Moves, Leaves, SlotKey, SlotVal, Slots
    <3> QED
      BY <3>1 DEF Present, InArray, Integer
  <2>2. CASE ~(j < ASize(x))
    <3> DEFINE n == j - ASize(x)
    <3>1. n \in DOMAIN x.node /\ x.node[n].val # Nil /\ x.node[n].key = q
      BY <1>1, <1>4, <2>2 DEF Moves, Leaves, SlotKey, SlotVal, Slots
    <3> HIDE DEF n
    <3>2. n \in Keyed(x)
      BY <3>1 DEF Good, Filled, Keyed
    <3>3. ~InArray(x, q)
      BY <3>1, <3>2 DEF Placed
    <3> QED
      BY <3>1, <3>3 DEF Present
  <2> QED
    BY <2>1, <2>2
<1> QED
  BY <1>2, <1>3, <1>4

\* A rehash keeps every field,
LEMMA RehashedMaps ==
  ASSUME world \in Worlds, NEW s, NEW x, Good(s, x), NEW k \in TableKeys, Named(s, k),
         NEW c, Placed(c, x), Mirrored(x)
  PROVE  LET new == Rehashed(s, x, k).table
         IN  Mirrored(new) /\ \A q : Present(new, q) <=> Present(x, q)
<1> DEFINE asize == BestASize(x, k)
           bits == HBits(HashSize(x, k))
           new == Rehashed(s, x, k)
<1>1. PICK rest :
        /\ asize \in Nat /\ bits \in Nat
        /\ IsFiniteSet(rest) /\ Cardinality(rest) <= 2^bits /\ (rest # {} => bits # 0)
        /\ \A i \in Slots(x) : Leaves(x, asize, i) => SlotKey(x, i) \in rest \cup 0..(asize - 1)
  BY RehashRoom
<1>2. new = Resized(s, x, asize, bits)
  BY DEF Rehashed
<1> HIDE DEF asize, bits, new
<1>3. /\ Mirrored(new.table)
      /\ \A q : Present(new.table, q) <=> \/ Stays(x, asize, q)
                                          \/ \E j \in Slots(x) : Moves(x, asize, j, q)
  BY <1>1, <1>2, ResizedGood
<1>4. \A q : Present(new.table, q) <=> Present(x, q)
  BY <1>1, <1>3, StaysOrMoves
<1> QED
  BY <1>3, <1>4 DEF new

\* and so does lj_tab_reasize.
LEMMA GrowMaps ==
  ASSUME Base, NEW nasize \in world.lengths, Grow(nasize), NEW c, Placed(c, t), Mirrored(t)
  PROVE  Mirrored(t') /\ \A q : Present(t', q) <=> Present(t, q)
<1> DEFINE bits == HBits(IF Size(t) = 1 THEN 0 ELSE Size(t))
           x == Resized(string, t, nasize + 1, bits)
<1>1. fault' = ~x.fits /\ t' = IF fault' THEN t ELSE x.table
  BY DEF Grow
<1>2. nasize \in Nat /\ nasize >= ASize(t) /\ world \in Worlds /\ Good(string, t)
  BY WorldAssumption DEF Grow, Base
<1>3. bits \in Nat /\ 2^bits = Size(t) /\ (bits = 0 <=> Size(t) = 1)
  BY <1>2, SameBits DEF Good
<1> HIDE DEF bits
<1>4. PICK rest :
        /\ IsFiniteSet(rest) /\ Cardinality(rest) <= Size(t) /\ (rest # {} => Size(t) # 1)
        /\ \A i \in Slots(t) :
             Leaves(t, nasize + 1, i) => SlotKey(t, i) \in rest \cup 0..((nasize + 1) - 1)
  BY <1>2, GrowRoom
<1>5. Cardinality(rest) <= 2^bits /\ (rest # {} => bits # 0) /\ nasize + 1 \in Nat
  BY <1>2, <1>3, <1>4
<1>6. /\ Mirrored(x.table)
      /\ \A q : Present(x.table, q) <=> \/ Stays(t, nasize + 1, q)
                                        \/ \E j \in Slots(t) : Moves(t, nasize + 1, j, q)
  BY <1>2, <1>3, <1>4, <1>5, ResizedGood
<1>7. \A q : Present(x.table, q) <=> Present(t, q)
  BY <1>2, <1>5, <1>6, StaysOrMoves
<1> HIDE DEF x
<1> QED
  BY <1>1, <1>6, <1>7

-----------------------------------------------------------------------------
\* A string is at one address, and KeyOf tells what a program calls a key.
Distinct(s) == \A a, b \in Addresses : s[a] # Nil /\ s[a] = s[b] => a = b
Names(s, x) == {KeyOf(s, q) : q \in {p \in TableKeys : Present(x, p)}}

\* A key that is present has a name.
LEMMA PresentNamed ==
  ASSUME world \in Worlds, NEW s, NEW x, Good(s, x), NEW q, Present(x, q)
  PROVE  q \in TableKeys /\ Named(s, q)
<1>1. Nat \cap (Strings \cup Addresses) = {}
  BY KeyAssumption
<1>2. CASE InArray(x, q)
  <2>1. q \in Nat /\ q \in world.keys
    BY <1>2 DEF Present, InArray, Integer, Good, Shape
  <2> QED
    BY <1>1, <2>1 DEF TableKeys, Named
<1>3. CASE ~InArray(x, q)
  <2>1. PICK n \in DOMAIN x.node : x.node[n].key = q /\ x.node[n].val # Nil
    BY <1>3 DEF Present
  <2>2. q \in Values /\ q # Nil
    BY <2>1, ShapeFacts DEF Good, Filled
  <2> QED
    BY <2>1, <2>2 DEF Values, Good, LiveNamed
<1> QED
  BY <1>2, <1>3

\* Names are keys of the program, and no two keys have one name.
LEMMA NamesTell ==
  ASSUME world \in Worlds, NEW s, NEW q \in TableKeys, Named(s, q)
  PROVE  /\ KeyOf(s, q) \in world.keys /\ KeyOf(s, q) # Nil
         /\ q \in Addresses => KeyOf(s, q) = s[q] /\ s[q] \in Strings
         /\ q \notin Addresses => KeyOf(s, q) = q /\ q \notin Strings
         /\ \A r \in TableKeys : Named(s, r) /\ Distinct(s) /\ KeyOf(s, r) = KeyOf(s, q) => r = q
<1>1. world.keys \subseteq Strings \cup Numbers \cup Nat /\ Nil \notin Strings \cup Numbers \cup Nat
  BY WorldAssumption, KeyAssumption
<1>2. \A r \in TableKeys : Named(s, r) =>
        /\ KeyOf(s, r) \in world.keys
        /\ r \in Addresses => KeyOf(s, r) = s[r] /\ s[r] \in Strings
        /\ r \notin Addresses => KeyOf(s, r) = r /\ r \notin Strings
  BY DEF TableKeys, Named, KeyOf
<1> QED
  BY <1>1, <1>2 DEF Distinct

\* lj_tab_get as a program sees it: a field has its name as value.
LEMMA FieldIs ==
  ASSUME Base, Sound, OwnAddresses, Steady, Mirrored(t), Distinct(string), NEW k \in world.keys
  PROVE  Field(k) = IF k \in Names(string, t) THEN k ELSE Nil
<1>1. world \in Worlds /\ Good(string, t) /\ Placed(Owner, t) /\ StringsPlaced(string)
  BY DEF Base, Sound
<1>2. \A q \in TableKeys : Named(string, q) =>
        /\ Get(string, t, q) = IF Present(t, q) THEN q ELSE Nil
        /\ KeyOf(string, q) = k => (k \in Names(string, t) <=> Present(t, q))
  <2> TAKE q \in TableKeys
  <2> HAVE Named(string, q)
  <2>1. Named(Owner, q) /\ Hash(string, q) = Hash(Owner, q)
    BY <1>1, OwnerHash
  <2>2. Get(string, t, q) = IF Present(t, q) THEN q ELSE Nil
    BY <1>1, <2>1, GetIs
  <2>3. ASSUME KeyOf(string, q) = k, k \in Names(string, t)
        PROVE  Present(t, q)
    <3>1. PICK r \in TableKeys : Present(t, r) /\ KeyOf(string, r) = k
      BY <2>3 DEF Names
    <3>2. r = q
      BY <1>1, <2>3, <3>1, PresentNamed, NamesTell
    <3> QED
      BY <3>1, <3>2
  <2> QED
    BY <2>2, <2>3 DEF Names
<1>3. KeyOf(string, Nil) = Nil
  BY KeyAssumption DEF KeyOf
<1>4. CASE k \in Strings
  <2> DEFINE at == {a \in Addresses : string[a] = k}
  <2>1. Field(k) = IF at = {} THEN Nil ELSE KeyOf(string, Get(string, t, CHOOSE a \in at : TRUE))
    BY <1>4 DEF Field
  <2>2. CASE at = {}
    <3>1. ASSUME k \in Names(string, t)
          PROVE  FALSE
      <4>1. PICK r \in TableKeys : Present(t, r) /\ KeyOf(string, r) = k
        BY <3>1 DEF Names
      <4>2. r \in Addresses /\ string[r] = k
        BY <1>1, <1>4, <4>1, PresentNamed, NamesTell
      <4> QED
        BY <2>2, <4>2
    <3> QED
      BY <2>1, <2>2, <3>1
  <2>3. CASE at # {}
    <3> DEFINE a == CHOOSE b \in at : TRUE
    <3>1. a \in at
      BY <2>3
    <3>2. Field(k) = KeyOf(string, Get(string, t, a))
      BY <2>1, <2>3
    <3> HIDE DEF a
    <3>3. a \in TableKeys /\ Named(string, a) /\ KeyOf(string, a) = k
      BY <1>4, <3>1 DEF TableKeys, Named, KeyOf
    <3>4. /\ Get(string, t, a) = IF Present(t, a) THEN a ELSE Nil
          /\ k \in Names(string, t) <=> Present(t, a)
      BY <1>2, <3>3
    <3> QED
      BY <1>3, <3>2, <3>3, <3>4
  <2> QED
    BY <2>2, <2>3
<1>5. CASE k \notin Strings
  <2>1. k \in TableKeys /\ Named(string, k) /\ KeyOf(string, k) = k
    <3>1. k \in Numbers \cup Nat
      BY <1>1, <1>5, WorldAssumption
    <3>2. k \notin Addresses
      BY <3>1, KeyAssumption
    <3> QED
      BY <1>5, <3>2 DEF TableKeys, Named, KeyOf
  <2>2. Field(k) = KeyOf(string, Get(string, t, k))
    <3>1. (CHOOSE a \in {k} : TRUE) = k
      OBVIOUS
    <3> QED
      BY <1>5, <3>1 DEF Field
  <2>3. /\ Get(string, t, k) = IF Present(t, k) THEN k ELSE Nil
        /\ k \in Names(string, t) <=> Present(t, k)
    BY <1>2, <2>1
  <2> QED
    BY <1>3, <2>1, <2>2, <2>3
<1> QED
  BY <1>4, <1>5

\* What the invariants say of the fields is what the abstract map says.
LEMMA FieldsAre ==
  ASSUME Base, Sound, OwnAddresses, Steady, Mirrored(t), Distinct(string)
  PROVE  /\ Fields = {<<k, k>> : k \in Names(string, t)}
         /\ Names(string, t) \subseteq world.keys
<1>1. Names(string, t) \subseteq world.keys /\ Nil \notin Names(string, t)
  <2>1. world \in Worlds /\ Good(string, t)
    BY DEF Base
  <2> QED
    BY <2>1, PresentNamed, NamesTell DEF Names
<1>2. \A k \in world.keys : Field(k) = IF k \in Names(string, t) THEN k ELSE Nil
  BY FieldIs
<1>3. {l \in world.keys : Field(l) # Nil} = Names(string, t)
  BY <1>1, <1>2
<1>4. \A k \in Names(string, t) : Field(k) = k
  BY <1>1, <1>2
<1> QED
  BY <1>1, <1>3, <1>4 DEF Fields

-----------------------------------------------------------------------------
\* A traversal has been at slot i: its last key is there or behind it.
Before(i) == control # Nil /\ \E c \in Slots(t) : SlotKey(t, c) = control /\ i <= c

\* A traversal has visited what is before its last key, and nothing else that
\* still has a value; that key is in the table, whether it has a value or not.
Walked ==
  /\ control # Nil => /\ control \in TableKeys /\ Named(string, control)
                      /\ \E c \in Slots(t) : SlotKey(t, c) = control
  /\ \A i \in Slots(t) :
       SlotVal(t, i) # Nil => (KeyOf(string, SlotKey(t, i)) \in seen <=> Before(i))

\* What makes a table a map, in the programs of which Sound speaks.
Mapped ==
  OwnAddresses /\ Steady => Mirrored(t) /\ Distinct(string) /\ (Traversing => Walked)

\* A key is in one slot only.
LEMMA SlotUnique ==
  ASSUME NEW s, NEW x, Good(s, x), NEW c, Placed(c, x), NEW i \in Slots(x), NEW j \in Slots(x),
         SlotKey(x, i) = SlotKey(x, j), SlotKey(x, i) # Nil
  PROVE  i = j
<1>1. /\ ASize(x) \in Nat /\ Size(x) \in Nat
      /\ DOMAIN x.array = 0..(ASize(x) - 1) /\ DOMAIN x.node = 0..(Size(x) - 1)
  BY ShapeFacts DEF Good, Shape
<1>2. \A m \in Slots(x) : \/ m < ASize(x) /\ SlotKey(x, m) = m /\ InArray(x, m)
                          \/ /\ ~(m < ASize(x)) /\ m - ASize(x) \in DOMAIN x.node
                             /\ SlotKey(x, m) = x.node[m - ASize(x)].key
  BY <1>1 DEF Slots, SlotKey, InArray, Integer
<1>3. \A m \in Keyed(x) : ~InArray(x, x.node[m].key)
  BY DEF Placed
<1>4. CASE i < ASize(x) /\ j < ASize(x)
  BY <1>2, <1>4
<1>5. CASE ~(i < ASize(x)) /\ ~(j < ASize(x))
  <2>1. i - ASize(x) = j - ASize(x)
    BY <1>2, <1>5 DEF Placed, Keyed
  <2> QED
    BY <1>1, <2>1 DEF Slots
<1>6. CASE ~(i < ASize(x) <=> j < ASize(x))
  BY <1>2, <1>3, <1>6 DEF Keyed
<1> QED
  BY <1>4, <1>5, <1>6

\* A key is present if a slot has a value for it.
LEMMA PresentSlots ==
  ASSUME NEW s, NEW x, Good(s, x), NEW c, Placed(c, x), NEW q
  PROVE  Present(x, q) <=> \E i \in Slots(x) : SlotVal(x, i) # Nil /\ SlotKey(x, i) = q
<1>1. \A j \in Slots(x) : Leaves(x, 0, j) <=> SlotVal(x, j) # Nil
  BY DEF Leaves, Slots
<1>2. ~Stays(x, 0, q)
  BY DEF Stays
<1>3. Present(x, q) <=> \E j \in Slots(x) : Moves(x, 0, j, q)
  BY <1>2, StaysOrMoves
<1> QED
  BY <1>1, <1>3 DEF Moves

\* keyindex finds the slot of the last key.
LEMMA IndexIs ==
  ASSUME Base, OwnAddresses, Placed(Owner, t), control \in TableKeys, Named(string, control),
         NEW c \in Slots(t), SlotKey(t, c) = control
  PROVE  Index(control) = c
<1>1. world \in Worlds /\ Good(string, t) /\ StringsPlaced(string)
  BY DEF Base
<1>2. /\ ASize(t) \in Nat /\ Size(t) \in Nat
      /\ DOMAIN t.array = 0..(ASize(t) - 1) /\ DOMAIN t.node = 0..(Size(t) - 1)
  BY <1>1, ShapeFacts DEF Good, Shape
<1>3. control # Nil
  BY <1>1, KeyFacts
<1>4. CASE c < ASize(t)
  <2>1. control = c /\ InArray(t, control)
    BY <1>2, <1>4 DEF SlotKey, Slots, InArray, Integer
  <2> QED
    BY <1>3, <2>1 DEF Index
<1>5. CASE ~(c < ASize(t))
  <2> DEFINE n == c - ASize(t)
  <2>1. n \in DOMAIN t.node /\ t.node[n].key = control
    BY <1>2, <1>5 DEF Slots, SlotKey
  <2>2. ASize(t) + n = c
    BY <1>2 DEF Slots
  <2> HIDE DEF n
  <2>3. n \in Keyed(t) /\ ~InArray(t, control)
    BY <1>3, <2>1 DEF Keyed, Placed
  <2>4. Holding(string, t, control) = {n}
    <3>1. Hash(string, control) = Hash(Owner, control)
      BY <1>1, OwnerHash
    <3>2. Main(string, t, control) = Home(Owner, t, n)
      BY <2>1, <3>1 DEF Main, Home
    <3>3. n \in Hull(t.node, Main(string, t, control))
      BY <2>3, <3>2 DEF Placed
    <3>4. \A m \in DOMAIN t.node : t.node[m].key = control => m = n
      BY <1>3, <2>1, <2>3 DEF Placed, Keyed
    <3>5. Holding(string, t, control) =
            {m \in DOMAIN t.node : /\ t.node[m].key = control
                                   /\ m \in Hull(t.node, Main(string, t, control))}
      BY <1>1, HoldingIs
    <3> QED
      BY <2>1, <3>3, <3>4, <3>5
  <2>5. (CHOOSE m \in {n} : TRUE) = n
    OBVIOUS
  <2> QED
    BY <1>3, <2>2, <2>3, <2>4, <2>5 DEF Index
<1> QED
  BY <1>4, <1>5

\* What is to be shown of a step.
LEMMA MappedNext ==
  ASSUME world' = world,
         OwnAddresses /\ Steady =>
           /\ Mirrored(t') /\ Distinct(string')
           /\ control' # NoKey => Walked'
  PROVE  Mapped'
<1>1. (OwnAddresses' <=> OwnAddresses) /\ (Steady' <=> Steady)
  BY DEF OwnAddresses, Steady
<1>2. (Mirrored(t') => Mirrored(t)') /\ (Distinct(string') => Distinct(string)')
  BY DEF Mirrored, Distinct
<1> QED
  BY <1>1, <1>2 DEF Mapped, Traversing

\* A key that is passed gets its name; no other key loses its own.
LEMMA PassedNames ==
  ASSUME Base, Distinct(string), NEW k \in world.keys, NEW p \in Passed(k)
  PROVE  /\ Distinct(p.string) /\ KeyOf(p.string, p.key) = k
         /\ \A q \in TableKeys : Named(string, q) =>
              Named(p.string, q) /\ KeyOf(p.string, q) = KeyOf(string, q)
<1>1. CASE k \notin Strings
  <2>1. p = [key |-> k, string |-> string]
    BY <1>1 DEF Passed
  <2>2. k \notin Addresses
    <3>1. k \in Numbers \cup Nat
      BY <1>1, WorldAssumption DEF Base
    <3> QED
      BY <3>1, KeyAssumption
  <2> QED
    BY <2>1, <2>2 DEF KeyOf
<1>2. CASE k \in Strings
  <2>1. PICK a \in Interned(k) : p = [key |-> a, string |-> [string EXCEPT ![a] = k]]
    BY <1>2 DEF Passed
  <2>2. k \in world.keys \cap Strings /\ k # Nil /\ world.places[k] \subseteq Addresses
        /\ Nil \notin Strings
    <3>1. world.places \in [world.keys \cap Strings -> SUBSET Addresses]
      BY WorldAssumption DEF Base
    <3>2. Nil \notin Strings
      BY KeyAssumption
    <3> QED
      BY <1>2, <3>1, <3>2
  <2>3. /\ a \in Addresses
        /\ \/ string[a] = k
           \/ string[a] = Nil /\ \A b \in Addresses : string[b] # k
    BY <2>1, <2>2 DEF Interned
  <2> DEFINE s == [string EXCEPT ![a] = k]
  <2>4. s[a] = k /\ \A b \in Addresses : b # a => s[b] = string[b]
    BY <2>2, <2>3 DEF Base
  <2> HIDE DEF s
  <2>5. p.key = a /\ p.string = s
    BY <2>1 DEF s
  <2>6. Distinct(s)
    BY <2>2, <2>3, <2>4 DEF Distinct
  <2>7. \A q \in TableKeys : Named(string, q) => Named(s, q) /\ KeyOf(s, q) = KeyOf(string, q)
    BY <2>2, <2>3, <2>4 DEF Named, KeyOf
  <2> QED
    BY <2>3, <2>4, <2>5, <2>6, <2>7 DEF KeyOf
<1> QED
  BY <1>1, <1>2

\* A store in a table of which the key is known already moves no key: a
\* traversal stays where it is.
LEMMA WalkGoesOn ==
  ASSUME Base, OwnAddresses, Walked, Placed(Owner, t),
         world' = world, control' = control, seen' = seen,
         Good(string', t'), DOMAIN t'.array = DOMAIN t.array, DOMAIN t'.node = DOMAIN t.node,
         \A n \in DOMAIN t.node : t'.node[n].key = t.node[n].key,
         \A i \in Slots(t) : SlotVal(t', i) # Nil => SlotVal(t, i) # Nil,
         \A q \in TableKeys : Named(string, q) =>
           Named(string', q) /\ KeyOf(string', q) = KeyOf(string, q)
  PROVE  Walked'
<1>1. world \in Worlds /\ Good(string, t)
  BY DEF Base
<1>2. /\ ASize(t) \in Nat /\ Size(t) \in Nat /\ DOMAIN t.node = 0..(Size(t) - 1)
  BY <1>1, ShapeFacts DEF Good, Shape
<1>3. ASize(t') = ASize(t) /\ Size(t') = Size(t) /\ Slots(t') = Slots(t)
  BY DEF ASize, Size, Slots
<1>4. \A i \in Slots(t) : SlotKey(t', i) = SlotKey(t, i)
  <2> TAKE i \in Slots(t)
  <2>1. ~(i < ASize(t)) => i - ASize(t) \in DOMAIN t.node
    BY <1>2 DEF Slots
  <2> QED
    BY <1>3, <2>1 DEF SlotKey
<1>5. \A i : Before(i)' <=> Before(i)
  BY <1>3, <1>4 DEF Before
<1>6. control' # Nil => /\ control' \in TableKeys /\ Named(string', control')
                        /\ \E c \in Slots(t') : SlotKey(t', c) = control'
  BY <1>3, <1>4 DEF Walked
<1>7. ASSUME NEW i \in Slots(t), SlotVal(t', i) # Nil
      PROVE  KeyOf(string', SlotKey(t', i)) \in seen' <=> Before(i)'
  <2>1. SlotVal(t, i) # Nil
    BY <1>7
  <2>2. SlotKey(t, i) \in TableKeys /\ Named(string, SlotKey(t, i))
    BY <1>1, <2>1, SlotFacts
  <2>3. KeyOf(string', SlotKey(t', i)) = KeyOf(string, SlotKey(t, i))
    BY <1>4, <2>2
  <2> QED
    BY <1>5, <2>1, <2>3 DEF Walked
<1>8. (TableKeys' = TableKeys) /\ (Named(string', control') => Named(string, control)')
  BY DEF TableKeys, Named
<1>9. Slots(t)' = Slots(t) /\ \A i \in Slots(t) : /\ SlotKey(t, i)' = SlotKey(t', i)
                                                  /\ SlotVal(t, i)' = SlotVal(t', i)
  BY <1>3 DEF Slots, SlotKey, SlotVal, ASize, Size
<1>10. \A q : KeyOf(string, q)' = KeyOf(string', q)
  BY DEF KeyOf
<1>11. control' # Nil => /\ control' \in TableKeys' /\ Named(string, control)'
                         /\ \E c \in Slots(t)' : SlotKey(t, c)' = control'
  BY <1>3, <1>6, <1>8, <1>9
<1>12. \A i \in Slots(t)' :
         SlotVal(t, i)' # Nil => (KeyOf(string, SlotKey(t, i))' \in seen' <=> Before(i)')
  <2> TAKE i \in Slots(t)'
  <2>1. KeyOf(string, SlotKey(t, i))' = KeyOf(string', SlotKey(t', i))
    BY DEF KeyOf, SlotKey, ASize
  <2> QED
    BY <1>7, <1>9, <2>1
<1> QED
  BY <1>11, <1>12 DEF Walked

\* A store sets or clears one field, which exists while a table is traversed.
LEMMA AssignMaps ==
  ASSUME Base, Sound, Mapped, OwnAddresses, Steady,
         NEW k \in world.keys, NEW nilled \in BOOLEAN, Assign(k, nilled)
  PROVE  /\ Mirrored(t') /\ Distinct(string') /\ (Traversing => Walked')
         /\ Names(string', t') = IF nilled THEN Names(string, t) \ {k}
                                 ELSE Names(string, t) \cup {k}
         /\ Traversing => k \in Names(string, t)
<1> DEFINE room(p, y) == HasRoom(p.string, y, p.key)
           known(p, y) == InArray(y, p.key) \/ Holding(p.string, y, p.key) # {}
           new(p) == Rehashed(p.string, t, p.key)
           x(p) == IF room(p, t) THEN t ELSE new(p).table
           v(p) == IF nilled THEN Nil ELSE p.key
<1>1. PICK p \in Passed(k) :
        /\ string' = p.string
        /\ fault' = (\/ ~room(p, t) /\ ~(new(p).fits /\ room(p, x(p)))
                     \/ ~known(p, x(p)) /\ LostNode(p.string, x(p), p.key))
        /\ t' = IF fault' THEN t ELSE Store(p.string, x(p), p.key, v(p))
  BY DEF Assign
<1>2. world' = world /\ control' = control /\ seen' = seen
  BY DEF Assign
<1>3. Sound'
  BY AssignKeeps
<1>4. ~fault'
  <2>1. (OwnAddresses' <=> OwnAddresses) /\ (Steady' <=> Steady)
    BY <1>2 DEF OwnAddresses, Steady
  <2> QED
    BY <1>3, <2>1 DEF Sound
<1> DEFINE s == p.string
           q == p.key
           y == x(p)
<1>5. /\ q \in TableKeys /\ Named(s, q) /\ StringsPlaced(s) /\ Good(s, t)
      /\ world \in Worlds /\ Good(string, t) /\ q # Nil /\ k # Nil
  <2>1. world \in Worlds /\ Good(string, t)
    BY DEF Base
  <2>2. Nil \notin TableKeys /\ Nil \notin world.keys
    BY <2>1, KeyFacts, KeyAssumption, WorldAssumption
  <2> QED
    BY <2>1, <2>2, PassedFacts
<1>6. Mirrored(t) /\ Distinct(string) /\ Placed(Owner, t)
  BY DEF Mapped, Sound
<1>7. /\ Distinct(s) /\ KeyOf(s, q) = k
      /\ \A r \in TableKeys : Named(string, r) => Named(s, r) /\ KeyOf(s, r) = KeyOf(string, r)
  BY <1>6, PassedNames
<1>8. /\ Good(s, y) /\ HasRoom(s, y, q) /\ Placed(Owner, y)
      /\ Mirrored(y) /\ \A r : Present(y, r) <=> Present(t, r)
  <2>1. CASE room(p, t)
    BY <1>5, <1>6, <2>1
  <2>2. CASE ~room(p, t)
    <3>1. new(p).fits /\ Good(s, y) /\ Placed(s, y) /\ HasRoom(s, y, q)
      BY <1>5, <2>2, RehashedGood
    <3>2. Mirrored(y) /\ \A r : Present(y, r) <=> Present(t, r)
      BY <1>5, <1>6, <2>2, RehashedMaps
    <3>3. Placed(Owner, y)
      BY <1>5, <3>1, OwnerAgrees
    <3> QED
      BY <3>1, <3>2, <3>3
  <2> QED
    BY <2>1, <2>2
<1>9. Agrees(s, Owner, y) /\ Named(Owner, q) /\ Hash(s, q) = Hash(Owner, q)
  BY <1>5, <1>8, OwnerAgrees, OwnerHash
<1>10. InArray(y, q) \/ Holding(s, y, q) # {} \/ ~LostNode(s, y, q)
  BY <1>1, <1>4
<1>11. t' = Store(s, y, q, v(p)) /\ string' = s
  BY <1>1, <1>4
<1>12. v(p) \in {Nil, q} /\ v(p) \in Values /\ (v(p) = Nil <=> nilled)
  BY <1>5 DEF Values
<1>13. room(p, t) => y = t
  OBVIOUS
<1> HIDE DEF v, y, s, q
<1>14. /\ Mirrored(t')
       /\ \A r : Present(t', r) <=> IF r = q THEN ~nilled ELSE Present(t, r)
       /\ InArray(y, q) \/ Holding(s, y, q) # {} =>
            /\ \A n \in DOMAIN y.node : /\ t'.node[n].key = y.node[n].key
                                        /\ t'.node[n].key # q => t'.node[n].val = y.node[n].val
            /\ \A i \in DOMAIN y.array : i # q => t'.array[i] = y.array[i]
  BY <1>5, <1>8, <1>9, <1>10, <1>11, <1>12, StoreMaps
<1>15. \A r \in TableKeys : Present(t, r) =>
         /\ Named(string, r) /\ Named(s, r) /\ KeyOf(s, r) = KeyOf(string, r)
         /\ KeyOf(string, r) = k <=> r = q
  <2> TAKE r \in TableKeys
  <2> HAVE Present(t, r)
  <2>1. Named(string, r)
    BY <1>5, PresentNamed
  <2>2. Named(s, r) /\ KeyOf(s, r) = KeyOf(string, r)
    BY <1>7, <2>1
  <2>3. KeyOf(s, r) = k => r = q
    BY <1>5, <1>7, <2>2, NamesTell
  <2> QED
    BY <1>7, <2>1, <2>2, <2>3
<1>16. Names(string', t') = IF nilled THEN Names(string, t) \ {k} ELSE Names(string, t) \cup {k}
  <2> DEFINE N == Names(string, t)
             M == Names(s, t')
  <2>1. \A l : l \in M <=> \E r \in TableKeys : Present(t', r) /\ KeyOf(s, r) = l
    BY DEF Names
  <2>2. \A l : l \in N <=> \E r \in TableKeys : Present(t, r) /\ KeyOf(string, r) = l
    BY DEF Names
  <2> HIDE DEF N, M
  <2>3. \A l : l # k => (l \in M <=> l \in N)
    BY <1>7, <1>14, <1>15, <2>1, <2>2
  <2>4. k \in M <=> ~nilled
    <3>1. ~nilled => k \in M
      BY <1>5, <1>7, <1>14, <2>1
    <3>2. ASSUME k \in M, nilled
          PROVE  FALSE
      <4>1. PICK r \in TableKeys : Present(t', r) /\ KeyOf(s, r) = k
        BY <2>1, <3>2
      <4>2. r # q /\ Present(t, r)
        BY <1>14, <3>2, <4>1
      <4> QED
        BY <1>15, <4>1, <4>2
    <3> QED
      BY <3>1, <3>2
  <2>5. M = IF nilled THEN N \ {k} ELSE N \cup {k}
    BY <2>3, <2>4
  <2> QED
    BY <1>11, <2>5 DEF M, N
<1>17. Traversing => k \in Names(string, t)
  BY <1>6, FieldIs DEF Assign
<1>18. ASSUME Traversing
       PROVE  Walked'
  <2>1. Present(t, q)
    <3>1. PICK r \in TableKeys : Present(t, r) /\ KeyOf(string, r) = k
      BY <1>17, <1>18 DEF Names
    <3> QED
      BY <1>15, <3>1
  <2>2. InArray(t, q) \/ Holding(s, t, q) # {}
    <3>1. CASE InArray(t, q)
      BY <3>1
    <3>2. CASE ~InArray(t, q)
      <4>1. PICK n \in DOMAIN t.node : t.node[n].key = q /\ t.node[n].val # Nil
        BY <2>1, <3>2 DEF Present
      <4>2. n \in Hull(t.node, Home(Owner, t, n))
        BY <1>5, <1>6, <4>1 DEF Placed, Keyed
      <4>3. Home(Owner, t, n) = Main(s, t, q)
        BY <1>9, <4>1 DEF Home, Main
      <4>4. n \in Holding(s, t, q)
        BY <1>5, <4>1, <4>2, <4>3, HoldingIs
      <4> QED
        BY <4>4
    <3> QED
      BY <3>1, <3>2
  <2>3. y = t
    BY <1>13, <2>2 DEF HasRoom, s, q
  <2>4. /\ \A n \in DOMAIN t.node : /\ t'.node[n].key = t.node[n].key
                                    /\ t'.node[n].key # q => t'.node[n].val = t.node[n].val
        /\ \A i \in DOMAIN t.array : i # q => t'.array[i] = t.array[i]
    BY <1>14, <2>2, <2>3
  <2>5. /\ Good(s, t') /\ DOMAIN t'.array = DOMAIN t.array /\ DOMAIN t'.node = DOMAIN t.node
    BY <1>5, <1>8, <1>10, <1>11, <1>12, <2>3, StoreGood
  <2>6. \A i \in Slots(t) : SlotVal(t', i) # Nil => SlotVal(t, i) # Nil
    <3> TAKE i \in Slots(t)
    <3> HAVE SlotVal(t', i) # Nil
    <3>1. /\ ASize(t) \in Nat /\ Size(t) \in Nat
          /\ DOMAIN t.array = 0..(ASize(t) - 1) /\ DOMAIN t.node = 0..(Size(t) - 1)
      BY <1>5, ShapeFacts DEF Good, Shape
    <3>2. ASize(t') = ASize(t)
      BY <2>5 DEF ASize
    <3>3. CASE SlotKey(t, i) # q
      <4>1. i < ASize(t) => i \in DOMAIN t.array
        BY <3>1 DEF Slots
      <4>2. ~(i < ASize(t)) => i - ASize(t) \in DOMAIN t.node
        BY <3>1 DEF Slots
      <4>3. SlotVal(t', i) = SlotVal(t, i)
        BY <2>4, <3>2, <3>3, <4>1, <4>2 DEF SlotVal, SlotKey
      <4> QED
        BY <4>3
    <3>4. CASE SlotKey(t, i) = q
      <4>1. PICK j \in Slots(t) : SlotVal(t, j) # Nil /\ SlotKey(t, j) = q
        BY <1>5, <1>6, <2>1, PresentSlots
      <4>2. i = j
        BY <1>5, <1>6, <3>4, <4>1, SlotUnique
      <4> QED
        BY <4>1, <4>2
    <3> QED
      BY <3>3, <3>4
  <2>7. Walked
    BY <1>18 DEF Mapped
  <2>8. Good(string', t')
    BY <1>11, <2>5
  <2>9. \A r \in TableKeys : Named(string, r) =>
          Named(string', r) /\ KeyOf(string', r) = KeyOf(string, r)
    BY <1>7, <1>11
  <2> QED
    BY <1>2, <1>6, <2>4, <2>5, <2>6, <2>7, <2>8, <2>9, WalkGoesOn
<1> QED
  BY <1>7, <1>11, <1>14, <1>16, <1>17, <1>18

\* The fields are the same where each key is present as before.
LEMMA SameNames ==
  ASSUME Base, NEW s, NEW y, \A q : Present(y, q) <=> Present(t, q),
         \A q \in TableKeys : Named(string, q) => KeyOf(s, q) = KeyOf(string, q)
  PROVE  Names(s, y) = Names(string, t)
<1>1. world \in Worlds /\ Good(string, t)
  BY DEF Base
<1>2. \A q : Present(t, q) => Named(string, q)
  BY <1>1, PresentNamed
<1> QED
  BY <1>2 DEF Names

\* A failed allocation changes no field.
LEMMA OutOfMemoryMaps ==
  ASSUME Base, Sound, Mapped, OwnAddresses, Steady, NEW k \in world.keys, OutOfMemory(k)
  PROVE  /\ Mirrored(t') /\ Distinct(string') /\ ~Traversing
         /\ Names(string', t') = Names(string, t)
<1> DEFINE longer(p) == [i \in 0..(BestASize(t, p.key) - 1) |->
                           IF i \in DOMAIN t.array THEN t.array[i] ELSE Nil]
           grows(p) == BestASize(t, p.key) > ASize(t)
<1>1. PICK p \in Passed(k) :
        /\ string' = p.string
        /\ \/ t' = t
           \/ /\ "nodes" \in world.exhausted
              /\ grows(p) /\ t' = [t EXCEPT !.array = longer(p)]
  BY DEF OutOfMemory
<1>2. Mirrored(t) /\ Distinct(string) /\ world \in Worlds /\ Good(string, t) /\ ~Traversing
  BY DEF Mapped, Base, OutOfMemory
<1>3. /\ Distinct(p.string)
      /\ \A q \in TableKeys : Named(string, q) => KeyOf(p.string, q) = KeyOf(string, q)
  BY <1>2, PassedNames
<1>4. BestASize(t, p.key) \in Nat
  BY <1>2, RehashRoom
<1>5. Mirrored(t') /\ \A q : Present(t', q) <=> Present(t, q)
  <2>1. CASE t' = t
    BY <1>2, <2>1
  <2>2. CASE "nodes" \in world.exhausted /\ grows(p) /\ t' = [t EXCEPT !.array = longer(p)]
    <3>1. /\ ASize(t) \in Nat /\ DOMAIN t.array = 0..(ASize(t) - 1)
          /\ t = [array |-> t.array, node |-> t.node, free |-> t.free]
      BY <1>2, ShapeFacts DEF Good, Shape
    <3>2. t'.array = longer(p) /\ t'.node = t.node
      BY <2>2, <3>1
    <3>3. \A i \in DOMAIN t.array : t.array[i] = Nil
      BY <2>2, <3>1, <1>2 DEF Steady, Good, Shape
    <3>4. \A i \in DOMAIN t'.array : t'.array[i] = Nil
      BY <3>2, <3>3
    <3>5. \A q : Present(t, q) \/ Present(t', q) => q \notin Nat
      <4>1. Good(p.string, t')
        <5>1. Good(p.string, t)
          BY PassedFacts
        <5> QED
          BY <1>2, <1>4, <2>2, <5>1, LongerGood
      <4>2. \A q : Present(t, q) \/ Present(t', q) => q \in TableKeys
        BY <1>2, <4>1, PresentNamed
      <4>3. world.keys \cap Nat = {} /\ Addresses \cap Nat = {}
        BY <2>2, KeyAssumption DEF Steady
      <4> QED
        BY <4>2, <4>3 DEF TableKeys
    <3>6. \A q : Present(t', q) <=> Present(t, q)
      BY <3>2, <3>5 DEF Present, InArray, Integer
    <3>7. Mirrored(t')
      BY <1>2, <3>2, <3>4 DEF Mirrored
    <3> QED
      BY <3>6, <3>7
  <2> QED
    BY <1>1, <2>1, <2>2
<1>6. Names(p.string, t') = Names(string, t)
  BY <1>3, <1>5, SameNames
<1> QED
  BY <1>1, <1>2, <1>3, <1>5, <1>6

\* lj_tab_clear leaves no field.
LEMMA ClearMaps ==
  ASSUME Base, Clear
  PROVE  /\ Mirrored(t') /\ ~Traversing /\ Names(string', t') = {}
<1>1. /\ t'.array = [i \in DOMAIN t.array |-> Nil]
      /\ t'.node = [n \in DOMAIN t.node |-> [key |-> Nil, val |-> Nil, next |-> None]]
      /\ ~Traversing
  BY DEF Clear
<1>2. \A q : ~Present(t', q)
  BY <1>1 DEF Present, InArray
<1> QED
  BY <1>1, <1>2 DEF Mirrored, Names

\* A string that is freed is no name of a field, nor that of the last key.
LEMMA FreeStringMaps ==
  ASSUME Base, Sound, Mapped, OwnAddresses, Steady, NEW a \in Addresses, FreeString(a)
  PROVE  /\ Mirrored(t') /\ Distinct(string') /\ (Traversing => Walked')
         /\ Names(string', t') = Names(string, t)
<1>1. /\ world' = world /\ t' = t /\ control' = control /\ seen' = seen
      /\ string' = [string EXCEPT ![a] = Nil] /\ control # a
      /\ \A n \in DOMAIN t.node : t.node[n].val # Nil => t.node[n].key # a
  BY DEF FreeString
<1>2. /\ Mirrored(t) /\ Distinct(string) /\ world \in Worlds /\ Good(string, t)
      /\ Placed(Owner, t)
  BY DEF Mapped, Base, Sound
<1>3. /\ string' \in [Addresses -> Strings \cup {Nil}] /\ string'[a] = Nil
      /\ \A b \in Addresses : b # a => string'[b] = string[b]
  BY <1>1 DEF Base
<1>4. Distinct(string')
  BY <1>2, <1>3 DEF Distinct
<1>5. \A q : Present(t, q) => q # a
  BY <1>1, KeyAssumption DEF Present, InArray, Integer
<1>6. \A q \in TableKeys : Named(string, q) /\ q # a =>
        Named(string', q) /\ KeyOf(string', q) = KeyOf(string, q)
  BY <1>3 DEF Named, KeyOf
<1>7. Names(string', t') = Names(string, t)
  <2>1. \A q : Present(t, q) => q \in TableKeys /\ Named(string, q)
    BY <1>2, PresentNamed
  <2> QED
    BY <1>1, <1>5, <1>6, <2>1 DEF Names
<1>8. ASSUME Traversing
      PROVE  Walked'
  <2>1. Walked
    BY <1>8 DEF Mapped
  <2>2. TableKeys' = TableKeys /\ Slots(t)' = Slots(t)
    BY <1>1 DEF TableKeys, Slots, ASize, Size
  <2>3. \A i : /\ SlotKey(t, i)' = SlotKey(t, i) /\ SlotVal(t, i)' = SlotVal(t, i)
               /\ Before(i)' <=> Before(i)
    BY <1>1 DEF SlotKey, SlotVal, Before, Slots, ASize, Size
  <2>4. control # Nil => /\ control' \in TableKeys' /\ Named(string, control)'
                         /\ \E c \in Slots(t)' : SlotKey(t, c)' = control'
    <3>1. control # Nil => Named(string', control')
      BY <1>1, <1>6, <2>1 DEF Walked
    <3>2. Named(string', control') => Named(string, control)'
      BY <1>1 DEF Named
    <3> QED
      BY <1>1, <2>1, <2>2, <2>3, <3>1, <3>2 DEF Walked
  <2>5. ASSUME NEW i \in Slots(t)', SlotVal(t, i)' # Nil
        PROVE  KeyOf(string, SlotKey(t, i))' \in seen' <=> Before(i)'
    <3>1. i \in Slots(t) /\ SlotVal(t, i) # Nil
      BY <2>2, <2>3, <2>5
    <3>2. Present(t, SlotKey(t, i))
      BY <1>2, <3>1, PresentSlots
    <3>3. KeyOf(string', SlotKey(t, i)) = KeyOf(string, SlotKey(t, i))
      BY <1>2, <1>5, <1>6, <3>2, PresentNamed
    <3>4. KeyOf(string, SlotKey(t, i))' = KeyOf(string', SlotKey(t, i))
      BY <1>1 DEF KeyOf, SlotKey, ASize
    <3> QED
      BY <1>1, <2>1, <2>3, <3>1, <3>3, <3>4 DEF Walked
  <2> QED
    BY <1>1, <2>4, <2>5 DEF Walked
<1> QED
  BY <1>1, <1>2, <1>4, <1>7, <1>8

\* A traversal that begins has visited nothing.
LEMMA BeginMaps ==
  ASSUME Begin
  PROVE  Walked'
<1>1. control' = Nil /\ seen' = {}
  BY DEF Begin
<1>2. \A i : ~Before(i)'
  BY <1>1 DEF Before
<1> QED
  BY <1>1, <1>2 DEF Walked

\* One that goes on visits a field that it has not visited, and one that ends
\* has visited all.
LEMMA NextKeyMaps ==
  ASSUME Base, Sound, Mapped, OwnAddresses, Steady, NextKey
  PROVE  /\ control' # NoKey => Walked'
         /\ \/ seen' = Nil /\ Names(string, t) \subseteq seen
            \/ \E k \in Names(string, t) \ seen : seen' = seen \cup {k}
<1> DEFINE found == {i \in Later(Index(control)) : SlotVal(t, i) # Nil}
<1>1. /\ world' = world /\ string' = string /\ t' = t /\ Traversing
      /\ IF found = {} THEN control' = NoKey /\ seen' = Nil
         ELSE /\ control' = SlotKey(t, Min(found))
              /\ seen' = seen \cup {KeyOf(string, control')}
  BY DEF NextKey
<1>2. /\ Walked /\ Mirrored(t) /\ Distinct(string) /\ Placed(Owner, t)
      /\ world \in Worlds /\ Good(string, t)
  BY <1>1 DEF Mapped, Base, Sound
<1>3. Slots(t) \subseteq Nat
  BY DEF Slots
<1> DEFINE last == Index(control)
<1>4. last \in Int /\ \A i \in Slots(t) : Before(i) <=> i <= last
  <2>1. CASE control = Nil
    <3>1. last = -1
      BY <2>1 DEF Index
    <3>2. \A i \in Slots(t) : ~Before(i)
      BY <2>1 DEF Before
    <3> QED
      BY <1>3, <3>1, <3>2
  <2>2. CASE control # Nil
    <3>1. PICK c \in Slots(t) : SlotKey(t, c) = control
      BY <1>2, <2>2 DEF Walked
    <3>2. last = c
      BY <1>2, <2>2, <3>1, IndexIs DEF Walked
    <3>3. \A b \in Slots(t) : SlotKey(t, b) = control => b = c
      BY <1>2, <2>2, <3>1, SlotUnique
    <3>4. \A i : Before(i) <=> i <= c
      BY <2>2, <3>1, <3>3 DEF Before
    <3> QED
      BY <1>3, <3>1, <3>2, <3>4
  <2> QED
    BY <2>1, <2>2
<1>5. found = {i \in Slots(t) : i > last /\ SlotVal(t, i) # Nil}
  BY DEF Later
<1> HIDE DEF last, found
<1>6. \A i \in Slots(t) : SlotVal(t, i) # Nil =>
        /\ SlotKey(t, i) \in TableKeys /\ Named(string, SlotKey(t, i))
        /\ Present(t, SlotKey(t, i)) /\ SlotKey(t, i) # Nil
        /\ KeyOf(string, SlotKey(t, i)) \in Names(string, t)
        /\ KeyOf(string, SlotKey(t, i)) \in seen <=> i <= last
  <2> TAKE i \in Slots(t)
  <2> HAVE SlotVal(t, i) # Nil
  <2>1. SlotKey(t, i) \in TableKeys /\ Named(string, SlotKey(t, i))
    BY <1>2, SlotFacts
  <2>2. Present(t, SlotKey(t, i))
    BY <1>2, PresentSlots
  <2>3. SlotKey(t, i) # Nil
    BY <1>2, <2>1, KeyFacts
  <2>4. KeyOf(string, SlotKey(t, i)) \in Names(string, t)
    BY <2>1, <2>2 DEF Names
  <2>5. KeyOf(string, SlotKey(t, i)) \in seen <=> i <= last
    BY <1>2, <1>4 DEF Walked
  <2> QED
    BY <2>1, <2>2, <2>3, <2>4, <2>5
<1>7. CASE found = {}
  <2>1. ASSUME NEW k \in Names(string, t)
        PROVE  k \in seen
    <3>1. PICK q \in TableKeys : Present(t, q) /\ KeyOf(string, q) = k
      BY <2>1 DEF Names
    <3>2. PICK i \in Slots(t) : SlotVal(t, i) # Nil /\ SlotKey(t, i) = q
      BY <1>2, <3>1, PresentSlots
    <3>3. i <= last
      BY <1>3, <1>4, <1>5, <1>7, <3>2
    <3> QED
      BY <1>6, <3>1, <3>2, <3>3
  <2> QED
    BY <1>1, <1>7, <2>1
<1>8. CASE found # {}
  <2> DEFINE m == Min(found)
             k == KeyOf(string, control')
  <2>1. m \in found /\ \A i \in found : m <= i
    BY <1>3, <1>5, <1>8, NatMin
  <2> HIDE DEF m
  <2>2. control' = SlotKey(t, m) /\ seen' = seen \cup {k}
    BY <1>1, <1>8 DEF m
  <2>3. m \in Slots(t) /\ m > last /\ SlotVal(t, m) # Nil /\ m \in Nat
    BY <1>3, <1>5, <2>1
  <2>4. /\ control' \in TableKeys /\ Named(string, control') /\ control' # Nil
        /\ k \in Names(string, t) /\ k \notin seen
    BY <1>4, <1>6, <2>2, <2>3
  <2>5. \A i \in Slots(t) : Before(i)' <=> i <= m
    <3>1. \A b \in Slots(t) : SlotKey(t, b) = control' => b = m
      BY <1>2, <2>2, <2>3, <2>4, SlotUnique
    <3>2. \A i : Before(i)' <=> control' # Nil /\ \E c \in Slots(t) :
                                                   SlotKey(t, c) = control' /\ i <= c
      BY <1>1 DEF Before, Slots, SlotKey, ASize, Size
    <3> QED
      BY <2>2, <2>3, <2>4, <3>1, <3>2
  <2>6. \A i \in Slots(t) : SlotVal(t, i) # Nil =>
          (KeyOf(string, SlotKey(t, i)) \in seen' <=> i <= m)
    <3> TAKE i \in Slots(t)
    <3> HAVE SlotVal(t, i) # Nil
    <3>1. KeyOf(string, SlotKey(t, i)) = k <=> i = m
      <4>1. ASSUME KeyOf(string, SlotKey(t, i)) = k
            PROVE  i = m
        <5>1. SlotKey(t, i) = control'
          BY <1>2, <1>6, <2>4, <4>1, NamesTell
        <5> QED
          BY <1>2, <2>2, <2>3, <2>4, <5>1, SlotUnique
      <4>2. i = m => KeyOf(string, SlotKey(t, i)) = k
        BY <2>2
      <4> QED
        BY <4>1, <4>2
    <3>2. i > last => m <= i
      BY <1>5, <2>1
    <3>3. i <= last \/ i = m <=> i <= m
      BY <1>3, <1>4, <2>3, <3>2
    <3> QED
      BY <1>6, <2>2, <3>1, <3>3
  <2>7. Walked'
    <3>1. TableKeys' = TableKeys /\ Slots(t)' = Slots(t)
      BY <1>1 DEF TableKeys, Slots, ASize, Size
    <3>2. \A i : /\ SlotKey(t, i)' = SlotKey(t, i) /\ SlotVal(t, i)' = SlotVal(t, i)
                 /\ KeyOf(string, SlotKey(t, i))' = KeyOf(string, SlotKey(t, i))
      BY <1>1 DEF SlotKey, SlotVal, ASize, KeyOf
    <3>3. Named(string, control)'
      BY <1>1, <2>4 DEF Named
    <3>4. /\ control' \in TableKeys' /\ \E c \in Slots(t)' : SlotKey(t, c)' = control'
      BY <2>2, <2>3, <2>4, <3>1, <3>2
    <3>5. \A i \in Slots(t)' :
            SlotVal(t, i)' # Nil => (KeyOf(string, SlotKey(t, i))' \in seen' <=> Before(i)')
      BY <2>5, <2>6, <3>1, <3>2
    <3> QED
      BY <3>3, <3>4, <3>5 DEF Walked
  <2> QED
    BY <2>2, <2>4, <2>7
<1> QED
  BY <1>1, <1>7, <1>8

-----------------------------------------------------------------------------
\* The invariant of the refinement.
Refined == Base /\ Sound /\ Mapped /\ OwnAddresses /\ Steady

\* The fields are those that the abstract map has, before and after a step.
FieldsNamed ==
  /\ Fields = {<<k, k>> : k \in Names(string, t)}
  /\ Names(string, t) \subseteq Keys

\* The invariant gives what FieldsAre needs.
LEMMA RefinedFields == Refined => FieldsNamed
<1> SUFFICES ASSUME Refined PROVE FieldsNamed
  OBVIOUS
<1>1. Base /\ Sound /\ OwnAddresses /\ Steady /\ Mirrored(t) /\ Distinct(string)
      /\ world \in Worlds
  BY DEF Refined, Mapped, Base
<1>2. /\ Fields = {<<k, k>> : k \in Names(string, t)}
      /\ Names(string, t) \subseteq world.keys
  BY <1>1, FieldsAre
<1> QED
  BY <1>1, <1>2 DEF Keys, FieldsNamed

\* The same after a step: a step keeps the program, so a key has the same name.
LEMMA RefinedFieldsNext ==
  Refined' /\ world' = world =>
    /\ Fields' = {<<k, k>> : k \in Names(string', t')}
    /\ Names(string', t') \subseteq Keys
<1>1. Refined' => FieldsNamed'
  BY RefinedFields, PTL
<1>2. world' = world => Names(string, t)' = Names(string', t')
  BY DEF Names, KeyOf, TableKeys, Present, InArray
<1> QED
  BY <1>1, <1>2 DEF FieldsNamed

\* Every step keeps it, and says what becomes of the fields.
LEMMA RefinedKeeps ==
  ASSUME Refined, [Next]_vars
  PROVE  /\ Refined' /\ world' = world
         /\ LET N == Names(string, t)
                M == Names(string', t')
            IN  \/ M = N /\ seen' = seen
                \/ M = {} /\ seen' = seen /\ seen = Nil
                \/ \E k \in world.keys : /\ M \in {N \cup {k}, N \ {k}} /\ seen' = seen
                                         /\ seen # Nil => k \in N
                \/ M = N /\ seen = Nil /\ seen' = {}
                \/ M = N /\ seen # Nil /\ seen' = Nil /\ N \subseteq seen
                \/ M = N /\ seen # Nil /\ \E k \in N \ seen : seen' = seen \cup {k}
<1> DEFINE N == Names(string, t)
           M == Names(string', t')
           Steps == \/ M = N /\ seen' = seen
                    \/ M = {} /\ seen' = seen /\ seen = Nil
                    \/ \E k \in world.keys : /\ M \in {N \cup {k}, N \ {k}} /\ seen' = seen
                                             /\ seen # Nil => k \in N
                    \/ M = N /\ seen = Nil /\ seen' = {}
                    \/ M = N /\ seen # Nil /\ seen' = Nil /\ N \subseteq seen
                    \/ M = N /\ seen # Nil /\ \E k \in N \ seen : seen' = seen \cup {k}
<1>1. /\ Base /\ Sound /\ Mapped /\ OwnAddresses /\ Steady
      /\ Mirrored(t) /\ Distinct(string) /\ Placed(Owner, t)
      /\ (seen = Nil <=> ~Traversing) /\ (Traversing => Walked)
  BY DEF Refined, Mapped, Sound, Base
<1>2. Base' /\ Sound' /\ world' = world
  BY <1>1, StepKeeps
<1>3. OwnAddresses' /\ Steady'
  BY <1>1, <1>2 DEF OwnAddresses, Steady
<1>4. SUFFICES Mapped' /\ Steps
  BY <1>2, <1>3 DEF Refined
<1>5. ASSUME NEW k \in world.keys, Put(k) \/ Unset(k)
      PROVE  Mapped' /\ Steps
  <2>1. PICK nilled \in BOOLEAN : Assign(k, nilled)
    BY <1>5 DEF Put, Unset
  <2>2. control' = control /\ seen' = seen
    BY <2>1 DEF Assign
  <2>3. /\ Mirrored(t') /\ Distinct(string') /\ (Traversing => Walked')
        /\ M = IF nilled THEN N \ {k} ELSE N \cup {k}
        /\ Traversing => k \in N
    BY <1>1, <2>1, AssignMaps
  <2>4. Mapped'
    BY <1>2, <2>2, <2>3, MappedNext DEF Traversing
  <2>5. M \in {N \cup {k}, N \ {k}} /\ seen' = seen /\ (seen # Nil => k \in N)
    BY <1>1, <2>2, <2>3
  <2> QED
    BY <2>4, <2>5
<1>6. ASSUME NEW k \in world.keys, OutOfMemory(k)
      PROVE  Mapped' /\ Steps
  <2>1. control' = control /\ seen' = seen
    BY <1>6 DEF OutOfMemory
  <2>2. Mirrored(t') /\ Distinct(string') /\ ~Traversing /\ M = N
    BY <1>1, <1>6, OutOfMemoryMaps
  <2>3. Mapped'
    BY <1>2, <2>1, <2>2, MappedNext DEF Traversing
  <2> QED
    BY <2>1, <2>2, <2>3
<1>7. ASSUME NEW n \in world.lengths, Grow(n)
      PROVE  Mapped' /\ Steps
  <2>1. control' = control /\ seen' = seen /\ string' = string /\ ~Traversing
    BY <1>7 DEF Grow
  <2>2. Mirrored(t') /\ \A q : Present(t', q) <=> Present(t, q)
    BY <1>1, <1>7, GrowMaps
  <2>3. M = N
    BY <1>1, <2>1, <2>2, SameNames
  <2>4. Mapped'
    BY <1>1, <1>2, <2>1, <2>2, MappedNext DEF Traversing
  <2> QED
    BY <2>1, <2>3, <2>4
<1>8. CASE Clear
  <2>1. control' = control /\ seen' = seen /\ string' = string
    BY <1>8 DEF Clear
  <2>2. Mirrored(t') /\ ~Traversing /\ M = {}
    BY <1>1, <1>8, ClearMaps
  <2>3. Mapped'
    BY <1>1, <1>2, <2>1, <2>2, MappedNext DEF Traversing
  <2> QED
    BY <1>1, <2>1, <2>2, <2>3
<1>9. CASE Begin
  <2>1. t' = t /\ string' = string /\ seen' = {} /\ ~Traversing
    BY <1>9 DEF Begin
  <2>2. Mapped'
    BY <1>1, <1>2, <1>9, <2>1, BeginMaps, MappedNext
  <2> QED
    BY <1>1, <2>1, <2>2
<1>10. CASE NextKey
  <2>1. t' = t /\ string' = string /\ Traversing
    BY <1>10 DEF NextKey
  <2>2. /\ control' # NoKey => Walked'
        /\ \/ seen' = Nil /\ N \subseteq seen
           \/ \E k \in N \ seen : seen' = seen \cup {k}
    BY <1>1, <1>10, NextKeyMaps
  <2>3. Mapped'
    BY <1>1, <1>2, <2>1, <2>2, MappedNext
  <2> QED
    BY <1>1, <2>1, <2>2, <2>3
<1>11. ASSUME NEW a \in Addresses, FreeString(a)
       PROVE  Mapped' /\ Steps
  <2>1. control' = control /\ seen' = seen
    BY <1>11 DEF FreeString
  <2>2. Mirrored(t') /\ Distinct(string') /\ (Traversing => Walked') /\ M = N
    BY <1>1, <1>11, FreeStringMaps
  <2>3. Mapped'
    BY <1>2, <2>1, <2>2, MappedNext DEF Traversing
  <2> QED
    BY <2>1, <2>2, <2>3
<1>12. CASE UNCHANGED vars
  <2>1. /\ string' = string /\ t' = t /\ control' = control /\ seen' = seen
    BY <1>12 DEF vars
  <2>2. Traversing => Walked'
    <3>1. Walked' <=> Walked
      BY <1>2, <2>1 DEF Walked, Before, TableKeys, Named, Slots, SlotKey, SlotVal, KeyOf,
                        ASize, Size
    <3> QED
      BY <1>1, <3>1
  <2>3. Mapped'
    BY <1>1, <1>2, <2>1, <2>2, MappedNext DEF Traversing
  <2> QED
    BY <2>1, <2>3
<1> HIDE DEF Steps
<1>13. Next \/ UNCHANGED vars
  OBVIOUS
<1> QED
  BY <1>5, <1>6, <1>7, <1>8, <1>9, <1>10, <1>11, <1>12, <1>13 DEF Next

\* Each step is one of the map's, or none.
LEMMA RefinedStep ==
  Refined /\ [Next]_vars => Refined' /\ [Abstract!Operation]_(Abstract!tableVars)
<1> SUFFICES ASSUME Refined, [Next]_vars
             PROVE  Refined' /\ [Abstract!Operation]_(Abstract!tableVars)
  OBVIOUS
<1> DEFINE N == Names(string, t)
           M == Names(string', t')
<1>1. /\ Refined' /\ world' = world
      /\ \/ M = N /\ seen' = seen
         \/ M = {} /\ seen' = seen /\ seen = Nil
         \/ \E k \in world.keys : /\ M \in {N \cup {k}, N \ {k}} /\ seen' = seen
                                  /\ seen # Nil => k \in N
         \/ M = N /\ seen = Nil /\ seen' = {}
         \/ M = N /\ seen # Nil /\ seen' = Nil /\ N \subseteq seen
         \/ M = N /\ seen # Nil /\ \E k \in N \ seen : seen' = seen \cup {k}
  BY RefinedKeeps
<1> HIDE DEF N, M
<1>2. Fields = {<<k, k>> : k \in N} /\ Fields' = {<<k, k>> : k \in M} /\ N \subseteq Keys
  BY <1>1, RefinedFields, RefinedFieldsNext DEF N, M, FieldsNamed
<1>3. world.keys \subseteq Keys
  BY DEF Refined, Base, Keys
<1> USE DEF Abstract!Operation, Abstract!tableVars, Abstract!Idle
<1>4. CASE M = N /\ seen' = seen
  BY <1>1, <1>2, <1>4
<1>5. CASE M = {} /\ seen' = seen /\ seen = Nil
  <2>1. Fields' = {}
    BY <1>2, <1>5
  <2> QED
    BY <1>1, <1>5, <2>1 DEF Abstract!Assign
<1>6. ASSUME NEW k \in world.keys, M \in {N \cup {k}, N \ {k}}, seen' = seen,
             seen # Nil => k \in N
      PROVE  Abstract!Assign
  <2> DEFINE f == <<k, k>>
  <2>1. f \in {<<l, l>> : l \in Keys}
    BY <1>3
  <2>2. f \in Fields <=> k \in N
    BY <1>2
  <2>3. M = N \cup {k} => Fields' = Fields \cup {f}
    BY <1>2
  <2>4. M = N \ {k} => Fields' = Fields \ {f}
    BY <1>2
  <2> HIDE DEF f
  <2>5. Fields' \in {Fields \cup {f}, Fields \ {f}}
    BY <1>6, <2>3, <2>4
  <2>6. seen # Nil => f \in Fields
    BY <1>6, <2>2
  <2> QED
    BY <1>6, <2>1, <2>5, <2>6 DEF Abstract!Assign
<1>7. CASE M = N /\ seen = Nil /\ seen' = {}
  <2>1. Fields' = Fields
    BY <1>2, <1>7
  <2> QED
    BY <1>1, <1>7, <2>1 DEF Abstract!Start
<1>8. CASE M = N /\ seen # Nil /\ seen' = Nil /\ N \subseteq seen
  <2>1. Fields' = Fields /\ Fields \subseteq Abstract!Visited
    BY <1>2, <1>8 DEF Abstract!Visited
  <2> QED
    BY <1>1, <1>8, <2>1 DEF Abstract!Finish
<1>9. ASSUME M = N, seen # Nil, NEW k \in N \ seen, seen' = seen \cup {k}
      PROVE  Abstract!Visit
  <2> DEFINE f == <<k, k>>
  <2>1. Fields' = Fields /\ f \in Fields /\ f \notin Abstract!Visited /\ f[1] = k
    BY <1>2, <1>9 DEF Abstract!Visited
  <2> HIDE DEF f
  <2> QED
    BY <1>9, <2>1 DEF Abstract!Visit
<1> QED
  BY <1>1, <1>4, <1>5, <1>6, <1>7, <1>8, <1>9

\* A new table is an empty map.
LEMMA RefinedInit == Init /\ OwnAddresses /\ Steady => Refined /\ Abstract!Empty
<1> SUFFICES ASSUME Init, OwnAddresses, Steady
             PROVE  Refined /\ Abstract!Empty
  OBVIOUS
<1>1. Base /\ Sound
  BY InitBase
<1>2. /\ string = [a \in Addresses |-> Nil] /\ control = NoKey /\ seen = Nil
  BY DEF Init
<1>3. PICK asize \in world.asizes, hsize \in world.hsizes : t = NewTable(asize, HBits(hsize))
  BY DEF Init
<1>4. /\ t.array = [i \in 0..(asize - 1) |-> Nil]
      /\ t.node = NewNodes(HBits(hsize))
  BY <1>3 DEF NewTable
<1>5. Mirrored(t) /\ \A q : ~Present(t, q)
  <2>1. \A i \in DOMAIN t.array : t.array[i] = Nil
    BY <1>4
  <2>2. \A n \in DOMAIN t.node : t.node[n].val = Nil
    BY <1>4 DEF NewNodes
  <2> QED
    BY <2>1, <2>2 DEF Mirrored, Present, InArray
<1>6. Distinct(string)
  BY <1>2 DEF Distinct
<1>7. Refined
  BY <1>1, <1>2, <1>5, <1>6 DEF Refined, Mapped, Traversing
<1>8. Names(string, t) = {}
  BY <1>5 DEF Names
<1>9. Fields = {}
  BY <1>7, <1>8, RefinedFields DEF FieldsNamed
<1> QED
  BY <1>2, <1>7, <1>9 DEF Abstract!Empty, Abstract!Idle

\* In a program in which no two strings are made at one address, and no array
\* part outgrows integers left in nodes, a table is a map: lj_tab_set changes
\* the field of its key only, a rehash, lj_tab_reasize and a string that is freed
\* change none, and lj_tab_next visits every field once, also while fields are
\* cleared.
THEOREM TablesAreMaps == Spec /\ OwnAddresses /\ Steady => IsAMap
<1>1. Init /\ OwnAddresses /\ Steady => Refined /\ Abstract!Empty
  BY RefinedInit
<1>2. Refined /\ [Next]_vars => Refined' /\ [Abstract!Operation]_(Abstract!tableVars)
  BY RefinedStep
<1> QED
  BY <1>1, <1>2, PTL DEF Spec, IsAMap

\* One store, in a table that is a map.
LEMMA StoreChanges ==
  ASSUME Refined, Refined', world' = world,
         NEW k \in world.keys, NEW nilled \in BOOLEAN, Assign(k, nilled)
  PROVE  Fields' = IF nilled THEN Fields \ {<<k, k>>} ELSE Fields \cup {<<k, k>>}
<1> DEFINE N == Names(string, t)
           M == Names(string', t')
<1>1. Fields = {<<j, j>> : j \in N} /\ Fields' = {<<j, j>> : j \in M}
  BY RefinedFields, RefinedFieldsNext DEF FieldsNamed
<1>2. M = IF nilled THEN N \ {k} ELSE N \cup {k}
  BY AssignMaps DEF Refined
<1> HIDE DEF N, M
<1> QED
  BY <1>1, <1>2

\* In such a program what lj_tab_set was given is found by lj_tab_get, and no
\* other field is changed by it, after any number of moves and rehashes.
THEOREM StoresAreKept == Spec /\ OwnAddresses /\ Steady => StoresAreFound
<1>1. Init /\ OwnAddresses /\ Steady => Refined
  BY RefinedInit
<1>2. Refined /\ [Next]_vars =>
        /\ Refined'
        /\ [\A k \in world.keys : /\ Put(k) => Fields' = Fields \cup {<<k, k>>}
                                  /\ Unset(k) => Fields' = Fields \ {<<k, k>>}]_vars
  <2> SUFFICES ASSUME Refined, [Next]_vars
               PROVE  /\ Refined'
                      /\ \A k \in world.keys :
                           /\ Put(k) => Fields' = Fields \cup {<<k, k>>}
                           /\ Unset(k) => Fields' = Fields \ {<<k, k>>}
    OBVIOUS
  <2>1. Refined' /\ world' = world
    BY RefinedKeeps
  <2>2. ASSUME NEW k \in world.keys, Put(k)
        PROVE  Fields' = Fields \cup {<<k, k>>}
    BY <2>1, <2>2, StoreChanges DEF Put
  <2>3. ASSUME NEW k \in world.keys, Unset(k)
        PROVE  Fields' = Fields \ {<<k, k>>}
    BY <2>1, <2>3, StoreChanges DEF Unset
  <2> QED
    BY <2>1, <2>2, <2>3
<1> QED
  BY <1>1, <1>2, PTL DEF Spec, StoresAreFound
=============================================================================
