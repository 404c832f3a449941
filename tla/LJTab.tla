-------------------------------- MODULE LJTab --------------------------------
(***************************************************************************)
(* The tables of lj_tab.c: an array part, and a hash part of nodes that    *)
(* are chained in Brent's variation of coalesced hashing, with a pointer   *)
(* below which free nodes are looked for; counting and resizing when there *)
(* is none; traversal and length; and the cache of new keys that the       *)
(* parser puts before the template of a table constructor.                 *)
(*                                                                         *)
(* A string key is an address.  A node whose value is nil keeps its key,   *)
(* the collector does not mark it, and the address may be that of another  *)
(* string, with another hash, before the node is used again.               *)
(*                                                                         *)
(* An operator whose comment starts with "Wrong:" is not part of the       *)
(* model, see LJGC.                                                        *)
(***************************************************************************)
EXTENDS Naturals, Sequences, FiniteSets, FiniteSetsExt

CONSTANTS
  Str,         \* addresses of strings
  MaxInt,      \* bound: integer keys
  Hashes,      \* bound: hash values
  IntHash,     \* those of the integer keys
  Null,        \* the null pointer
  Nil, Self,   \* nil, and the template itself as a value
  Idle, Error, \* no traversal, and one that has raised an error
  Programs     \* bounds on what programs do

IntKey == 1 .. MaxInt
Key == Str \cup IntKey
ASSUME Sorts ==
  /\ MaxInt \in Nat \ {0} /\ Hashes \subseteq Nat
  /\ IntHash \in [IntKey -> Hashes]
  /\ Str \cap Nat = {} /\ {Nil, Self, Idle, Error} \cap Key = {}
  /\ Nil # Self /\ Idle # Error /\ Null \notin Nat
  /\ Programs \subseteq
       [keys : SUBSET Key,
        reuse : BOOLEAN,      \* strings are collected, others take their addresses
        items : Nat,          \* the items of its table constructor ...
        repeated : BOOLEAN]   \* ... and whether a key is there twice

VARIABLES
  prog,     \* the program that runs
  phase,    \* "parse", "template" once the parser has made one, then "run"
  tab,      \* the table: asize, array, size of the hash part, node, freetop; broken when a null
            \* pointer is followed, or a resized table is full
  hash,     \* the hash of the string at each address
  cache,    \* t->cache
  args,     \* of the parser: the next positional item, the other items so far,
            \* and whether the last one is a call
  \* history
  content,  \* the keys that the program has given a value; each has one of its own
  iter,     \* the last key lua_next has returned
  due       \* the keys that it is to return yet

vars == <<prog, phase, tab, hash, cache, args, content, iter, due>>

-----------------------------------------------------------------------------
(* Looking up *)

FreeNode == [key |-> Nil, val |-> Nil, next |-> Null]

Hash(h, k) == IF k \in IntKey THEN IntHash[k] ELSE h[k]
\* hashkey: the main position of k
Main(h, T, k) == Hash(h, k) % T.size
\* the nodes of the chain through node i, from there on, and null pointers behind them
Chain(T, i) ==
  LET c[m \in 0 .. T.size] ==
        IF m = 0 THEN i ELSE IF c[m - 1] = Null THEN Null ELSE T.node[c[m - 1]].next
  IN  c
\* the first of the nodes in hits that is on the chain through node i, or Null
First(T, i, hits) ==
  LET c == Chain(T, i)
      at == {m \in 0 .. T.size : c[m] \in hits}
  IN  IF at = {} THEN Null ELSE c[Min(at)]
Find(h, T, k) ==
  IF T.size = 0 THEN Null ELSE First(T, Main(h, T, k), {n \in DOMAIN T.node : T.node[n].key = k})
InArray(T, k) == k \in IntKey /\ k < T.asize
\* lj_tab_get
Get(h, T, k) ==
  IF InArray(T, k) THEN T.array[k]
  ELSE IF Find(h, T, k) = Null THEN Nil ELSE T.node[Find(h, T, k)].val

-----------------------------------------------------------------------------
(* Inserting *)

\* the free nodes that lj_tab_newkey finds
FreeNodes(T) == {f \in 0 .. T.freetop - 1 : T.node[f].key = Nil}
\* lj_tab_newkey has to rehash
Full(h, T, k) ==
  T.size = 0 \/ (T.node[Main(h, T, k)].val # Nil /\ FreeNodes(T) = {})
\* of node n, in the chain of its key
Predecessor(h, T, n) ==
  First(T, Main(h, T, T.node[n].key), {p \in DOMAIN T.node : T.node[p].next = n})
\* Wrong: the free node is not linked into the chain.
NewKey_unlinked(h, T, k, v) ==
  LET n == IF T.node[Main(h, T, k)].val = Nil THEN Main(h, T, k) ELSE Max(FreeNodes(T))
  IN  [T EXCEPT !.node[n] = [key |-> k, val |-> v, next |-> @.next]]
\* lj_tab_newkey of a table that has room, and a value for the key: into the main
\* position n, from which a node that does not belong there moves to the free node f,
\* or into f when it does
NewKey(h, T, k, v) ==
  LET n == Main(h, T, k)
      f == Max(FreeNodes(T))
      p == Predecessor(h, T, n)
  IN  IF T.node[n].val = Nil
      THEN [T EXCEPT !.node[n] = [key |-> k, val |-> v, next |-> @.next]]
      ELSE IF Main(h, T, T.node[n].key) = n
      THEN [T EXCEPT !.node[f] = [key |-> k, val |-> v, next |-> T.node[n].next],
                     !.node[n].next = f, !.freetop = f]
      ELSE IF p = Null THEN [T EXCEPT !.broken = TRUE]
      ELSE [T EXCEPT !.node[f] = T.node[n], !.node[p].next = f,
                     !.node[n] = [key |-> k, val |-> v, next |-> Null], !.freetop = f]
\* lj_tab_set and the store, where a rehash is not foreseen
Put(h, T, k, v) ==
  IF T.broken THEN T
  ELSE IF InArray(T, k) THEN [T EXCEPT !.array[k] = v]
  ELSE IF Find(h, T, k) # Null
  THEN [T EXCEPT !.node[Find(h, T, k)].val = v]
  ELSE IF Full(h, T, k) THEN [T EXCEPT !.broken = TRUE] ELSE NewKey(h, T, k, v)

-----------------------------------------------------------------------------
(* Resizing *)

\* lj_tab_new
Empty(asize, size) ==
  [asize |-> asize, array |-> [i \in 0 .. asize - 1 |-> Nil],
   size |-> size, node |-> [i \in 0 .. size - 1 |-> FreeNode], freetop |-> size, broken |-> FALSE]

\* array slots that a smaller array does not have
Moved(T, asize) == IF asize < T.asize THEN T.asize - asize ELSE 0
\* Wrong: the last node is not inserted again.
Again_butlast(T, asize, j) ==
  LET m == Moved(T, asize)
  IN  IF j <= m THEN [key |-> asize + j - 1, val |-> T.array[asize + j - 1]]
      ELSE IF j = m + T.size THEN FreeNode ELSE T.node[m + T.size - j]
\* the j-th value that lj_tab_resize inserts again, with its key: array slots from asize on,
\* then the nodes, from the last to the first
Again(T, asize, j) ==
  LET m == Moved(T, asize)
  IN  IF j <= m THEN [key |-> asize + j - 1, val |-> T.array[asize + j - 1]]
      ELSE T.node[m + T.size - j]
lj_tab_resize(h, T, asize, size) ==
  LET new == [Empty(asize, size) EXCEPT
                !.array = [i \in 0 .. asize - 1 |-> IF i < T.asize THEN T.array[i] ELSE Nil]]
      n == Moved(T, asize) + T.size
      after[j \in 0 .. n] ==
        IF j = 0 THEN new
        ELSE LET p == Again(T, asize, j)
             IN  IF p.val = Nil THEN after[j - 1] ELSE Put(h, after[j - 1], p.key, p.val)
  IN  after[n]

Pow2[n \in Nat] == IF n = 0 THEN 1 ELSE 2 * Pow2[n - 1]
\* hsize2hbits
HashSize(n) == IF n = 0 THEN 0 ELSE Min({s \in {Pow2[b] : b \in 1 .. n} : s >= n})
\* the size of a hash part that takes n keys and a new one
Room(n) == HashSize(1 + n)

\* rehashtab: the integer keys there are, with the new key k, decide on the array:
\* the largest power of two a fourth of whose slots are taken, countint's bins
\* being (2^b, 2^(b+1)]
rehashtab(h, T, k) ==
  LET used == {i \in 0 .. T.asize - 1 : T.array[i] # Nil}
      nodes == {i \in 0 .. T.size - 1 : T.node[i].val # Nil}
      ints == used \cup (({T.node[i].key : i \in nodes} \cup {k}) \cap IntKey)
      upto(m) == Cardinality({i \in ints : i <= m})
      fits == {b \in 0 .. MaxInt :
                 /\ \E i \in ints : i <= Pow2[b + 1] /\ (b > 0 => i > Pow2[b])
                 /\ 2 * upto(Pow2[b + 1]) > Pow2[b]}
      asize == IF fits = {} THEN 0 ELSE Pow2[Max(fits) + 1] + 1
      na == IF fits = {} THEN 0 ELSE upto(Pow2[Max(fits) + 1])
  IN  lj_tab_resize(h, T, asize, Room(Cardinality(used) + Cardinality(nodes) - na))

\* lj_tab_newkey
Insert(h, T, k, v) ==
  IF Full(h, T, k) THEN Put(h, rehashtab(h, T, k), k, v) ELSE NewKey(h, T, k, v)
\* lj_tab_set and the store
Set(h, T, k, v) ==
  IF InArray(T, k) \/ Find(h, T, k) # Null THEN Put(h, T, k, v) ELSE Insert(h, T, k, v)
\* lj_tab_reasize
Reasized(h, T, asize) == lj_tab_resize(h, T, asize, T.size)

-----------------------------------------------------------------------------
(* Length *)

IsNil(h, T, i) == i \notin IntKey \/ Get(h, T, i) = Nil
\* both searches, in at most j halvings: i is taken (or zero), j is free
Search(i, j, free) ==
  LET s[n \in 0 .. j] ==
        IF n = 0 THEN <<i, j>>
        ELSE LET lo == s[n - 1][1]
                 hi == s[n - 1][2]
                 m == (lo + hi) \div 2
             IN  IF hi - lo <= 1 THEN <<lo, hi>> ELSE IF m \in free THEN <<lo, m>> ELSE <<m, hi>>
  IN  s[j][1]
\* Wrong: it doubles once less.
unbound_search_short(h, T, j0) == j0
\* the doublings of j, until a free one is found
unbound_search(h, T, j0) ==
  LET at[n \in 0 .. MaxInt] == IF n = 0 THEN j0 + 1 ELSE 2 * at[n - 1]
      last == Min({n \in 0 .. MaxInt : IsNil(h, T, at[n])})
  IN  Search(IF last = 0 THEN j0 ELSE at[last - 1], at[last], {m \in 1 .. at[last] : IsNil(h, T, m)})
lj_tab_len(h, T) ==
  IF T.asize > 1 /\ T.array[T.asize - 1] = Nil
  THEN Search(1, T.asize, {m \in 1 .. T.asize : T.array[m - 1] = Nil}) - 1
  ELSE LET j == IF T.asize > 0 THEN T.asize - 1 ELSE 0
       IN  IF T.size = 0 THEN j ELSE unbound_search(h, T, j)

-----------------------------------------------------------------------------
(* Traversal *)

\* Wrong: hash keys are not told from array keys.
keyindex_flat(h, T, k) == IF InArray(T, k) THEN k ELSE Find(h, T, k)
keyindex(h, T, k) == IF InArray(T, k) THEN k ELSE T.asize + Find(h, T, k)
\* the key at an index, if it has a value
KeyAt(T, i) ==
  IF i < T.asize THEN (IF T.array[i] = Nil THEN Nil ELSE i)
  ELSE (IF T.node[i - T.asize].val = Nil THEN Nil ELSE T.node[i - T.asize].key)
\* Wrong: the last node is left out.
Following_short(T, i) ==
  LET hits == {j \in i .. T.asize + T.size - 2 : KeyAt(T, j) # Nil}
  IN  IF hits = {} THEN Nil ELSE KeyAt(T, Min(hits))
\* the next one from index i on
Following(T, i) ==
  LET hits == {j \in i .. T.asize + T.size - 1 : KeyAt(T, j) # Nil}
  IN  IF hits = {} THEN Nil ELSE KeyAt(T, Min(hits))

-----------------------------------------------------------------------------
(* Table constructors *)

NoArgs == [narr |-> 1, nhash |-> 0, vcall |-> FALSE]
Init ==
  /\ prog \in Programs
  /\ phase = "parse" /\ tab = Empty(0, 0) /\ cache = <<>> /\ args = NoArgs
  /\ hash \in [prog.keys \cap Str -> Hashes]
  /\ content = {} /\ iter = Idle /\ due = {}

\* an item of expr_table: v is k for a constant, Nil for the constant nil, Self for
\* any other expression; it goes into the template, the hash part of which is empty
Item(k, v, positional) ==
  LET a == IF positional
           THEN [args EXCEPT !.narr = @ + 1, !.vcall = (v = Self)]
           ELSE [args EXCEPT !.nhash = @ + 1, !.vcall = FALSE]
      T == IF phase = "template" THEN tab
           ELSE Empty(IF a.narr > 1 THEN a.narr ELSE 0, HashSize(a.nhash))
  IN  /\ phase # "run" /\ args.narr + args.nhash <= prog.items
      /\ positional => k = args.narr
      /\ prog.repeated \/ k \notin content \cup {cache[i].key : i \in DOMAIN cache}
      /\ args' = a
      /\ content' = IF v = k THEN content \cup {k} ELSE content \ {k}
      /\ IF v = Self /\ k \notin Str
         THEN UNCHANGED <<phase, tab, cache>>
         ELSE /\ phase' = "template"
              /\ IF InArray(T, k)
                 THEN tab' = [T EXCEPT !.array[k] = v] /\ UNCHANGED cache
                 ELSE tab' = T /\ cache' = Append(cache, [key |-> k, val |-> v])
      /\ UNCHANGED <<prog, hash, iter, due>>

\* lj_tab_commit_cache
Committed(T) ==
  LET room == lj_tab_resize(hash, T, T.asize,
                            HashSize(Max({Len(cache), IF T.size = 0 THEN 1 ELSE T.size})))
      after[j \in 0 .. Len(cache)] ==
        IF j = 0 THEN room ELSE Insert(hash, after[j - 1], cache[j].key, cache[j].val)
  IN  after[Len(cache)]
\* the dummy values, once all resizes are done
Fixed(T) ==
  [T EXCEPT !.node = [i \in DOMAIN @ |-> IF @[i].val = Self THEN [@[i] EXCEPT !.val = Nil]
                                          ELSE @[i]]]
\* the end of expr_table, and BC_TNEW or BC_TDUP
expr_table_end ==
  LET T == Committed(tab)
  IN  /\ phase # "run" /\ phase' = "run"
      /\ tab' = IF phase = "parse"
                THEN Empty(IF args.narr = 1 THEN 0 ELSE Max({args.narr, 3}), HashSize(args.nhash))
                ELSE IF T.broken THEN T
                ELSE Fixed(IF args.narr > 1 /\ T.asize < args.narr
                           THEN Reasized(hash, T, args.narr) ELSE T)
      /\ cache' = <<>>
      /\ args' = IF args.vcall THEN args ELSE NoArgs
      /\ UNCHANGED <<prog, hash, content, iter, due>>

Running == phase = "run" /\ ~tab.broken

\* the results of the call that is the last item
BC_TSETM(n) ==
  LET i == args.narr - 1
      T == IF n > 0 /\ i + n > tab.asize THEN Reasized(hash, tab, i + n + 1) ELSE tab
      set == i .. i + n - 1
  IN  /\ Running /\ args.vcall /\ set \subseteq prog.keys
      /\ tab' = [T EXCEPT !.array = [j \in DOMAIN @ |-> IF j \in set THEN j ELSE @[j]]]
      /\ content' = content \cup set /\ args' = NoArgs
      /\ UNCHANGED <<prog, phase, hash, cache, iter, due>>

-----------------------------------------------------------------------------
(* The running program *)

\* lua_next is not called again
Stopped == iter' = Idle /\ due' = {}

\* a store, where assigning to a field that does not exist ends a traversal
lj_tab_set(k, v) ==
  /\ Running
  /\ tab' = Set(hash, tab, k, v)
  /\ content' = IF v = k THEN content \cup {k} ELSE content \ {k}
  /\ IF k \in content THEN iter' = iter /\ due' = due \cap content' ELSE Stopped
  /\ UNCHANGED <<prog, phase, hash, cache, args>>

lj_tab_clear ==
  /\ Running /\ content # {}
  /\ tab' = Empty(tab.asize, tab.size) /\ content' = {} /\ Stopped
  /\ args' = NoArgs
  /\ UNCHANGED <<prog, phase, hash, cache>>

lj_tab_next ==
  LET start == iter = Idle
      lost == ~start /\ ~InArray(tab, iter) /\ Find(hash, tab, iter) = Null
      key == Following(tab, IF start THEN 0 ELSE keyindex(hash, tab, iter) + 1)
      todo == IF start THEN content ELSE due
  IN  /\ Running /\ iter # Error
      /\ iter' = IF lost THEN Error ELSE IF key = Nil THEN Idle ELSE key
      /\ due' = todo \ {iter'}
      /\ args' = NoArgs
      /\ UNCHANGED <<prog, phase, tab, hash, cache, content>>

\* gc_traverse_tab and gc_sweepstr: the string is neither marked by this table nor on
\* the stack; another one takes its address
Reuse(s, h) ==
  /\ Running /\ prog.reuse /\ s \notin content \cup {iter}
  /\ hash' = [hash EXCEPT ![s] = h] /\ args' = NoArgs
  /\ UNCHANGED <<prog, phase, tab, cache, content, iter, due>>

Next ==
  \/ \E k \in prog.keys, positional \in BOOLEAN :
       \E v \in {k, Nil, Self} : Item(k, v, positional)
  \/ expr_table_end
  \/ \E n \in 0 .. MaxInt : BC_TSETM(n)
  \/ \E k \in prog.keys : \E v \in {k, Nil} : lj_tab_set(k, v)
  \/ lj_tab_clear
  \/ lj_tab_next
  \/ \E s \in DOMAIN hash, h \in Hashes : Reuse(s, h)
Spec == Init /\ [][Next]_vars

-----------------------------------------------------------------------------
(* Properties *)

Node == [key : Key \cup {Nil}, val : Key \cup {Nil}, next : (0 .. tab.size - 1) \cup {Null}]
\* Type correctness of the table, the parser's state, the hashes and the traversal.
TypeOK ==
  /\ prog \in Programs /\ phase \in {"parse", "template", "run"}
  /\ tab.size = 0 \/ \E b \in 1 .. tab.size : tab.size = Pow2[b]
  /\ tab.array \in [0 .. tab.asize - 1 -> IntKey \cup {Nil}]
  /\ tab.node \in [0 .. tab.size - 1 -> Node]
  /\ tab.freetop \in 0 .. tab.size
  /\ hash \in [prog.keys \cap Str -> Hashes]
  /\ phase # "template" => cache = <<>>
  /\ content \subseteq prog.keys /\ due \subseteq content
  /\ iter \in Key \cup {Idle, Error}

Live(i) == tab.node[i].val # Nil
\* Looking a key up finds the value the program has stored last, and nil when there is
\* none: through template caches, collisions, moves of nodes and rehashes.
Faithful == Running => \A k \in prog.keys : Get(hash, tab, k) = IF k \in content THEN k ELSE Nil
\* Every node with a value is on the chain of its key, and no key that belongs into the
\* array is in a node: lj_tab_newkey never leaves a node behind.
KeysReachable ==
  Running => \A i \in DOMAIN tab.node : Live(i) =>
    Find(hash, tab, tab.node[i].key) # Null /\ ~InArray(tab, tab.node[i].key)
\* No key has two nodes with values.
KeysUnique ==
  Running => \A i, j \in DOMAIN tab.node :
    Live(i) /\ Live(j) /\ tab.node[i].key = tab.node[j].key => i = j
\* A table that has just been resized has room for what is inserted again and for the new
\* key, and the search for the predecessor of a node that moves does not leave its chain.
RehashFits == ~tab.broken
\* The length is a border: zero or a key with a value, and the next one has none.
LenIsBorder ==
  Running => LET n == lj_tab_len(hash, tab)
            IN  (n = 0 \/ n \in content) /\ n + 1 \notin content
\* The nodes are sound after every store, rehash, clearing and reuse of an address.
NodesSound == TypeOK /\ KeysReachable /\ KeysUnique /\ RehashFits
\* A traversal that does not create fields never fails, returns every key that keeps its value
\* (when it ends, none is due), none twice, and none without a value.
TraversalExact ==
  [][/\ iter' # Error /\ (iter' = Idle => due' = {})
     /\ iter' \in Key /\ iter' # iter => iter' \in (IF iter = Idle THEN content ELSE due)]_vars
=============================================================================
