----------------------------- MODULE LJTabProofs ------------------------------
(* Tables do what the program believes they do, for any keys and hashes, and for every       *)
(* program whose strings keep their addresses and whose constructors name no field twice.    *)
EXTENDS LJTab, TLAPS, NaturalsInduction, WellFoundedInduction, FiniteSetTheorems

(***************************************************************************)
(* The inductive invariant                                                 *)
(***************************************************************************)

\* What a program may not do, since the code does not survive it (README, section 4).
Plain(p) == ~p.reuse /\ ~p.repeated

Slots(T) == 0 .. T.size - 1
\* keys that have a hash
HKeys(h) == IntKey \cup DOMAIN h
NodeKeys(T) == {T.node[i].key : i \in Slots(T)} \ {Nil}
\* the nodes of the chain through node i, from there on
On(T, i) ==
  {j \in Slots(T) : \A S \in SUBSET Slots(T) :
     i \in S /\ (\A x \in S : T.node[x].next = Null \/ T.node[x].next \in S) => j \in S}
\* a value of key k: the program's, none, or that of a template
ValOK(k, v) == v \in {k, Nil} \/ (v = Self /\ k \in Str)
SizeOK(s) == s = 0 \/ \E b \in 1 .. s : s = Pow2[b]

Entry(T) == [key : Key \cup {Nil}, val : Key \cup {Nil, Self}, next : Slots(T) \cup {Null}]
IsTab(T) ==
  /\ T \in [asize : Nat, array : {T.array}, size : Nat, node : {T.node}, freetop : Nat,
             broken : {FALSE}]
  /\ T.freetop \in 0 .. T.size
  /\ T.array \in [0 .. T.asize - 1 -> IntKey \cup {Nil}]
  /\ T.node \in [Slots(T) -> Entry(T)]
\* no slot and no node has a value that is not its key's
Valued(T) ==
  /\ \A i \in 0 .. T.asize - 1 : T.array[i] \in {i, Nil}
  /\ \A i \in Slots(T) : ValOK(T.node[i].key, T.node[i].val)
\* chains end, and do not run together
Linked(T) ==
  /\ \A i \in Slots(T) : T.node[i].next # Null =>
       T.node[i].key # Nil /\ T.node[T.node[i].next].key # Nil
  /\ \A i, j \in Slots(T) : T.node[i].next = T.node[j].next /\ T.node[i].next # Null => i = j
  /\ \E rank \in [Slots(T) -> Int] : \A i \in Slots(T) :
       T.node[i].next # Null => rank[T.node[i].next] < rank[i]
\* every key is in one node; it is on the chain that starts at its main position, and the node
\* there, which may be a dead one, belongs there as well
Placed(h, T) ==
  /\ \A i, j \in Slots(T) : T.node[i].key = T.node[j].key /\ T.node[i].key # Nil => i = j
  /\ \A i \in Slots(T) : T.node[i].key # Nil =>
       LET k == T.node[i].key
           m == Main(h, T, k)
       IN  /\ k \in HKeys(h) /\ ~InArray(T, k)
           /\ i \in On(T, m) /\ T.node[m].key # Nil /\ Main(h, T, T.node[m].key) = m
\* unused nodes are empty, and below freetop
FreeBelow(T) ==
  /\ \A i \in Slots(T) : T.node[i].key = Nil => T.node[i] = FreeNode
  /\ \A i \in Slots(T) : T.freetop <= i => T.node[i].key # Nil
Sound(h, T) == IsTab(T) /\ SizeOK(T.size) /\ Valued(T) /\ Linked(T) /\ Placed(h, T) /\ FreeBelow(T)

Hashable(h) == DOMAIN h \subseteq Str /\ \A s \in DOMAIN h : h[s] \in Hashes

\* while the constructor is parsed, the template's new keys are in the cache
Template ==
  phase # "run" =>
    /\ Sound(hash, tab) /\ tab.node = [i \in Slots(tab) |-> FreeNode]
    /\ cache \in Seq([key : prog.keys, val : Key \cup {Nil, Self}])
    /\ \A i, j \in DOMAIN cache : cache[i].key = cache[j].key => i = j
    /\ \A i \in DOMAIN cache : ValOK(cache[i].key, cache[i].val) /\ ~InArray(tab, cache[i].key)
    /\ content = {i \in IntKey : InArray(tab, i) /\ tab.array[i] = i}
                   \cup {cache[j].key : j \in {m \in DOMAIN cache : cache[m].val = cache[m].key}}
    /\ iter = Idle /\ due = {}
    /\ phase = "parse" => tab = Empty(0, 0) /\ cache = <<>>
ArgsSound ==
  /\ args \in [narr : Nat \ {0}, nhash : Nat, vcall : BOOLEAN]
  /\ args.vcall => args.narr > 1 /\ iter = Idle
\* then the table is what the program thinks it is
Stored ==
  phase = "run" =>
    /\ Sound(hash, tab)
    /\ \A x \in HKeys(hash) : Get(hash, tab, x) = IF x \in content THEN x ELSE Nil
\* and what is due are the fields behind the one that lua_next has returned
Traversed ==
  phase = "run" =>
    /\ iter \in HKeys(hash) \cup {Idle}
    /\ iter = Idle => due = {}
    /\ iter # Idle =>
         /\ InArray(tab, iter) \/ Find(hash, tab, iter) # Null
         /\ due = {x \in content : keyindex(hash, tab, x) > keyindex(hash, tab, iter)}
States ==
  /\ prog \in Programs /\ phase \in {"parse", "template", "run"}
  /\ hash \in [prog.keys \cap Str -> Hashes]
  /\ phase # "template" => cache = <<>>
  /\ content \subseteq prog.keys /\ due \subseteq content
IInv == States /\ ArgsSound /\ Template /\ Stored /\ Traversed

-----------------------------------------------------------------------------
(* Numbers, and recursive functions                                            *)

\* A set of numbers that is not empty has a least one.
LEMMA LeastOf ==
  ASSUME NEW S, S \subseteq Nat, S # {}
  PROVE  /\ Min(S) \in S /\ \A m \in S : Min(S) <= m
<1>. DEFINE R == OpToRel(<, Nat)
<1>1. R = {p \in Nat \X Nat : p[1] < p[2]}
  BY DEF OpToRel
<1>2. IsWellFoundedOn(R, Nat)
  BY NatLessThanWellFounded
<1>. HIDE DEF R
<1>3. PICK n \in S : \A m \in S : ~(<<m, n>> \in R)
  BY <1>2, WFMin, Zenon
<1>4. \A m \in S : ~(m < n)
  <2>. SUFFICES ASSUME NEW m \in S, m < n PROVE FALSE
    OBVIOUS
  <2>1. <<m, n>> \in R
    BY <1>1
  <2>. QED BY <1>3, <2>1
<1>5. \E x \in S : \A y \in S : x =< y
  <2>1. ASSUME NEW m \in S PROVE n <= m
    BY <1>4, <2>1
  <2>. QED BY <2>1
<1>. HIDE DEF R
<1>. QED BY <1>5 DEF Min

\* A finite set of numbers has a greatest one.
LEMMA GreatestOf ==
  ASSUME NEW n \in Nat, NEW S \in SUBSET (0 .. n), S # {}
  PROVE  /\ Max(S) \in S /\ \A m \in S : m <= Max(S)
<1>. DEFINE D == {n - m : m \in S}
<1>1. D \subseteq Nat
  <2>1. ASSUME NEW m \in S PROVE n - m \in Nat
    <3>1. m \in 0 .. n
      OBVIOUS
    <3>. QED BY <3>1
  <2>. QED BY <2>1
<1>0. D # {}
  OBVIOUS
<1>. HIDE DEF D
<1>2. Min(D) \in D /\ \A d \in D : Min(D) <= d
  BY <1>0, <1>1, LeastOf
<1>3. PICK m \in S : \A x \in S : n - m <= n - x
  BY <1>2 DEF D
<1>4. ASSUME NEW x \in S PROVE m >= x
  <2>1. x \in 0 .. n /\ m \in 0 .. n /\ n - m <= n - x
    BY <1>3
  <2>. QED BY <2>1
<1>5. \E x \in S : \A y \in S : x >= y
  BY <1>4
<1>6. Max(S) \in S /\ \A y \in S : Max(S) >= y
  <2>. HIDE DEF D
  <2>. QED BY <1>5 DEF Max
<1>. QED BY <1>6

\* A function can be defined by what it is at 0 and by a step of F.
Iterated(c, N, U, F, x) ==
  c \in [0 .. N -> U] /\ c[0] = x /\ \A m \in 1 .. N : c[m] = F[c[m - 1]]
LEMMA Iterates ==
  ASSUME NEW N \in Nat, NEW U, NEW F \in [U -> U], NEW x \in U
  PROVE  \E c : Iterated(c, N, U, F, x)
<1>. USE DEF Iterated
<1>. DEFINE P(n) == \E c \in [0 .. n -> U] : c[0] = x /\ \A m \in 1 .. n : c[m] = F[c[m - 1]]
            S == {n \in Nat : ~P(n)}
<1>1. S = {}
  <2>. SUFFICES ASSUME S # {} PROVE FALSE
    OBVIOUS
  <2>0. S \subseteq Nat
    OBVIOUS
  <2>1. Min(S) \in S /\ \A m \in S : Min(S) <= m
    <3>. HIDE DEF S
    <3>. QED BY <2>0, LeastOf
  <2>. DEFINE n == Min(S)
  <2>. HIDE DEF S, n
  <2>2. n \in S /\ n \in Nat /\ \A m \in S : n <= m
    BY <2>0, <2>1 DEF n
  <2>3. P(0)
    <3>. DEFINE c == [m \in 0 .. 0 |-> x]
    <3>. c \in [0 .. 0 -> U] /\ c[0] = x /\ \A m \in 1 .. 0 : c[m] = F[c[m - 1]]
      OBVIOUS
    <3>. QED OBVIOUS
  <2>4. n # 0
    BY <2>2, <2>3 DEF S
  <2>5. n - 1 \in Nat /\ n - 1 \notin S
    BY <2>2, <2>4
  <2>6. PICK c \in [0 .. n - 1 -> U] : c[0] = x /\ \A m \in 1 .. n - 1 : c[m] = F[c[m - 1]]
    BY <2>5 DEF S
  <2>. DEFINE d == [m \in 0 .. n |-> IF m < n THEN c[m] ELSE F[c[n - 1]]]
  <2>7. d \in [0 .. n -> U]
    BY <2>2, <2>5, <2>6
  <2>8. d[0] = x
    BY <2>2, <2>4, <2>6
  <2>9. ASSUME NEW m \in 1 .. n PROVE d[m] = F[d[m - 1]]
    <3>1. CASE m < n
      BY <2>2, <2>6, <3>1
    <3>2. CASE m = n
      BY <2>2, <2>5, <2>6, <3>2
    <3>. QED BY <3>1, <3>2, <2>2
  <2>10. P(n)
    BY <2>7, <2>8, <2>9
  <2>. QED BY <2>2, <2>10 DEF S
<1>. QED BY <1>1

Doubles(c, N, x) ==
  c \in [0 .. N -> Nat] /\ c[0] = x /\ \A m \in 1 .. N : c[m] = 2 * c[m - 1]
LEMMA Doubled ==
  ASSUME NEW N \in Nat, NEW x \in Nat
  PROVE  \E c : Doubles(c, N, x)
<1>1. PICK F \in [Nat -> Nat] : \A y \in Nat : F[y] = 2 * y
  <2>1. [y \in Nat |-> 2 * y] \in [Nat -> Nat]
    OBVIOUS
  <2>. QED BY <2>1
<1>2. PICK c : Iterated(c, N, Nat, F, x)
  BY Iterates
<1>3. ASSUME NEW m \in 1 .. N PROVE c[m] = 2 * c[m - 1]
  <2>1. c[m - 1] \in Nat
    BY <1>2 DEF Iterated
  <2>. QED BY <1>1, <1>2, <2>1 DEF Iterated
<1>. QED BY <1>2, <1>3 DEF Iterated, Doubles

LEMMA Pow2Is ==
  /\ Pow2[0] = 1
  /\ \A n \in Nat : Pow2[n] \in Nat /\ Pow2[n] > n /\ Pow2[n + 1] = 2 * Pow2[n]
<1>. DEFINE C(n) == CHOOSE c : Doubles(c, n, 1)
            d == [n \in Nat |-> C(n)[n]]
<1>1. ASSUME NEW n \in Nat
      PROVE  C(n) \in [0 .. n -> Nat] /\ C(n)[0] = 1 /\ \A m \in 1 .. n : C(n)[m] = 2 * C(n)[m - 1]
  <2>1. \E c : Doubles(c, n, 1)
    BY Doubled
  <2>2. Doubles(C(n), n, 1)
    BY <2>1
  <2>. HIDE DEF C
  <2>. QED BY <2>2 DEF Doubles
<1>. HIDE DEF C
\* two of them agree where both are defined
<1>2. ASSUME NEW n \in Nat, NEW m \in 0 .. n PROVE C(n)[m] = C(n + 1)[m]
  <2>. DEFINE S == {q \in 0 .. n : C(n)[q] # C(n + 1)[q]}
  <2>. SUFFICES ASSUME S # {} PROVE FALSE
    OBVIOUS
  <2>0. S \subseteq Nat
    OBVIOUS
  <2>1. Min(S) \in S /\ \A q \in S : Min(S) <= q
    <3>. HIDE DEF S
    <3>. QED BY <2>0, LeastOf
  <2>. DEFINE q == Min(S)
  <2>2. q \in 0 .. n /\ C(n)[q] # C(n + 1)[q]
    BY <2>1
  <2>3. q # 0
    <3>1. C(n)[0] = 1 /\ C(n + 1)[0] = 1
      BY <1>1
    <3>. HIDE DEF q
    <3>. QED BY <2>2, <3>1
  <2>4. q - 1 \in 0 .. n /\ q - 1 \notin S
    <3>. HIDE DEF q
    <3>1. q \in Nat
      BY <2>2
    <3>. QED BY <2>1, <2>2, <2>3, <3>1 DEF q
  <2>5. C(n)[q - 1] = C(n + 1)[q - 1]
    BY <2>4
  <2>. HIDE DEF S, q
  <2>6. C(n)[q] = 2 * C(n)[q - 1] /\ C(n + 1)[q] = 2 * C(n + 1)[q - 1]
    BY <1>1, <2>2, <2>3
  <2>. QED BY <2>2, <2>5, <2>6
<1>3. d[0] = 1 /\ \A n \in Nat : d[n] \in Nat /\ d[n + 1] = 2 * d[n]
  <2>1. ASSUME NEW n \in Nat PROVE d[n] \in Nat /\ d[n + 1] = 2 * d[n]
    <3>1. d[n] = C(n)[n] /\ d[n + 1] = C(n + 1)[n + 1]
      OBVIOUS
    <3>2. C(n + 1)[n + 1] = 2 * C(n + 1)[(n + 1) - 1]
      BY <1>1
    <3>3. (n + 1) - 1 = n /\ C(n)[n] = C(n + 1)[n]
      BY <1>2
    <3>4. C(n)[n] \in Nat
      BY <1>1
    <3>. QED BY <3>1, <3>2, <3>3, <3>4
  <2>2. d[0] = 1
    BY <1>1
  <2>. QED BY <2>1, <2>2
<1>4. d = [n \in Nat |-> IF n = 0 THEN 1 ELSE 2 * d[n - 1]]
  <2>1. ASSUME NEW n \in Nat PROVE d[n] = IF n = 0 THEN 1 ELSE 2 * d[n - 1]
    <3>. HIDE DEF d
    <3>1. CASE n = 0
      BY <1>3, <3>1
    <3>2. CASE n # 0
      <4>1. n - 1 \in Nat /\ (n - 1) + 1 = n
        BY <3>2
      <4>. QED BY <1>3, <3>2, <4>1
    <3>. QED BY <3>1, <3>2
  <2>2. d = [n \in Nat |-> d[n]]
    OBVIOUS
  <2>. QED BY <2>1, <2>2
<1>5. Pow2 = [n \in Nat |-> IF n = 0 THEN 1 ELSE 2 * Pow2[n - 1]]
  <2>. HIDE DEF d
  <2>. QED BY <1>4 DEF Pow2
<1>. HIDE DEF d
<1>6. Pow2[0] = 1 /\ \A n \in Nat : Pow2[n + 1] = 2 * Pow2[n]
  <2>1. ASSUME NEW n \in Nat PROVE Pow2[n + 1] = 2 * Pow2[n]
    <3>1. n + 1 \in Nat /\ n + 1 # 0 /\ (n + 1) - 1 = n
      OBVIOUS
    <3>. QED BY <1>5, <3>1
  <2>. QED BY <1>5, <2>1
<1>. DEFINE S == {n \in Nat : ~(Pow2[n] \in Nat /\ Pow2[n] > n)}
<1>7. S = {}
  <2>. SUFFICES ASSUME S # {} PROVE FALSE
    OBVIOUS
  <2>0. S \subseteq Nat
    OBVIOUS
  <2>1. Min(S) \in S /\ \A q \in S : Min(S) <= q
    <3>. HIDE DEF S
    <3>. QED BY <2>0, LeastOf
  <2>. DEFINE q == Min(S)
  <2>. HIDE DEF q
  <2>2. q \in S /\ q \in Nat /\ \A m \in S : q <= m
    BY <2>0, <2>1 DEF q
  <2>3. q # 0
    BY <1>6, <2>2
  <2>4. q - 1 \in Nat /\ q - 1 \notin S
    BY <2>2, <2>3
  <2>5. Pow2[q - 1] \in Nat /\ Pow2[q - 1] > q - 1 /\ Pow2[q] = 2 * Pow2[q - 1]
    <3>1. (q - 1) + 1 = q
      BY <2>2
    <3>. QED BY <1>6, <2>4, <3>1
  <2>. QED BY <2>2, <2>3, <2>5
<1>. QED BY <1>6, <1>7

LEMMA HashSizeIs ==
  ASSUME NEW n \in Nat
  PROVE  HashSize(n) \in Nat /\ HashSize(n) >= n /\ SizeOK(HashSize(n)) /\ (n # 0 => HashSize(n) # 0)
<1>1. CASE n = 0
  BY <1>1 DEF HashSize, SizeOK
<1>2. CASE n # 0
  <2>. DEFINE S == {s \in {Pow2[b] : b \in 1 .. n} : s >= n}
  <2>1. S \subseteq Nat
    BY Pow2Is
  <2>2. Pow2[n] \in S
    BY Pow2Is, <1>2
  <2>3. Min(S) \in S /\ HashSize(n) = Min(S)
    <3>. HIDE DEF S
    <3>1. Min(S) \in S
      BY <2>1, <2>2, LeastOf
    <3>. QED BY <3>1, <1>2 DEF S, HashSize
  <2>4. PICK b \in 1 .. n : Min(S) = Pow2[b] /\ Min(S) >= n
    BY <2>3
  <2>5. Pow2[b] \in Nat /\ b <= Pow2[b]
    BY Pow2Is
  <2>. HIDE DEF S
  <2>. QED BY <1>2, <2>3, <2>4, <2>5 DEF SizeOK
<1>. QED BY <1>1, <1>2

-----------------------------------------------------------------------------
(* Chains                                                                      *)

LEMMA NoNode ==
  ASSUME NEW T, IsTab(T)
  PROVE  Null \notin Slots(T) /\ Slots(T) \subseteq Nat /\ IsFiniteSet(Slots(T))
         /\ Cardinality(Slots(T)) = T.size
<1>0. T.size \in Nat
  BY DEF IsTab
<1>1. IsFiniteSet(0 .. T.size - 1)
      /\ Cardinality(0 .. T.size - 1) = IF 0 > T.size - 1 THEN 0 ELSE (T.size - 1) - 0 + 1
  BY <1>0, FS_Interval
<1>. QED BY <1>0, <1>1, Sorts DEF Slots

LEMMA OnIs ==
  ASSUME NEW T, IsTab(T), NEW i \in Slots(T)
  PROVE  /\ i \in On(T, i) /\ On(T, i) \subseteq Slots(T)
         /\ \A x \in On(T, i) : T.node[x].next # Null => T.node[x].next \in On(T, i)
<1>1. i \in On(T, i) /\ On(T, i) \subseteq Slots(T)
  BY DEF On
<1>2. ASSUME NEW x \in On(T, i), T.node[x].next # Null PROVE T.node[x].next \in On(T, i)
  <2>1. x \in Slots(T) /\ T.node[x].next \in Slots(T)
    BY <1>1, <1>2 DEF IsTab, Entry
  <2>2. ASSUME NEW S \in SUBSET Slots(T), i \in S,
               \A y \in S : T.node[y].next = Null \/ T.node[y].next \in S
        PROVE  T.node[x].next \in S
    <3>1. x \in S
      BY <2>2 DEF On
    <3>. QED BY <1>2, <2>2, <3>1
  <2>. QED BY <2>1, <2>2 DEF On
<1>. QED BY <1>1, <1>2

LEMMA OnLeast ==
  ASSUME NEW T, NEW i, NEW S \in SUBSET Slots(T), i \in S,
         \A x \in S : T.node[x].next = Null \/ T.node[x].next \in S
  PROVE  On(T, i) \subseteq S
BY DEF On

LEMMA ChainIs ==
  ASSUME NEW T, IsTab(T), NEW i \in Slots(T)
  PROVE  /\ Chain(T, i) \in [0 .. T.size -> Slots(T) \cup {Null}] /\ Chain(T, i)[0] = i
         /\ \A m \in 1 .. T.size : Chain(T, i)[m] =
              IF Chain(T, i)[m - 1] = Null THEN Null ELSE T.node[Chain(T, i)[m - 1]].next
<1>. DEFINE U == Slots(T) \cup {Null}
            Def(c) == [m \in 0 .. T.size |->
                         IF m = 0 THEN i ELSE IF c[m - 1] = Null THEN Null ELSE T.node[c[m - 1]].next]
<1>0. T.size \in Nat
  BY DEF IsTab
<1>1. PICK F \in [U -> U] : \A x \in U : F[x] = IF x = Null THEN Null ELSE T.node[x].next
  <2>1. [x \in U |-> IF x = Null THEN Null ELSE T.node[x].next] \in [U -> U]
    BY DEF IsTab, Entry
  <2>. HIDE DEF U
  <2>. QED BY <2>1
<1>2. PICK d : Iterated(d, T.size, U, F, i)
  <2>. i \in U
    OBVIOUS
  <2>. HIDE DEF U
  <2>. QED BY <1>0, Iterates
<1>3. d = Def(d)
  <2>1. d = [m \in 0 .. T.size |-> d[m]]
    BY <1>2 DEF Iterated
  <2>2. ASSUME NEW m \in 0 .. T.size
        PROVE  d[m] = IF m = 0 THEN i ELSE IF d[m - 1] = Null THEN Null ELSE T.node[d[m - 1]].next
    <3>1. CASE m = 0
      BY <1>2, <3>1 DEF Iterated
    <3>2. CASE m # 0
      <4>1. m \in 1 .. T.size /\ m - 1 \in 0 .. T.size
        BY <1>0, <3>2
      <4>2. d[m - 1] \in U /\ d[m] = F[d[m - 1]]
        BY <1>2, <4>1 DEF Iterated
      <4>. QED BY <1>1, <3>2, <4>2
    <3>. QED BY <3>1, <3>2
  <2>. HIDE DEF U
  <2>. QED BY <2>1, <2>2
<1>4. \E c : c = Def(c)
  <2>. HIDE DEF Def
  <2>. QED BY <1>3
<1>5. Chain(T, i) = CHOOSE c : c = Def(c)
  BY DEF Chain
<1>6. Chain(T, i) = Def(Chain(T, i))
  <2>. HIDE DEF Def
  <2>. QED BY <1>4, <1>5
<1>. DEFINE c == Chain(T, i)
<1>. HIDE DEF c
<1>7. c = Def(c)
  BY <1>6 DEF c
<1>8. c[0] = i
  BY <1>0, <1>7
<1>9. ASSUME NEW m \in 1 .. T.size PROVE c[m] = IF c[m - 1] = Null THEN Null ELSE T.node[c[m - 1]].next
  BY <1>0, <1>7
<1>10. ASSUME NEW m \in 0 .. T.size PROVE c[m] \in U
  <2>. DEFINE S == {n \in 0 .. T.size : c[n] \notin U}
  <2>. SUFFICES ASSUME S # {} PROVE FALSE
    OBVIOUS
  <2>0. S \subseteq Nat
    OBVIOUS
  <2>1. Min(S) \in S /\ \A q \in S : Min(S) <= q
    <3>. HIDE DEF S
    <3>. QED BY <2>0, LeastOf
  <2>. DEFINE q == Min(S)
  <2>. HIDE DEF q, S
  <2>2. q \in S /\ q \in Nat /\ q \in 0 .. T.size /\ c[q] \notin U /\ \A n \in S : q <= n
    BY <2>0, <2>1 DEF q, S
  <2>3. q # 0
    BY <1>8, <2>2
  <2>4. q \in 1 .. T.size /\ q - 1 \in 0 .. T.size /\ q - 1 \notin S
    BY <1>0, <2>2, <2>3
  <2>5. c[q - 1] \in U
    BY <2>4 DEF S
  <2>6. c[q] \in U
    BY <1>9, <2>4, <2>5 DEF IsTab, Entry
  <2>. QED BY <2>2, <2>6
<1>11. c \in [0 .. T.size -> U]
  <2>1. c = [m \in 0 .. T.size |-> c[m]]
    BY <1>7
  <2>. HIDE DEF U, Def
  <2>. QED BY <1>10, <2>1
<1>. QED BY <1>8, <1>9, <1>11 DEF c

\* A chain that never runs in circles is over after as many steps as there are nodes.
LEMMA ChainEnds ==
  ASSUME NEW T, IsTab(T), Linked(T), NEW i \in Slots(T)
  PROVE  Chain(T, i)[T.size] = Null
<1>. DEFINE c == Chain(T, i)
<1>0. T.size \in Nat
  BY DEF IsTab
<1>1. /\ c \in [0 .. T.size -> Slots(T) \cup {Null}] /\ c[0] = i
      /\ \A m \in 1 .. T.size : c[m] = IF c[m - 1] = Null THEN Null ELSE T.node[c[m - 1]].next
  BY ChainIs
<1>. HIDE DEF c
<1>. SUFFICES ASSUME c[T.size] # Null PROVE FALSE
  BY DEF c
<1>2. PICK rank \in [Slots(T) -> Int] : \A x \in Slots(T) :
        T.node[x].next # Null => rank[T.node[x].next] < rank[x]
  BY DEF Linked
\* before the end there is no null pointer
<1>3. ASSUME NEW n \in 0 .. T.size PROVE c[n] \in Slots(T)
  <2>. DEFINE S == {m \in 0 .. T.size : c[T.size - m] = Null}
  <2>1. S = {}
    <3>. SUFFICES ASSUME S # {} PROVE FALSE
      OBVIOUS
    <3>0. S \subseteq Nat
      OBVIOUS
    <3>1. Min(S) \in S /\ \A q \in S : Min(S) <= q
      <4>. HIDE DEF S
      <4>. QED BY <3>0, LeastOf
    <3>. DEFINE q == Min(S)
    <3>. HIDE DEF q, S
    <3>2. q \in S /\ q \in 0 .. T.size /\ c[T.size - q] = Null /\ \A n_1 \in S : q <= n_1
      BY <3>1 DEF q, S
    <3>3. q # 0
      BY <1>0, <3>2
    <3>4. q - 1 \in 0 .. T.size /\ q - 1 \notin S /\ T.size - (q - 1) \in 1 .. T.size
          /\ (T.size - (q - 1)) - 1 = T.size - q
      BY <1>0, <3>2, <3>3
    <3>5. c[T.size - (q - 1)] = Null
      BY <1>1, <3>2, <3>4
    <3>. QED BY <3>4, <3>5 DEF S
  <2>2. T.size - n \in 0 .. T.size /\ T.size - (T.size - n) = n
    BY <1>0
  <2>3. c[n] # Null
    BY <2>1, <2>2
  <2>. QED BY <1>1, <2>3
\* the rank goes down all the way
<1>4. ASSUME NEW n \in 0 .. T.size, NEW d \in 1 .. T.size - n PROVE rank[c[n + d]] < rank[c[n]]
  <2>. DEFINE S == {x \in 1 .. T.size - n : ~(rank[c[n + x]] < rank[c[n]])}
  <2>. SUFFICES ASSUME S # {} PROVE FALSE
    OBVIOUS
  <2>0. S \subseteq Nat
    OBVIOUS
  <2>1. Min(S) \in S /\ \A q \in S : Min(S) <= q
    <3>. HIDE DEF S
    <3>. QED BY <2>0, LeastOf
  <2>. DEFINE q == Min(S)
  <2>. HIDE DEF q, S
  <2>2. q \in S /\ q \in 1 .. T.size - n /\ ~(rank[c[n + q]] < rank[c[n]]) /\ \A x \in S : q <= x
    BY <2>1 DEF q, S
  <2>3. n + q \in 1 .. T.size /\ (n + q) - 1 = n + (q - 1) /\ n + (q - 1) \in 0 .. T.size /\ n + q \in 0 .. T.size
    BY <1>0, <2>2
  <2>4. c[n + q] = T.node[c[n + (q - 1)]].next /\ c[n + q] # Null
    <3>1. c[n + (q - 1)] \in Slots(T) /\ c[n + q] \in Slots(T) /\ Null \notin Slots(T)
      BY <1>0, <1>3, <2>3, Sorts DEF Slots
    <3>. QED BY <1>1, <2>3, <3>1
  <2>5. rank[c[n + q]] < rank[c[n + (q - 1)]]
    BY <1>2, <1>3, <2>3, <2>4
  <2>6. rank[c[n + q]] \in Int /\ rank[c[n + (q - 1)]] \in Int /\ rank[c[n]] \in Int
    BY <1>2, <1>3, <2>3
  <2>7. CASE q = 1
    <3>1. n + (q - 1) = n
      BY <2>7
    <3>. QED BY <2>2, <2>5, <3>1
  <2>8. CASE q # 1
    <3>1. q - 1 \in 1 .. T.size - n /\ q - 1 \notin S
      BY <1>0, <2>2, <2>8
    <3>2. rank[c[n + (q - 1)]] < rank[c[n]]
      BY <3>1 DEF S
    <3>. QED BY <2>2, <2>5, <2>6, <3>2
  <2>. QED BY <2>7, <2>8
<1>5. c \in [0 .. T.size -> Slots(T)]
  BY <1>1, <1>3
<1>6. PICK x, y \in 0 .. T.size : x # y /\ c[x] = c[y]
  <2>1. IsFiniteSet(0 .. T.size) /\ Cardinality(0 .. T.size) = T.size + 1
    BY <1>0, FS_Interval
  <2>2. IsFiniteSet(Slots(T)) /\ Cardinality(Slots(T)) = T.size
    <3>1. IsFiniteSet(0 .. T.size - 1) /\ Cardinality(0 .. T.size - 1) = IF 0 > T.size - 1 THEN 0 ELSE (T.size - 1) - 0 + 1
      BY <1>0, FS_Interval
    <3>. QED BY <1>0, <3>1 DEF Slots
  <2>3. Cardinality(Slots(T)) < Cardinality(0 .. T.size)
    BY <1>0, <2>1, <2>2
  <2>4. \E x, y \in 0 .. T.size : x # y /\ c[x] = c[y]
    <3>. DEFINE A == 0 .. T.size
                B == Slots(T)
    <3>1. IsFiniteSet(A) /\ IsFiniteSet(B) /\ Cardinality(B) < Cardinality(A) /\ c \in [A -> B]
      BY <1>5, <2>1, <2>2, <2>3
    <3>. HIDE DEF A, B
    <3>2. \E x, y \in A : x # y /\ c[x] = c[y]
      BY <3>1, FS_PigeonHole
    <3>. QED BY <3>2 DEF A
  <2>. QED BY <2>4
<1>7. \A n, m \in 0 .. T.size : n < m => rank[c[m]] < rank[c[n]]
  <2>. SUFFICES ASSUME NEW n \in 0 .. T.size, NEW m \in 0 .. T.size, n < m PROVE rank[c[m]] < rank[c[n]]
    OBVIOUS
  <2>1. m - n \in 1 .. T.size - n /\ n + (m - n) = m
    BY <1>0
  <2>. QED BY <1>4, <2>1
<1>8. rank[c[x]] \in Int
  BY <1>2, <1>3
<1>9. x < y \/ y < x
  BY <1>0, <1>6
<1>. QED BY <1>6, <1>7, <1>8, <1>9

LEMMA ChainHasOn ==
  ASSUME NEW T, IsTab(T), Linked(T), NEW i \in Slots(T), NEW j \in On(T, i)
  PROVE  \E m \in 0 .. T.size : Chain(T, i)[m] = j
<1>. DEFINE c == Chain(T, i)
            S == {x \in Slots(T) : \E m \in 0 .. T.size : c[m] = x}
<1>0. T.size \in Nat
  BY DEF IsTab
<1>1. /\ c \in [0 .. T.size -> Slots(T) \cup {Null}] /\ c[0] = i /\ c[T.size] = Null
      /\ \A m \in 1 .. T.size : c[m] = IF c[m - 1] = Null THEN Null ELSE T.node[c[m - 1]].next
  BY ChainIs, ChainEnds
<1>. HIDE DEF c
<1>2. i \in S
  BY <1>0, <1>1
<1>3. ASSUME NEW x \in S PROVE T.node[x].next = Null \/ T.node[x].next \in S
  <2>1. PICK m \in 0 .. T.size : c[m] = x /\ x \in Slots(T) /\ x # Null
    BY Sorts DEF Slots
  <2>2. m # T.size /\ m + 1 \in 1 .. T.size /\ (m + 1) - 1 = m /\ m + 1 \in 0 .. T.size
    BY <1>0, <1>1, <2>1
  <2>3. c[m + 1] = T.node[x].next
    BY <1>1, <2>1, <2>2
  <2>4. c[m + 1] \in Slots(T) \cup {Null}
    BY <1>1, <2>2
  <2>. QED BY <2>2, <2>3, <2>4
<1>4. On(T, i) \subseteq S
  <2>. HIDE DEF S
  <2>1. S \subseteq Slots(T)
    BY DEF S
  <2>. QED BY <1>2, <1>3, <2>1, OnLeast
<1>. QED BY <1>4 DEF c

\* A search along a chain finds what is on it.
LEMMA FirstIs ==
  ASSUME NEW T, IsTab(T), Linked(T), NEW i \in Slots(T), NEW hits \in SUBSET Slots(T)
  PROVE  /\ hits = {} => First(T, i, hits) = Null
         /\ (\E j \in hits : j \in On(T, i)) => First(T, i, hits) \in hits
<1>. DEFINE c == Chain(T, i)
            at == {m \in 0 .. T.size : c[m] \in hits}
<1>1. First(T, i, hits) = IF at = {} THEN Null ELSE c[Min(at)]
  BY DEF First
<1>2. CASE hits = {}
  <2>1. at = {}
    BY <1>2
  <2>. QED BY <1>1, <1>2, <2>1
<1>3. ASSUME NEW j \in hits, j \in On(T, i) PROVE First(T, i, hits) \in hits
  <2>1. PICK m \in 0 .. T.size : c[m] = j
    BY <1>3, ChainHasOn
  <2>2. at # {} /\ at \subseteq Nat
    BY <1>3, <2>1
  <2>3. Min(at) \in at
    <3>. HIDE DEF at
    <3>. QED BY <2>2, LeastOf
  <2>. QED BY <1>1, <2>2, <2>3
<1>. QED BY <1>2, <1>3

-----------------------------------------------------------------------------
(* Looking up                                                                  *)

LEMMA MainIs ==
  ASSUME NEW h, Hashable(h), NEW T, IsTab(T), T.size # 0, NEW k \in HKeys(h)
  PROVE  Main(h, T, k) \in Slots(T)
<1>1. Hash(h, k) \in Nat
  BY Sorts DEF Hash, HKeys, Hashable
<1>2. T.size \in Nat /\ T.size > 0
  BY DEF IsTab
<1>. QED BY <1>1, <1>2 DEF Main, Slots

LEMMA HKeyIs ==
  ASSUME NEW h, Hashable(h), NEW k \in HKeys(h)
  PROVE  k \in Key /\ k # Nil /\ k # Self /\ k # Idle /\ k # Error
BY Sorts DEF HKeys, Hashable, Key

\* A lookup finds the node that has the key, and none if there is none.
LEMMA FindIs ==
  ASSUME NEW h, Hashable(h), NEW T, IsTab(T), Linked(T), Placed(h, T), NEW k \in HKeys(h)
  PROVE  /\ \A i \in Slots(T) : T.node[i].key = k => Find(h, T, k) = i
         /\ (\A i \in Slots(T) : T.node[i].key # k) => Find(h, T, k) = Null
<1>. DEFINE hits == {n \in DOMAIN T.node : T.node[n].key = k}
            m == Main(h, T, k)
<1>0. Slots(T) = DOMAIN T.node /\ T.size \in Nat
  BY DEF IsTab
<1>1. hits \subseteq Slots(T)
  BY <1>0
<1>2. ASSUME T.size # 0 PROVE Find(h, T, k) = First(T, m, hits) /\ m \in Slots(T)
  BY <1>2, MainIs DEF Find
<1>3. ASSUME NEW i \in Slots(T), T.node[i].key = k PROVE Find(h, T, k) = i
  <2>1. T.size # 0
    BY <1>0, <1>3 DEF Slots
  <2>2. i \in On(T, m)
    BY <1>3, HKeyIs DEF Placed
  <2>3. i \in hits
    BY <1>0, <1>3
  <2>4. First(T, m, hits) \in hits
    <3>. HIDE DEF hits, m
    <3>. QED BY <1>1, <1>2, <2>1, <2>2, <2>3, FirstIs
  <2>5. \A j \in hits : j = i
    BY <1>0, <1>3, HKeyIs DEF Placed
  <2>. QED BY <1>2, <2>1, <2>4, <2>5
<1>4. ASSUME \A i \in Slots(T) : T.node[i].key # k PROVE Find(h, T, k) = Null
  <2>1. hits = {}
    BY <1>0, <1>4
  <2>2. CASE T.size = 0
    BY <2>2 DEF Find
  <2>3. CASE T.size # 0
    <3>. HIDE DEF hits, m
    <3>. QED BY <1>1, <1>2, <2>1, <2>3, FirstIs
  <2>. QED BY <2>2, <2>3
<1>. QED BY <1>3, <1>4

LEMMA GetIs ==
  ASSUME NEW h, Hashable(h), NEW T, IsTab(T), Linked(T), Placed(h, T), NEW k \in HKeys(h)
  PROVE  /\ InArray(T, k) => Get(h, T, k) = T.array[k]
         /\ ~InArray(T, k) => \A i \in Slots(T) : T.node[i].key = k => Get(h, T, k) = T.node[i].val
         /\ ~InArray(T, k) /\ (\A i \in Slots(T) : T.node[i].key # k) => Get(h, T, k) = Nil
<1>1. Null \notin Slots(T)
  BY NoNode
<1>. QED BY <1>1, FindIs DEF Get

-----------------------------------------------------------------------------
(* Inserting                                                                   *)

\* N is T with other nodes.
Renodes(N, T) ==
  N \in [asize : {T.asize}, array : {T.array}, size : {T.size}, node : {N.node}, freetop : {N.freetop},
         broken : {FALSE}]
LEMMA Renoded ==
  ASSUME NEW T, IsTab(T), NEW N, Renodes(N, T), N.node \in [Slots(T) -> Entry(T)],
         N.freetop \in 0 .. T.size
  PROVE  /\ IsTab(N) /\ N.asize = T.asize /\ N.array = T.array /\ N.size = T.size
         /\ Slots(N) = Slots(T)
         /\ \A h, x : Main(h, N, x) = Main(h, T, x)
         /\ \A x : InArray(N, x) = InArray(T, x)
<1>1. N.asize = T.asize /\ N.array = T.array /\ N.size = T.size
  BY DEF Renodes
<1>2. T.asize \in Nat /\ T.size \in Nat /\ T.array \in [0 .. T.asize - 1 -> IntKey \cup {Nil}]
  BY DEF IsTab
<1>3. Slots(N) = Slots(T) /\ Entry(N) = Entry(T)
  BY <1>1 DEF Slots, Entry
<1>4. N \in [asize : Nat, array : {N.array}, size : Nat, node : {N.node}, freetop : Nat, broken : {FALSE}]
  <2>1. N.freetop \in Nat
    BY <1>2
  <2>. QED BY <1>1, <1>2, <2>1 DEF Renodes
<1>5. IsTab(N)
  <2>1. N.node \in [Slots(N) -> Entry(N)]
    BY <1>1, <1>3
  <2>2. N.freetop \in 0 .. N.size
    BY <1>1
  <2>3. N.array \in [0 .. N.asize - 1 -> IntKey \cup {Nil}]
    BY <1>1, <1>2
  <2>. QED BY <1>4, <2>1, <2>2, <2>3 DEF IsTab
<1>. QED BY <1>1, <1>3, <1>5 DEF Main, InArray

LEMMA NodeIs ==
  ASSUME NEW T, IsTab(T), NEW i \in Slots(T)
  PROVE  /\ T.node[i] \in Entry(T) /\ T.node[i].key \in Key \cup {Nil}
         /\ T.node[i].val \in Key \cup {Nil, Self} /\ T.node[i].next \in Slots(T) \cup {Null}
<1>1. T.node[i] \in Entry(T)
  BY DEF IsTab
<1>. QED BY <1>1 DEF Entry

\* N is T with v for k; dead keys may have gone.
Inserted(T, N, k, v) ==
  /\ N.asize = T.asize /\ N.array = T.array /\ N.size = T.size
  /\ \E j \in Slots(T) : N.node[j].key = k /\ N.node[j].val = v
  /\ \A j \in Slots(T) :
       N.node[j].key \in {k, Nil}
         \/ \E i \in Slots(T) : T.node[i].key = N.node[j].key /\ T.node[i].val = N.node[j].val
  /\ \A i \in Slots(T) :
       T.node[i].val = Nil
         \/ \E j \in Slots(T) : T.node[i].key = N.node[j].key /\ T.node[i].val = N.node[j].val

\* The node at its main position has no value: the key takes it.
LEMMA Overwritten ==
  ASSUME NEW h, Hashable(h), NEW T, Sound(h, T), NEW k \in HKeys(h), k \notin NodeKeys(T),
         ~InArray(T, k), NEW v, ValOK(k, v), T.size # 0, NEW n, n = Main(h, T, k), T.node[n].val = Nil,
         NEW N, Renodes(N, T), N.freetop = T.freetop,
         N.node = [T.node EXCEPT ![n] = [key |-> k, val |-> v, next |-> T.node[n].next]]
  PROVE  Sound(h, N) /\ Inserted(T, N, k, v)
<1>0. IsTab(T) /\ Linked(T) /\ Placed(h, T) /\ FreeBelow(T) /\ Valued(T) /\ SizeOK(T.size)
  BY DEF Sound
<1>1. n \in Slots(T) /\ k \in Key /\ k # Nil /\ k # Self
  BY <1>0, MainIs, HKeyIs
<1>2. /\ IsTab(N) /\ N.asize = T.asize /\ N.array = T.array /\ N.size = T.size
      /\ Slots(N) = Slots(T)
      /\ \A x : Main(h, N, x) = Main(h, T, x) /\ InArray(N, x) = InArray(T, x)
  <2>. DEFINE e == [key |-> k, val |-> v, next |-> T.node[n].next]
  <2>1. e \in Entry(T)
    BY <1>0, <1>1, NodeIs DEF ValOK, Entry
  <2>2. N.node \in [Slots(T) -> Entry(T)]
    BY <1>0, <1>1, <2>1 DEF IsTab
  <2>3. N.freetop \in 0 .. T.size
    BY <1>0 DEF IsTab
  <2>. QED BY <1>0, <2>2, <2>3, Renoded
<1>3. \A i \in Slots(T) : N.node[i] = IF i = n THEN [key |-> k, val |-> v, next |-> T.node[n].next] ELSE T.node[i]
  BY <1>0, <1>1, <1>2 DEF IsTab
<1>6. Valued(N)
  BY <1>0, <1>2, <1>3 DEF Valued
<1>7. Linked(N)
  <2>1. PICK rank \in [Slots(T) -> Int] : \A i \in Slots(T) :
          T.node[i].next # Null => rank[T.node[i].next] < rank[i]
    BY <1>0 DEF Linked
  <2>2. \A i \in Slots(T) : N.node[i].next = T.node[i].next
    BY <1>3
  <2>3. \A i \in Slots(T) : T.node[i].key # Nil => N.node[i].key # Nil
    BY <1>1, <1>3
  <2>4. ASSUME NEW i \in Slots(T), T.node[i].next # Null PROVE T.node[i].next \in Slots(T)
    <3>. HIDE DEF Slots
    <3>. QED BY <1>0, <2>4, NodeIs
  <2>5. rank \in [Slots(N) -> Int] /\ \A i \in Slots(N) : N.node[i].next # Null => rank[N.node[i].next] < rank[i]
    BY <1>2, <2>1, <2>2
  <2>6. \E r \in [Slots(N) -> Int] : \A i \in Slots(N) : N.node[i].next # Null => r[N.node[i].next] < r[i]
    BY <2>5
  <2>7. \A i \in Slots(N) : N.node[i].next # Null => N.node[i].key # Nil /\ N.node[N.node[i].next].key # Nil
    BY <1>0, <1>2, <2>2, <2>3, <2>4 DEF Linked
  <2>8. \A i, j \in Slots(N) : N.node[i].next = N.node[j].next /\ N.node[i].next # Null => i = j
    BY <1>0, <1>2, <2>2 DEF Linked
  <2>. QED BY <2>6, <2>7, <2>8 DEF Linked
<1>8. \A i : On(N, i) = On(T, i)
  BY <1>2, <1>3 DEF On
<1>9. Placed(h, N)
  <2>1. ASSUME NEW i \in Slots(N), NEW j \in Slots(N), N.node[i].key = N.node[j].key, N.node[i].key # Nil PROVE i = j
    BY <1>0, <1>2, <1>3, <2>1 DEF Placed, NodeKeys
  <2>2. ASSUME NEW i \in Slots(N), N.node[i].key # Nil, NEW m, m = Main(h, N, N.node[i].key)
        PROVE  /\ N.node[i].key \in HKeys(h) /\ ~InArray(N, N.node[i].key)
               /\ i \in On(N, m) /\ N.node[m].key # Nil /\ Main(h, N, N.node[m].key) = m
    <3>1. CASE i = n
      <4>1. N.node[i].key = k /\ m = n
        BY <1>1, <1>2, <1>3, <2>2, <3>1
      <4>2. n \in On(N, n)
        BY <1>1, <1>2, OnIs
      <4>. QED BY <1>1, <1>2, <2>2, <3>1, <4>1, <4>2
    <3>2. CASE i # n
      <4>1. N.node[i].key = T.node[i].key /\ m = Main(h, T, T.node[i].key) /\ i \in Slots(T)
        BY <1>2, <1>3, <2>2, <3>2
      <4>2. /\ T.node[i].key \in HKeys(h) /\ ~InArray(T, T.node[i].key)
            /\ i \in On(T, m) /\ T.node[m].key # Nil /\ Main(h, T, T.node[m].key) = m
        BY <1>0, <2>2, <4>1 DEF Placed
      <4>3. m \in Slots(T)
        <5>1. T.size # 0
          OBVIOUS
        <5>. QED BY <1>0, <4>1, <4>2, MainIs
      <4>4. N.node[m].key # Nil /\ Main(h, N, N.node[m].key) = m
        <5>1. CASE m = n
          BY <1>1, <1>2, <1>3, <5>1
        <5>2. CASE m # n
          BY <1>2, <1>3, <4>2, <4>3, <5>2
        <5>. QED BY <5>1, <5>2
      <4>. QED BY <1>2, <1>8, <4>1, <4>2, <4>4
    <3>. QED BY <3>1, <3>2
  <2>. QED BY <2>1, <2>2 DEF Placed
<1>10. FreeBelow(N)
  BY <1>0, <1>1, <1>2, <1>3 DEF FreeBelow
<1>11. Inserted(T, N, k, v)
  <2>1. N.node[n].key = k /\ N.node[n].val = v
    BY <1>1, <1>3
  <2>2. \A i \in Slots(T) : i # n => N.node[i] = T.node[i]
    BY <1>3
  <2>3. T.node[n].val = Nil
    OBVIOUS
  <2>. QED BY <1>1, <1>2, <2>1, <2>2, <2>3 DEF Inserted
<1>. QED BY <1>0, <1>2, <1>6, <1>7, <1>9, <1>10, <1>11 DEF Sound


\* A node of a chain that is not its first one has a predecessor on it.
LEMMA OnPred ==
  ASSUME NEW T, IsTab(T), NEW i \in Slots(T), NEW j \in On(T, i), j # i
  PROVE  \E x \in On(T, i) : T.node[x].next = j
<1>. SUFFICES ASSUME \A x \in On(T, i) : T.node[x].next # j PROVE FALSE
  OBVIOUS
<1>. DEFINE S == On(T, i) \ {j}
<1>1. i \in S /\ S \in SUBSET Slots(T)
  BY OnIs
<1>2. \A x \in S : T.node[x].next = Null \/ T.node[x].next \in S
  BY OnIs
<1>3. On(T, i) \subseteq S
  <2>. HIDE DEF S
  <2>. QED BY <1>1, <1>2, OnLeast
<1>. QED BY <1>3

\* The free node is the last one.
LEMMA FreeIs ==
  ASSUME NEW h, NEW T, Sound(h, T), FreeNodes(T) # {}, NEW f, f = Max(FreeNodes(T))
  PROVE  /\ f \in Slots(T) /\ f < T.freetop
         /\ T.node[f].key = Nil /\ T.node[f].val = Nil /\ T.node[f].next = Null
         /\ \A i \in Slots(T) : i > f => T.node[i].key # Nil
         /\ \A i \in Slots(T) : T.node[i].next # f
<1>0. IsTab(T) /\ Linked(T) /\ FreeBelow(T)
  BY DEF Sound
<1>1. T.size \in Nat /\ T.freetop \in Nat /\ T.freetop <= T.size
  BY <1>0 DEF IsTab
<1>2. FreeNodes(T) \in SUBSET (0 .. T.freetop)
  BY <1>1 DEF FreeNodes
<1>3. f \in FreeNodes(T) /\ \A m \in FreeNodes(T) : m <= f
  BY <1>1, <1>2, GreatestOf
<1>4. f \in 0 .. T.freetop - 1 /\ T.node[f].key = Nil
  BY <1>3 DEF FreeNodes
<1>5. f \in Slots(T)
  BY <1>1, <1>4 DEF Slots
<1>6. T.node[f] = FreeNode
  BY <1>0, <1>4, <1>5 DEF FreeBelow
<1>7. ASSUME NEW i \in Slots(T), i > f PROVE T.node[i].key # Nil
  <2>1. CASE T.freetop <= i
    BY <1>0, <2>1 DEF FreeBelow
  <2>2. CASE ~(T.freetop <= i)
    <3>1. i \in 0 .. T.freetop - 1
      BY <1>1, <2>2 DEF Slots
    <3>2. i \notin FreeNodes(T)
      BY <1>3, <1>4, <1>7, <3>1
    <3>. QED BY <3>1, <3>2 DEF FreeNodes
  <2>. QED BY <2>1, <2>2
<1>8. Null \notin Slots(T)
  BY <1>0, NoNode
<1>9. \A i \in Slots(T) : T.node[i].next # f
  BY <1>0, <1>4, <1>5, <1>8 DEF Linked
<1>. QED BY <1>1, <1>4, <1>5, <1>6, <1>7, <1>9 DEF FreeNode

GoesBehind(T, N, n, f, k, v) ==
  \A i \in Slots(T) : N.node[i] =
    IF i = f THEN [key |-> k, val |-> v, next |-> T.node[n].next]
    ELSE IF i = n THEN [T.node[n] EXCEPT !.next = f] ELSE T.node[i]
\* The node at its main position belongs there: the key goes into the free node behind it.
LEMMA LinkedBehind ==
  ASSUME NEW h, Hashable(h), NEW T, Sound(h, T), NEW k \in HKeys(h), k \notin NodeKeys(T),
         ~InArray(T, k), NEW v, ValOK(k, v), T.size # 0, FreeNodes(T) # {},
         NEW n, n = Main(h, T, k), T.node[n].val # Nil, Main(h, T, T.node[n].key) = n,
         NEW f, f = Max(FreeNodes(T)),
         NEW N, Renodes(N, T), N.freetop = f, N.node \in [Slots(T) -> Entry(T)],
         GoesBehind(T, N, n, f, k, v)
  PROVE  Sound(h, N) /\ Inserted(T, N, k, v)
<1>0. IsTab(T) /\ Linked(T) /\ Placed(h, T) /\ FreeBelow(T) /\ Valued(T) /\ SizeOK(T.size)
  BY DEF Sound
<1>1. n \in Slots(T) /\ k \in Key /\ k # Nil /\ k # Self
  BY <1>0, MainIs, HKeyIs
<1>2. /\ f \in Slots(T) /\ f < T.freetop
      /\ T.node[f].key = Nil /\ T.node[f].val = Nil /\ T.node[f].next = Null
      /\ \A i \in Slots(T) : i > f => T.node[i].key # Nil
      /\ \A i \in Slots(T) : T.node[i].next # f
  BY FreeIs
<1>3. T.size \in Nat /\ T.freetop \in 0 .. T.size
  BY <1>0 DEF IsTab
<1>4. /\ IsTab(N) /\ N.asize = T.asize /\ N.array = T.array /\ N.size = T.size
      /\ Slots(N) = Slots(T)
      /\ \A x : Main(h, N, x) = Main(h, T, x) /\ InArray(N, x) = InArray(T, x)
  <2>1. N.freetop \in 0 .. T.size
    BY <1>2, <1>3 DEF Slots
  <2>. QED BY <1>0, <2>1, Renoded
<1>5. n # f
  BY <1>2
<1>6. /\ N.node[f].key = k /\ N.node[f].val = v /\ N.node[f].next = T.node[n].next
      /\ N.node[n].key = T.node[n].key /\ N.node[n].val = T.node[n].val /\ N.node[n].next = f
      /\ \A i \in Slots(T) : i # f /\ i # n => N.node[i] = T.node[i]
  <2>1. T.node[n] \in Entry(T)
    BY <1>0, <1>1, NodeIs
  <2>. QED BY <1>1, <1>2, <1>5, <2>1 DEF Entry, GoesBehind
<1>7. \A i \in Slots(T) : i # f => N.node[i].key = T.node[i].key /\ N.node[i].val = T.node[i].val
  BY <1>6
<1>8. Valued(N)
  BY <1>0, <1>4, <1>6, <1>7 DEF Valued
<1>9. T.node[n].key # Nil /\ Null \notin Slots(T)
  BY <1>0, <1>1, NoNode DEF FreeBelow, FreeNode
<1>10. \A i \in Slots(T) : T.node[i].next # Null => T.node[i].next \in Slots(T) /\ T.node[i].next # f
  <2>1. ASSUME NEW i \in Slots(T), T.node[i].next # Null PROVE T.node[i].next \in Slots(T)
    BY <1>0, <2>1, NodeIs
  <2>. QED BY <1>2, <2>1
<1>11. Linked(N)
  <2>1. PICK rank \in [Slots(T) -> Int] : \A i \in Slots(T) :
          T.node[i].next # Null => rank[T.node[i].next] < rank[i]
    BY <1>0 DEF Linked
  <2>2. PICK r \in [Slots(T) -> Int] : \A i \in Slots(T) :
          r[i] = IF i = f THEN 2 * rank[n] - 1 ELSE 2 * rank[i]
    <3>1. [i \in Slots(T) |-> IF i = f THEN 2 * rank[n] - 1 ELSE 2 * rank[i]] \in [Slots(T) -> Int]
      BY <1>1, <2>1
    <3>. QED BY <3>1
  <2>3. ASSUME NEW i \in Slots(T), N.node[i].next # Null
        PROVE  r[N.node[i].next] < r[i] /\ N.node[i].key # Nil /\ N.node[N.node[i].next].key # Nil
    <3>1. CASE i = f
      <4>1. N.node[i].next = T.node[n].next /\ T.node[n].next \in Slots(T) /\ T.node[n].next # f
        BY <1>1, <1>6, <1>10, <2>3, <3>1
      <4>2. rank[T.node[n].next] < rank[n] /\ rank[n] \in Int /\ rank[T.node[n].next] \in Int
        BY <1>1, <1>9, <2>1, <4>1
      <4>3. r[T.node[n].next] = 2 * rank[T.node[n].next] /\ r[f] = 2 * rank[n] - 1
        BY <1>2, <2>2, <4>1
      <4>4. T.node[T.node[n].next].key # Nil
        BY <1>0, <1>1, <1>9, <4>1 DEF Linked
      <4>. QED BY <1>1, <1>6, <1>7, <3>1, <4>1, <4>2, <4>3, <4>4
    <3>2. CASE i = n
      <4>1. rank[n] \in Int
        BY <1>1, <2>1
      <4>2. r[n] = 2 * rank[n] /\ r[f] = 2 * rank[n] - 1
        BY <1>1, <1>2, <1>5, <2>2
      <4>. QED BY <1>1, <1>6, <1>9, <3>2, <4>1, <4>2
    <3>3. CASE i # f /\ i # n
      <4>1. N.node[i] = T.node[i] /\ T.node[i].next \in Slots(T) /\ T.node[i].next # f /\ T.node[i].next # Null
        BY <1>6, <1>10, <2>3, <3>3
      <4>2. rank[T.node[i].next] < rank[i] /\ rank[i] \in Int /\ rank[T.node[i].next] \in Int
        BY <2>1, <4>1
      <4>3. r[T.node[i].next] = 2 * rank[T.node[i].next] /\ r[i] = 2 * rank[i]
        BY <2>2, <3>3, <4>1
      <4>4. T.node[i].key # Nil /\ T.node[T.node[i].next].key # Nil
        BY <1>0, <4>1 DEF Linked
      <4>. QED BY <1>7, <4>1, <4>2, <4>3, <4>4
    <3>. QED BY <3>1, <3>2, <3>3
  <2>4. ASSUME NEW i \in Slots(T), NEW j \in Slots(T), N.node[i].next = N.node[j].next, N.node[i].next # Null
        PROVE  i = j
    <3>1. \A a, b \in Slots(T) : T.node[a].next = T.node[b].next /\ T.node[a].next # Null => a = b
      BY <1>0 DEF Linked
    <3>. HIDE DEF Slots
    <3>. QED BY <1>1, <1>2, <1>6, <2>4, <3>1
  <2>5. \E q \in [Slots(N) -> Int] : \A i \in Slots(N) : N.node[i].next # Null => q[N.node[i].next] < q[i]
    BY <1>4, <2>2, <2>3
  <2>. QED BY <1>4, <2>3, <2>4, <2>5 DEF Linked
<1>12. ASSUME NEW m \in Slots(T) PROVE On(T, m) \subseteq On(N, m)
  <2>1. m \in On(N, m) /\ On(N, m) \in SUBSET Slots(T)
        /\ \A x \in On(N, m) : N.node[x].next # Null => N.node[x].next \in On(N, m)
    BY <1>4, OnIs
  <2>2. ASSUME NEW x \in On(N, m), T.node[x].next # Null PROVE T.node[x].next \in On(N, m)
    <3>1. CASE x = f
      BY <1>2, <2>2, <3>1
    <3>2. CASE x = n
      BY <1>2, <1>6, <1>9, <2>1, <2>2, <3>2
    <3>3. CASE x # f /\ x # n
      BY <1>6, <2>1, <2>2, <3>3
    <3>. QED BY <3>1, <3>2, <3>3
  <2>. QED BY <2>1, <2>2, OnLeast
<1>13. Placed(h, N)
  <2>1. ASSUME NEW i \in Slots(N), NEW j \in Slots(N), N.node[i].key = N.node[j].key, N.node[i].key # Nil PROVE i = j
    <3>1. \A x \in Slots(T) : T.node[x].key # k
      BY <1>1 DEF NodeKeys
    <3>. QED BY <1>0, <1>4, <1>6, <1>7, <2>1, <3>1 DEF Placed
  <2>2. ASSUME NEW i \in Slots(N), N.node[i].key # Nil, NEW m, m = Main(h, N, N.node[i].key)
        PROVE  /\ N.node[i].key \in HKeys(h) /\ ~InArray(N, N.node[i].key)
               /\ i \in On(N, m) /\ N.node[m].key # Nil /\ Main(h, N, N.node[m].key) = m
    <3>1. CASE i = f
      <4>1. N.node[i].key = k /\ m = n
        BY <1>4, <1>6, <2>2, <3>1
      <4>2. f \in On(N, n)
        <5>1. n \in On(N, n)
          BY <1>1, <1>4, OnIs
        <5>2. N.node[n].next = f /\ f # Null
          BY <1>2, <1>6, <1>9
        <5>. QED BY <1>1, <1>4, <5>1, <5>2, OnIs
      <4>. QED BY <1>1, <1>4, <1>5, <1>6, <1>9, <3>1, <4>1, <4>2
    <3>2. CASE i # f
      <4>1. N.node[i].key = T.node[i].key /\ m = Main(h, T, T.node[i].key) /\ i \in Slots(T)
        BY <1>4, <1>7, <2>2, <3>2
      <4>2. /\ T.node[i].key \in HKeys(h) /\ ~InArray(T, T.node[i].key)
            /\ i \in On(T, m) /\ T.node[m].key # Nil /\ Main(h, T, T.node[m].key) = m
        BY <1>0, <2>2, <4>1 DEF Placed
      <4>3. m \in Slots(T)
        BY <1>0, <4>1, <4>2, MainIs
      <4>4. N.node[m].key = T.node[m].key
        BY <1>2, <1>7, <4>2, <4>3
      <4>. QED BY <1>4, <1>12, <4>1, <4>2, <4>3, <4>4
    <3>. QED BY <3>1, <3>2
  <2>. QED BY <2>1, <2>2 DEF Placed
<1>14. FreeBelow(N)
  <2>1. ASSUME NEW i \in Slots(T), N.node[i].key = Nil PROVE N.node[i] = FreeNode
    BY <1>0, <1>1, <1>6, <1>9, <2>1 DEF FreeBelow
  <2>2. ASSUME NEW i \in Slots(T), f <= i PROVE N.node[i].key # Nil
    BY <1>1, <1>2, <1>3, <1>6, <1>7, <2>2 DEF Slots
  <2>. QED BY <1>4, <2>1, <2>2 DEF FreeBelow
<1>15. Inserted(T, N, k, v)
  BY <1>2, <1>4, <1>6, <1>7 DEF Inserted
<1>. QED BY <1>0, <1>4, <1>8, <1>11, <1>13, <1>14, <1>15 DEF Sound

Displaces(T, N, n, f, p, k, v) ==
  \A i \in Slots(T) : N.node[i] =
    IF i = n THEN [key |-> k, val |-> v, next |-> Null]
    ELSE IF i = p THEN [T.node[p] EXCEPT !.next = f]
    ELSE IF i = f THEN T.node[n] ELSE T.node[i]
\* The node at its main position does not belong there: it moves to the free node, behind
\* its predecessor, and the key takes its place.
LEMMA Displaced ==
  ASSUME NEW h, Hashable(h), NEW T, Sound(h, T), NEW k \in HKeys(h), k \notin NodeKeys(T),
         ~InArray(T, k), NEW v, ValOK(k, v), T.size # 0, FreeNodes(T) # {},
         NEW n, n = Main(h, T, k), T.node[n].val # Nil, Main(h, T, T.node[n].key) # n,
         NEW f, f = Max(FreeNodes(T)),
         NEW p \in Slots(T), T.node[p].next = n,
         NEW N, Renodes(N, T), N.freetop = f, N.node \in [Slots(T) -> Entry(T)],
         Displaces(T, N, n, f, p, k, v)
  PROVE  Sound(h, N) /\ Inserted(T, N, k, v)
<1>0. IsTab(T) /\ Linked(T) /\ Placed(h, T) /\ FreeBelow(T) /\ Valued(T) /\ SizeOK(T.size)
  BY DEF Sound
<1>1. n \in Slots(T) /\ k \in Key /\ k # Nil /\ k # Self
  BY <1>0, MainIs, HKeyIs
<1>2. /\ f \in Slots(T) /\ f < T.freetop
      /\ T.node[f].key = Nil /\ T.node[f].val = Nil /\ T.node[f].next = Null
      /\ \A i \in Slots(T) : i > f => T.node[i].key # Nil
      /\ \A i \in Slots(T) : T.node[i].next # f
  BY FreeIs
<1>3. T.size \in Nat /\ T.freetop \in 0 .. T.size
  BY <1>0 DEF IsTab
<1>4. /\ IsTab(N) /\ N.asize = T.asize /\ N.array = T.array /\ N.size = T.size
      /\ Slots(N) = Slots(T)
      /\ \A x : Main(h, N, x) = Main(h, T, x) /\ InArray(N, x) = InArray(T, x)
  <2>1. N.freetop \in 0 .. T.size
    BY <1>2, <1>3 DEF Slots
  <2>. QED BY <1>0, <2>1, Renoded
<1>5. T.node[n].key # Nil /\ Null \notin Slots(T)
  BY <1>0, <1>1, NoNode DEF FreeBelow, FreeNode
<1>6. PICK rank \in [Slots(T) -> Int] : \A i \in Slots(T) :
        T.node[i].next # Null => rank[T.node[i].next] < rank[i]
  BY <1>0 DEF Linked
<1>7. n # f /\ p # f /\ p # n
  <2>1. rank[n] < rank[p] /\ rank[n] \in Int
    BY <1>1, <1>5, <1>6
  <2>. QED BY <1>1, <1>2, <1>5, <2>1
<1>8. /\ N.node[n].key = k /\ N.node[n].val = v /\ N.node[n].next = Null
      /\ N.node[p].key = T.node[p].key /\ N.node[p].val = T.node[p].val /\ N.node[p].next = f
      /\ N.node[f] = T.node[n]
      /\ \A i \in Slots(T) : i # f /\ i # n /\ i # p => N.node[i] = T.node[i]
  <2>1. T.node[p] \in Entry(T)
    BY <1>0, NodeIs
  <2>. QED BY <1>1, <1>2, <1>7, <2>1 DEF Entry, Displaces
<1>9. \A i \in Slots(T) : i # f /\ i # n => N.node[i].key = T.node[i].key /\ N.node[i].val = T.node[i].val
  BY <1>8
<1>10. Valued(N)
  BY <1>0, <1>1, <1>4, <1>8, <1>9 DEF Valued
<1>11. \A a, b \in Slots(T) : T.node[a].next = T.node[b].next /\ T.node[a].next # Null => a = b
  BY <1>0 DEF Linked
\* what a node was followed by, and whether it still is
<1>12. ASSUME NEW i \in Slots(T), T.node[i].next # Null
       PROVE  /\ T.node[i].next \in Slots(T) /\ T.node[i].next # f
              /\ i # p => T.node[i].next # n
              /\ T.node[i].key # Nil /\ T.node[T.node[i].next].key # Nil
  <2>1. T.node[i].next \in Slots(T)
    BY <1>0, <1>12, NodeIs
  <2>. QED BY <1>0, <1>1, <1>2, <1>5, <1>11, <1>12, <2>1 DEF Linked
<1>13. T.node[n].next # n
  BY <1>1, <1>5, <1>6
<1>14. Linked(N)
  <2>1. PICK r \in [Slots(T) -> Int] : \A i \in Slots(T) : r[i] = IF i = f THEN rank[n] ELSE rank[i]
    <3>1. [i \in Slots(T) |-> IF i = f THEN rank[n] ELSE rank[i]] \in [Slots(T) -> Int]
      BY <1>1
    <3>. QED BY <3>1
  <2>2. ASSUME NEW i \in Slots(T), N.node[i].next # Null
        PROVE  r[N.node[i].next] < r[i] /\ N.node[i].key # Nil /\ N.node[N.node[i].next].key # Nil
    <3>1. CASE i = f
      <4>1. N.node[i].next = T.node[n].next /\ T.node[n].next # Null
        BY <1>8, <2>2, <3>1
      <4>2. /\ T.node[n].next \in Slots(T) /\ T.node[n].next # f /\ T.node[n].next # n
            /\ T.node[T.node[n].next].key # Nil
        BY <1>1, <1>12, <1>13, <4>1
      <4>3. r[T.node[n].next] = rank[T.node[n].next] /\ r[f] = rank[n]
        BY <1>2, <2>1, <4>2
      <4>4. N.node[T.node[n].next].key = T.node[T.node[n].next].key
        BY <1>9, <4>2
      <4>. QED BY <1>1, <1>5, <1>6, <1>8, <3>1, <4>1, <4>2, <4>3, <4>4
    <3>2. CASE i = p
      <4>1. r[p] = rank[p] /\ r[f] = rank[n]
        BY <1>2, <1>7, <2>1
      <4>2. rank[n] < rank[p] /\ T.node[p].key # Nil
        BY <1>1, <1>5, <1>6, <1>12
      <4>. QED BY <1>5, <1>8, <3>2, <4>1, <4>2
    <3>3. CASE i = n
      BY <1>8, <2>2, <3>3
    <3>4. CASE i # f /\ i # n /\ i # p
      <4>1. N.node[i] = T.node[i] /\ T.node[i].next # Null
        BY <1>8, <2>2, <3>4
      <4>2. /\ T.node[i].next \in Slots(T) /\ T.node[i].next # f /\ T.node[i].next # n
            /\ T.node[i].key # Nil /\ T.node[T.node[i].next].key # Nil
        BY <1>12, <3>4, <4>1
      <4>3. rank[T.node[i].next] < rank[i]
        BY <1>6, <4>1
      <4>4. r[T.node[i].next] = rank[T.node[i].next] /\ r[i] = rank[i]
        BY <2>1, <3>4, <4>2
      <4>5. N.node[T.node[i].next].key = T.node[T.node[i].next].key
        BY <1>9, <4>2
      <4>. QED BY <4>1, <4>2, <4>3, <4>4, <4>5
    <3>. QED BY <3>1, <3>2, <3>3, <3>4
  <2>3. ASSUME NEW i \in Slots(T), NEW j \in Slots(T), N.node[i].next = N.node[j].next, N.node[i].next # Null
        PROVE  i = j
    <3>. HIDE DEF Slots
    <3>. QED BY <1>1, <1>2, <1>8, <1>11, <2>3
  <2>4. \E q \in [Slots(N) -> Int] : \A i \in Slots(N) : N.node[i].next # Null => q[N.node[i].next] < q[i]
    BY <1>4, <2>1, <2>2
  <2>. QED BY <1>4, <2>2, <2>3, <2>4 DEF Linked
\* nothing leads to n any more
<1>15. ASSUME NEW m \in Slots(T), m # n PROVE n \notin On(N, m)
  <2>. SUFFICES ASSUME n \in On(N, m) PROVE FALSE
    OBVIOUS
  <2>1. PICK x \in On(N, m) : N.node[x].next = n
    BY <1>4, <1>15, OnPred
  <2>2. x \in Slots(T)
    BY <1>4, <2>1, OnIs
  <2>. QED BY <1>1, <1>2, <1>5, <1>7, <1>8, <1>11, <1>13, <2>1, <2>2
\* what was on a chain still is, but for n, in the place of which f is
<1>16. ASSUME NEW m \in Slots(T), m # n
       PROVE  /\ \A x \in On(T, m) : x # n => x \in On(N, m)
              /\ n \in On(T, m) => f \in On(N, m)
  <2>. DEFINE S == On(N, m) \cup {x \in {n} : f \in On(N, m)}
  <2>1. m \in On(N, m) /\ On(N, m) \in SUBSET Slots(T) /\ n \notin On(N, m)
        /\ \A x \in On(N, m) : N.node[x].next # Null => N.node[x].next \in On(N, m)
    BY <1>4, <1>15, <1>16, OnIs
  <2>2. ASSUME NEW x \in S, T.node[x].next # Null PROVE T.node[x].next \in S
    <3>1. CASE x = f
      BY <1>2, <2>2, <3>1
    <3>2. CASE x = n
      <4>1. f \in On(N, m)
        BY <2>1, <2>2, <3>2
      <4>2. N.node[f].next = T.node[n].next
        BY <1>8
      <4>. QED BY <2>1, <2>2, <3>2, <4>1, <4>2
    <3>3. CASE x = p
      <4>1. p \in On(N, m) /\ N.node[p].next = f /\ f # Null
        BY <1>2, <1>5, <1>7, <1>8, <2>2, <3>3
      <4>2. f \in On(N, m)
        BY <2>1, <4>1
      <4>. QED BY <3>3, <4>2
    <3>4. CASE x # f /\ x # n /\ x # p
      BY <1>8, <2>1, <2>2, <3>4
    <3>. QED BY <3>1, <3>2, <3>3, <3>4
  <2>3. m \in S /\ S \in SUBSET Slots(T)
    BY <1>1, <2>1
  <2>4. On(T, m) \subseteq S
    <3>. HIDE DEF S
    <3>. QED BY <2>2, <2>3, OnLeast
  <2>. QED BY <2>1, <2>4
<1>17. \A x \in Slots(T) : T.node[x].key # k
  BY <1>1 DEF NodeKeys
<1>18. ASSUME NEW i \in Slots(T), T.node[i].key # Nil, NEW m, m = Main(h, T, T.node[i].key)
       PROVE  /\ T.node[i].key \in HKeys(h) /\ ~InArray(T, T.node[i].key)
              /\ i \in On(T, m) /\ m \in Slots(T) /\ m # n
              /\ N.node[m].key # Nil /\ Main(h, N, N.node[m].key) = m
  <2>1. /\ T.node[i].key \in HKeys(h) /\ ~InArray(T, T.node[i].key)
        /\ i \in On(T, m) /\ T.node[m].key # Nil /\ Main(h, T, T.node[m].key) = m
    BY <1>0, <1>18 DEF Placed
  <2>2. m \in Slots(T)
    BY <1>0, <1>18, <2>1, MainIs
  <2>3. m # n /\ m # f
    BY <1>2, <2>1
  <2>4. N.node[m].key = T.node[m].key
    BY <1>9, <2>2, <2>3
  <2>. QED BY <1>4, <2>1, <2>2, <2>3, <2>4
<1>19. Placed(h, N)
  <2>1. ASSUME NEW i \in Slots(N), NEW j \in Slots(N), N.node[i].key = N.node[j].key, N.node[i].key # Nil PROVE i = j
    <3>1. \A a, b \in Slots(T) : T.node[a].key = T.node[b].key /\ T.node[a].key # Nil => a = b
      BY <1>0 DEF Placed
    <3>. HIDE DEF Slots
    <3>. QED BY <1>1, <1>4, <1>7, <1>8, <1>9, <1>17, <2>1, <3>1
  <2>2. ASSUME NEW i \in Slots(N), N.node[i].key # Nil, NEW m, m = Main(h, N, N.node[i].key)
        PROVE  /\ N.node[i].key \in HKeys(h) /\ ~InArray(N, N.node[i].key)
               /\ i \in On(N, m) /\ N.node[m].key # Nil /\ Main(h, N, N.node[m].key) = m
    <3>1. CASE i = n
      <4>1. N.node[i].key = k /\ m = n
        BY <1>4, <1>8, <2>2, <3>1
      <4>2. n \in On(N, n)
        BY <1>1, <1>4, OnIs
      <4>. QED BY <1>1, <1>4, <1>8, <3>1, <4>1, <4>2
    <3>2. CASE i = f
      <4>1. N.node[i].key = T.node[n].key /\ m = Main(h, T, T.node[n].key)
        BY <1>4, <1>8, <2>2, <3>2
      <4>2. /\ T.node[n].key \in HKeys(h) /\ ~InArray(T, T.node[n].key)
            /\ n \in On(T, m) /\ m \in Slots(T) /\ m # n
            /\ N.node[m].key # Nil /\ Main(h, N, N.node[m].key) = m
        BY <1>1, <1>5, <1>18, <4>1
      <4>. QED BY <1>4, <1>16, <3>2, <4>1, <4>2
    <3>3. CASE i # f /\ i # n
      <4>1. N.node[i].key = T.node[i].key /\ m = Main(h, T, T.node[i].key) /\ i \in Slots(T)
        BY <1>4, <1>9, <2>2, <3>3
      <4>2. /\ T.node[i].key \in HKeys(h) /\ ~InArray(T, T.node[i].key)
            /\ i \in On(T, m) /\ m \in Slots(T) /\ m # n
            /\ N.node[m].key # Nil /\ Main(h, N, N.node[m].key) = m
        BY <1>18, <2>2, <4>1
      <4>. QED BY <1>4, <1>16, <3>3, <4>1, <4>2
    <3>. QED BY <3>1, <3>2, <3>3
  <2>. QED BY <2>1, <2>2 DEF Placed
<1>20. FreeBelow(N)
  <2>1. ASSUME NEW i \in Slots(T), N.node[i].key = Nil PROVE N.node[i] = FreeNode
    <3>1. i # n /\ i # f /\ i # p
      BY <1>1, <1>5, <1>8, <1>12, <2>1
    <3>. QED BY <1>0, <1>8, <2>1, <3>1 DEF FreeBelow
  <2>2. ASSUME NEW i \in Slots(T), f <= i PROVE N.node[i].key # Nil
    <3>1. CASE i = f
      BY <1>5, <1>8, <3>1
    <3>2. CASE i = n
      BY <1>1, <1>8, <3>2
    <3>3. CASE i # f /\ i # n
      <4>1. i > f
        BY <1>2, <1>3, <2>2, <3>3 DEF Slots
      <4>. QED BY <1>2, <1>9, <3>3, <4>1
    <3>. QED BY <3>1, <3>2, <3>3
  <2>. QED BY <1>4, <2>1, <2>2 DEF FreeBelow
<1>21. Inserted(T, N, k, v)
  <2>1. N.node[f].key = T.node[n].key /\ N.node[f].val = T.node[n].val
    BY <1>8
  <2>. QED BY <1>1, <1>2, <1>4, <1>8, <1>9, <2>1 DEF Inserted
<1>. QED BY <1>0, <1>4, <1>10, <1>14, <1>19, <1>20, <1>21 DEF Sound

LEMMA NewKeyIs ==
  ASSUME NEW h, Hashable(h), NEW T, Sound(h, T), NEW k \in HKeys(h), k \notin NodeKeys(T),
         ~InArray(T, k), NEW v, ValOK(k, v), ~Full(h, T, k), NEW N, N = NewKey(h, T, k, v)
  PROVE  Sound(h, N) /\ Inserted(T, N, k, v)
<1>0. IsTab(T) /\ Linked(T) /\ Placed(h, T) /\ FreeBelow(T)
  BY DEF Sound
<1>1. T.size # 0
  BY DEF Full
<1>2. PICK n, f, p : n = Main(h, T, k) /\ f = Max(FreeNodes(T)) /\ p = Predecessor(h, T, n)
  OBVIOUS
<1>3. N = IF T.node[n].val = Nil
          THEN [T EXCEPT !.node[n] = [key |-> k, val |-> v, next |-> @.next]]
          ELSE IF Main(h, T, T.node[n].key) = n
          THEN [T EXCEPT !.node[f] = [key |-> k, val |-> v, next |-> T.node[n].next],
                         !.node[n].next = f, !.freetop = f]
          ELSE IF p = Null THEN [T EXCEPT !.broken = TRUE]
          ELSE [T EXCEPT !.node[f] = T.node[n], !.node[p].next = f,
                         !.node[n] = [key |-> k, val |-> v, next |-> Null], !.freetop = f]
  BY <1>2 DEF NewKey
<1>4. n \in Slots(T) /\ k \in Key /\ v \in Key \cup {Nil, Self}
  BY <1>0, <1>1, <1>2, MainIs, HKeyIs DEF ValOK
<1>5. /\ T.node[n] \in Entry(T) /\ T.node[n].next \in Slots(T) \cup {Null}
      /\ T.node \in [Slots(T) -> Entry(T)]
      /\ T \in [asize : Nat, array : {T.array}, size : Nat, node : {T.node}, freetop : Nat, broken : {FALSE}]
  BY <1>0, <1>4, NodeIs DEF IsTab
<1>6. CASE T.node[n].val = Nil
  <2>1. N = [T EXCEPT !.node[n] = [key |-> k, val |-> v, next |-> T.node[n].next]]
    BY <1>3, <1>6
  <2>2. Renodes(N, T) /\ N.freetop = T.freetop
        /\ N.node = [T.node EXCEPT ![n] = [key |-> k, val |-> v, next |-> T.node[n].next]]
    BY <1>5, <2>1 DEF Renodes
  <2>. QED BY <1>1, <1>2, <1>6, <2>2, Overwritten
<1>7. ASSUME T.node[n].val # Nil PROVE FreeNodes(T) # {}
  BY <1>1, <1>2, <1>7 DEF Full
<1>8. ASSUME FreeNodes(T) # {}, NEW e \in Entry(T), NEW X, X = [T.node EXCEPT ![f] = e]
      PROVE  /\ f \in Slots(T) /\ X \in [Slots(T) -> Entry(T)]
             /\ \A i \in Slots(T) : X[i] = IF i = f THEN e ELSE T.node[i]
  <2>1. f \in Slots(T)
    BY <1>2, <1>8, FreeIs
  <2>. QED BY <1>5, <1>8, <2>1
<1>9. ASSUME NEW X \in [Slots(T) -> Entry(T)], NEW q \in Slots(T), f \in Slots(T), NEW Y, Y = [X EXCEPT ![q].next = f]
      PROVE  /\ Y \in [Slots(T) -> Entry(T)]
             /\ \A i \in Slots(T) : Y[i] = IF i = q THEN [X[q] EXCEPT !.next = f] ELSE X[i]
  <2>1. [X[q] EXCEPT !.next = f] \in Entry(T)
    BY <1>9 DEF Entry
  <2>2. Y = [X EXCEPT ![q] = [X[q] EXCEPT !.next = f]]
    BY <1>9
  <2>. DEFINE e == [X[q] EXCEPT !.next = f]
  <2>. HIDE DEF e
  <2>3. e \in Entry(T) /\ Y = [X EXCEPT ![q] = e]
    BY <2>1, <2>2 DEF e
  <2>4. Y \in [Slots(T) -> Entry(T)] /\ \A i \in Slots(T) : Y[i] = IF i = q THEN e ELSE X[i]
    BY <2>3
  <2>. QED BY <2>4 DEF e
<1>10. CASE T.node[n].val # Nil /\ Main(h, T, T.node[n].key) = n
  <2>. DEFINE e == [key |-> k, val |-> v, next |-> T.node[n].next]
              X == [T.node EXCEPT ![f] = e]
              Y == [X EXCEPT ![n].next = f]
  <2>1. N = [T EXCEPT !.node[f] = e, !.node[n].next = f, !.freetop = f]
    BY <1>3, <1>10
  <2>2. Renodes(N, T) /\ N.freetop = f /\ N.node = Y
    <3>. HIDE DEF e
    <3>. QED BY <1>5, <2>1 DEF Renodes
  <2>3. e \in Entry(T)
    BY <1>4, <1>5 DEF Entry
  <2>4. /\ f \in Slots(T) /\ X \in [Slots(T) -> Entry(T)]
        /\ \A i \in Slots(T) : X[i] = IF i = f THEN e ELSE T.node[i]
    <3>. HIDE DEF e
    <3>. QED BY <1>7, <1>8, <1>10, <2>3
  <2>5. /\ Y \in [Slots(T) -> Entry(T)]
        /\ \A i \in Slots(T) : Y[i] = IF i = n THEN [X[n] EXCEPT !.next = f] ELSE X[i]
    <3>. HIDE DEF X
    <3>. QED BY <1>4, <1>9, <2>4
  <2>6. n # f
    BY <1>2, <1>7, <1>10, FreeIs
  <2>7. \A i \in Slots(T) : Y[i] =
           IF i = f THEN e ELSE IF i = n THEN [T.node[n] EXCEPT !.next = f] ELSE T.node[i]
    <3>. HIDE DEF e, X, Y
    <3>. QED BY <1>4, <2>4, <2>5, <2>6
  <2>. HIDE DEF X, Y
  <2>8. N.node \in [Slots(T) -> Entry(T)] /\ GoesBehind(T, N, n, f, k, v)
    BY <2>2, <2>5, <2>7 DEF GoesBehind
  <2>. QED BY <1>1, <1>2, <1>7, <1>10, <2>2, <2>8, LinkedBehind
<1>11. CASE T.node[n].val # Nil /\ Main(h, T, T.node[n].key) # n
  <2>. DEFINE kn == T.node[n].key
              hits == {x \in DOMAIN T.node : T.node[x].next = n}
              q == Main(h, T, kn)
  <2>1. kn # Nil
    BY <1>0, <1>4, <1>11 DEF FreeBelow, FreeNode
  <2>2. n \in On(T, q) /\ kn \in HKeys(h)
    BY <1>0, <1>4, <2>1 DEF Placed
  <2>3. q \in Slots(T)
    BY <1>0, <1>1, <2>2, MainIs
  <2>4. PICK x \in On(T, q) : T.node[x].next = n
    BY <1>0, <1>11, <2>2, <2>3, OnPred
  <2>5. DOMAIN T.node = Slots(T) /\ x \in Slots(T)
    BY <1>0, <2>3, OnIs DEF IsTab
  <2>6. hits \in SUBSET Slots(T) /\ x \in hits
    BY <2>4, <2>5
  <2>7. First(T, q, hits) \in hits
    <3>. HIDE DEF hits, q
    <3>. QED BY <1>0, <2>3, <2>4, <2>6, FirstIs
  <2>8. p \in Slots(T) /\ T.node[p].next = n
    BY <1>2, <2>5, <2>7 DEF Predecessor
  <2>9. p # Null
    BY <1>0, <2>8, NoNode
  <2>. DEFINE e == [key |-> k, val |-> v, next |-> Null]
              X == [T.node EXCEPT ![f] = T.node[n]]
              Y == [X EXCEPT ![p].next = f]
              Z == [Y EXCEPT ![n] = e]
  <2>10. N = [T EXCEPT !.node[f] = T.node[n], !.node[p].next = f, !.node[n] = e, !.freetop = f]
    BY <1>3, <1>11, <2>9
  <2>11. Renodes(N, T) /\ N.freetop = f /\ N.node = Z
    <3>. HIDE DEF e
    <3>. QED BY <1>5, <2>10 DEF Renodes
  <2>12. e \in Entry(T)
    BY <1>4 DEF Entry
  <2>13. /\ f \in Slots(T) /\ X \in [Slots(T) -> Entry(T)]
         /\ \A i \in Slots(T) : X[i] = IF i = f THEN T.node[n] ELSE T.node[i]
    BY <1>5, <1>7, <1>8, <1>11
  <2>14. /\ Y \in [Slots(T) -> Entry(T)]
         /\ \A i \in Slots(T) : Y[i] = IF i = p THEN [X[p] EXCEPT !.next = f] ELSE X[i]
    <3>. HIDE DEF X
    <3>. QED BY <1>9, <2>8, <2>13
  <2>15. /\ Z \in [Slots(T) -> Entry(T)]
         /\ \A i \in Slots(T) : Z[i] = IF i = n THEN e ELSE Y[i]
    <3>. HIDE DEF e, Y
    <3>. QED BY <1>4, <2>12, <2>14
  <2>16. p # f
    <3>1. T.node[f].next = Null /\ n # Null
      BY <1>0, <1>2, <1>4, <1>7, <1>11, FreeIs, NoNode
    <3>. QED BY <2>8, <3>1
  <2>17. \A i \in Slots(T) : Z[i] =
           IF i = n THEN e ELSE IF i = p THEN [T.node[p] EXCEPT !.next = f]
           ELSE IF i = f THEN T.node[n] ELSE T.node[i]
    <3>. HIDE DEF e, X, Y, Z
    <3>. QED BY <1>4, <2>8, <2>13, <2>14, <2>15, <2>16
  <2>. HIDE DEF X, Y, Z
  <2>18. N.node \in [Slots(T) -> Entry(T)] /\ Displaces(T, N, n, f, p, k, v)
    BY <2>11, <2>15, <2>17 DEF Displaces
  <2>. QED BY <1>1, <1>2, <1>7, <1>11, <2>8, <2>11, <2>18, Displaced
<1>. QED BY <1>6, <1>10, <1>11

\* After an insertion the key has its value, and no other has changed its.
LEMMA InsertedGets ==
  ASSUME NEW h, Hashable(h), NEW T, Sound(h, T), NEW k \in HKeys(h), k \notin NodeKeys(T),
         ~InArray(T, k), NEW v, NEW N, Sound(h, N), Inserted(T, N, k, v)
  PROVE  /\ \A x \in HKeys(h) : Get(h, N, x) = IF x = k THEN v ELSE Get(h, T, x)
         /\ NodeKeys(N) \subseteq NodeKeys(T) \cup {k}
<1>0. /\ IsTab(T) /\ Linked(T) /\ Placed(h, T)
      /\ IsTab(N) /\ Linked(N) /\ Placed(h, N)
  BY DEF Sound
<1>1. N.asize = T.asize /\ N.array = T.array /\ Slots(N) = Slots(T)
      /\ \A x : InArray(N, x) = InArray(T, x)
  BY DEF Inserted, Slots, InArray
<1>2. \A x \in HKeys(h) : x # Nil
  BY HKeyIs
<1>3. \A j \in Slots(T) : T.node[j].key # k
  BY <1>2 DEF NodeKeys
<1>4. \A i, j \in Slots(T) : T.node[i].key = T.node[j].key /\ T.node[i].key # Nil => i = j
  BY <1>0 DEF Placed
<1>5. ASSUME NEW x \in HKeys(h) PROVE Get(h, N, x) = IF x = k THEN v ELSE Get(h, T, x)
  <2>1. CASE x = k
    <3>1. PICK j \in Slots(N) : N.node[j].key = k /\ N.node[j].val = v
      BY <1>1 DEF Inserted
    <3>2. ~InArray(N, k)
      BY <1>1
    <3>. QED BY <1>0, <2>1, <3>1, <3>2, GetIs
  <2>2. CASE x # k /\ InArray(T, x)
    <3>1. Get(h, N, x) = N.array[x] /\ Get(h, T, x) = T.array[x]
      BY <1>0, <1>1, <2>2, GetIs
    <3>. QED BY <1>1, <2>2, <3>1
  <2>3. CASE x # k /\ ~InArray(T, x) /\ \E j \in Slots(N) : N.node[j].key = x
    <3>1. PICK j \in Slots(N) : N.node[j].key = x
      BY <2>3
    <3>2. PICK i \in Slots(T) : T.node[i].key = N.node[j].key /\ T.node[i].val = N.node[j].val
      BY <1>1, <1>2, <2>3, <3>1 DEF Inserted
    <3>3. Get(h, N, x) = N.node[j].val
      BY <1>0, <1>1, <2>3, <3>1, GetIs
    <3>4. Get(h, T, x) = T.node[i].val
      BY <1>0, <2>3, <3>1, <3>2, GetIs
    <3>. QED BY <2>3, <3>2, <3>3, <3>4
  <2>4. CASE x # k /\ ~InArray(T, x) /\ \A j \in Slots(N) : N.node[j].key # x
    <3>1. Get(h, N, x) = Nil
      BY <1>0, <1>1, <2>4, GetIs
    <3>2. \A i \in Slots(T) : T.node[i].key = x => T.node[i].val = Nil
      BY <1>1, <2>4 DEF Inserted
    <3>3. Get(h, T, x) = Nil
      BY <1>0, <2>4, <3>2, GetIs
    <3>. QED BY <2>4, <3>1, <3>3
  <2>. QED BY <2>1, <2>2, <2>3, <2>4
<1>6. NodeKeys(N) \subseteq NodeKeys(T) \cup {k}
  <2>. SUFFICES ASSUME NEW j \in Slots(N), N.node[j].key # Nil, N.node[j].key # k
                PROVE  N.node[j].key \in NodeKeys(T)
    BY DEF NodeKeys
  <2>1. PICK i \in Slots(T) : T.node[i].key = N.node[j].key
    BY <1>1 DEF Inserted
  <2>. QED BY <2>1 DEF NodeKeys
<1>. QED BY <1>5, <1>6

\* While fewer keys are in nodes than there are nodes, there is room.
LEMMA RoomLeft ==
  ASSUME NEW h, NEW T, Sound(h, T), T.size # 0, NEW H, NodeKeys(T) \subseteq H, IsFiniteSet(H),
         Cardinality(H) < T.size, NEW k
  PROVE  ~Full(h, T, k)
<1>0. IsTab(T) /\ Placed(h, T) /\ FreeBelow(T)
  BY DEF Sound
<1>. SUFFICES ASSUME FreeNodes(T) = {} PROVE FALSE
  BY DEF Full
<1>1. ASSUME NEW i \in Slots(T) PROVE T.node[i].key # Nil
  <2>1. CASE i < T.freetop
    <3>1. i \in 0 .. T.freetop - 1
      BY <1>0, <2>1 DEF Slots, IsTab
    <3>. QED BY <3>1 DEF FreeNodes
  <2>2. CASE ~(i < T.freetop)
    <3>1. T.freetop <= i
      BY <1>0, <2>2 DEF Slots, IsTab
    <3>. QED BY <1>0, <3>1 DEF FreeBelow
  <2>. QED BY <2>1, <2>2
<1>. DEFINE A == Slots(T)
<1>2. PICK g \in [A -> H] : \A i \in A : g[i] = T.node[i].key
  <2>1. [i \in A |-> T.node[i].key] \in [A -> H]
    BY <1>1 DEF NodeKeys
  <2>. QED BY <2>1
<1>3. IsFiniteSet(A) /\ Cardinality(A) = T.size
  BY <1>0, NoNode
<1>4. Cardinality(H) \in Nat /\ T.size \in Nat
  BY <1>0, FS_CardinalityType DEF IsTab
<1>5. \A x, y \in A : x # y => g[x] # g[y]
  BY <1>0, <1>1, <1>2 DEF Placed
<1>. HIDE DEF A
<1>6. \E x, y \in A : x # y /\ g[x] = g[y]
  BY <1>2, <1>3, <1>4, FS_PigeonHole
<1>. QED BY <1>5, <1>6

\* A table with other values in its nodes.
LEMMA Revalued ==
  ASSUME NEW h, Hashable(h), NEW T, Sound(h, T), NEW N, Renodes(N, T), N.freetop = T.freetop,
         N.node \in [Slots(T) -> Entry(T)],
         \A i \in Slots(T) : /\ N.node[i].key = T.node[i].key /\ N.node[i].next = T.node[i].next
                             /\ ValOK(T.node[i].key, N.node[i].val)
  PROVE  /\ Sound(h, N) /\ N.asize = T.asize /\ N.size = T.size /\ N.array = T.array
         /\ Slots(N) = Slots(T) /\ NodeKeys(N) = NodeKeys(T)
         /\ \A x : InArray(N, x) = InArray(T, x)
         /\ \A x \in HKeys(h) : Find(h, N, x) = Find(h, T, x)
<1>0. IsTab(T) /\ Linked(T) /\ Placed(h, T) /\ FreeBelow(T) /\ Valued(T) /\ SizeOK(T.size)
  BY DEF Sound
<1>1. /\ IsTab(N) /\ N.asize = T.asize /\ N.array = T.array /\ N.size = T.size
      /\ Slots(N) = Slots(T)
      /\ \A x : Main(h, N, x) = Main(h, T, x) /\ InArray(N, x) = InArray(T, x)
  <2>1. N.freetop \in 0 .. T.size
    BY <1>0 DEF IsTab
  <2>. QED BY <1>0, <2>1, Renoded
<1>2. Valued(N)
  BY <1>0, <1>1 DEF Valued
<1>3. \A i \in Slots(T) : T.node[i].next # Null => T.node[i].next \in Slots(T)
  <2>1. ASSUME NEW i \in Slots(T), T.node[i].next # Null PROVE T.node[i].next \in Slots(T)
    BY <1>0, <2>1, NodeIs
  <2>. QED BY <2>1
<1>4. Linked(N)
  <2>1. \E rank \in [Slots(N) -> Int] : \A i \in Slots(N) :
          N.node[i].next # Null => rank[N.node[i].next] < rank[i]
    <3>1. PICK rank \in [Slots(T) -> Int] : \A i \in Slots(T) :
            T.node[i].next # Null => rank[T.node[i].next] < rank[i]
      BY <1>0 DEF Linked
    <3>2. rank \in [Slots(N) -> Int] /\ \A i \in Slots(N) : N.node[i].next # Null => rank[N.node[i].next] < rank[i]
      BY <1>1, <3>1
    <3>. QED BY <3>2
  <2>2. \A i \in Slots(N) : N.node[i].next # Null => N.node[i].key # Nil /\ N.node[N.node[i].next].key # Nil
    BY <1>0, <1>1, <1>3 DEF Linked
  <2>3. \A i, j \in Slots(N) : N.node[i].next = N.node[j].next /\ N.node[i].next # Null => i = j
    BY <1>0, <1>1 DEF Linked
  <2>. QED BY <2>1, <2>2, <2>3 DEF Linked
<1>5. \A i : On(N, i) = On(T, i)
  BY <1>1 DEF On
<1>6. Placed(h, N)
  <2>1. \A i, j \in Slots(N) : N.node[i].key = N.node[j].key /\ N.node[i].key # Nil => i = j
    BY <1>0, <1>1 DEF Placed
  <2>2. ASSUME NEW i \in Slots(N), N.node[i].key # Nil, NEW m, m = Main(h, N, N.node[i].key)
        PROVE  /\ N.node[i].key \in HKeys(h) /\ ~InArray(N, N.node[i].key)
               /\ i \in On(N, m) /\ N.node[m].key # Nil /\ Main(h, N, N.node[m].key) = m
    <3>1. T.node[i].key # Nil /\ m = Main(h, T, T.node[i].key) /\ i \in Slots(T)
      BY <1>1, <2>2
    <3>2. /\ T.node[i].key \in HKeys(h) /\ ~InArray(T, T.node[i].key)
          /\ i \in On(T, m) /\ T.node[m].key # Nil /\ Main(h, T, T.node[m].key) = m
      BY <1>0, <3>1 DEF Placed
    <3>3. m \in Slots(T)
      <4>1. T.size # 0
        BY <1>0, <3>1 DEF Slots
      <4>. QED BY <1>0, <3>1, <3>2, <4>1, MainIs
    <3>. QED BY <1>1, <1>5, <3>1, <3>2, <3>3
  <2>. QED BY <2>1, <2>2 DEF Placed
<1>7. FreeBelow(N)
  <2>1. ASSUME NEW i \in Slots(T), N.node[i].key = Nil PROVE N.node[i] = FreeNode
    <3>1. T.node[i] = FreeNode /\ ValOK(Nil, N.node[i].val)
      BY <1>0, <2>1 DEF FreeBelow
    <3>2. N.node[i].val = Nil /\ N.node[i].next = Null
      BY <3>1, Sorts DEF ValOK, FreeNode, Key
    <3>3. N.node[i] \in Entry(T)
      OBVIOUS
    <3>. QED BY <2>1, <3>2, <3>3 DEF Entry, FreeNode
  <2>2. \A i \in Slots(T) : T.freetop <= i => N.node[i].key # Nil
    BY <1>0 DEF FreeBelow
  <2>. QED BY <1>1, <2>1, <2>2 DEF FreeBelow
<1>8. NodeKeys(N) = NodeKeys(T)
  BY <1>1 DEF NodeKeys
<1>9. Sound(h, N)
  BY <1>0, <1>1, <1>2, <1>4, <1>6, <1>7 DEF Sound
<1>10. ASSUME NEW x \in HKeys(h) PROVE Find(h, N, x) = Find(h, T, x)
  <2>1. CASE \E i \in Slots(T) : T.node[i].key = x
    BY <1>0, <1>1, <1>4, <1>6, <2>1, FindIs
  <2>2. CASE \A i \in Slots(T) : T.node[i].key # x
    <3>1. \A i \in Slots(N) : N.node[i].key # x
      BY <1>1, <2>2
    <3>. QED BY <1>0, <1>1, <1>4, <1>6, <2>2, <3>1, FindIs
  <2>. QED BY <2>1, <2>2
<1>. QED BY <1>1, <1>8, <1>9, <1>10

\* A table with another array part of the same size.
Rearrays(N, T) ==
  N \in [asize : {T.asize}, array : {N.array}, size : {T.size}, node : {T.node}, freetop : {T.freetop},
         broken : {FALSE}]
LEMMA Rearrayed ==
  ASSUME NEW h, Hashable(h), NEW T, Sound(h, T), NEW N, Rearrays(N, T),
         N.array \in [0 .. T.asize - 1 -> IntKey \cup {Nil}],
         \A i \in 0 .. T.asize - 1 : N.array[i] \in {i, Nil}
  PROVE  /\ Sound(h, N) /\ N.asize = T.asize /\ N.size = T.size /\ N.node = T.node
         /\ Slots(N) = Slots(T) /\ NodeKeys(N) = NodeKeys(T)
         /\ \A x : InArray(N, x) = InArray(T, x)
         /\ \A x \in HKeys(h) : /\ Find(h, N, x) = Find(h, T, x)
                                /\ Get(h, N, x) = IF InArray(T, x) THEN N.array[x] ELSE Get(h, T, x)
<1>0. IsTab(T) /\ Linked(T) /\ Placed(h, T) /\ FreeBelow(T) /\ Valued(T) /\ SizeOK(T.size)
  BY DEF Sound
<1>1. N.asize = T.asize /\ N.size = T.size /\ N.node = T.node /\ N.freetop = T.freetop
  BY DEF Rearrays
<1>2. Slots(N) = Slots(T) /\ \A x : InArray(N, x) = InArray(T, x) /\ Main(h, N, x) = Main(h, T, x)
  BY <1>1 DEF Slots, InArray, Main
<1>3. IsTab(N)
  <2>1. Entry(N) = Entry(T)
    BY <1>2 DEF Entry
  <2>2. T.asize \in Nat /\ T.size \in Nat /\ T.freetop \in Nat
    BY <1>0 DEF IsTab
  <2>3. N \in [asize : Nat, array : {N.array}, size : Nat, node : {N.node}, freetop : Nat, broken : {FALSE}]
    BY <1>1, <2>2 DEF Rearrays
  <2>4. N.freetop \in 0 .. N.size /\ N.node \in [Slots(N) -> Entry(N)]
    BY <1>0, <1>1, <1>2, <2>1 DEF IsTab
  <2>5. N.array \in [0 .. N.asize - 1 -> IntKey \cup {Nil}]
    BY <1>1
  <2>. QED BY <2>3, <2>4, <2>5 DEF IsTab
<1>4. Valued(N)
  BY <1>0, <1>1, <1>2 DEF Valued
<1>5. Linked(N)
  <2>1. Linked(N) = Linked(T)
    BY <1>1, <1>2 DEF Linked
  <2>. QED BY <1>0, <2>1
<1>6. \A i : On(N, i) = On(T, i)
  BY <1>1, <1>2 DEF On
<1>7. Placed(h, N)
  BY <1>0, <1>1, <1>2, <1>6 DEF Placed
<1>8. FreeBelow(N)
  BY <1>0, <1>1, <1>2 DEF FreeBelow
<1>9. Sound(h, N)
  BY <1>0, <1>1, <1>3, <1>4, <1>5, <1>7, <1>8 DEF Sound
<1>10. NodeKeys(N) = NodeKeys(T)
  BY <1>1, <1>2 DEF NodeKeys
<1>11. ASSUME NEW x \in HKeys(h)
       PROVE  /\ Find(h, N, x) = Find(h, T, x)
              /\ Get(h, N, x) = IF InArray(T, x) THEN N.array[x] ELSE Get(h, T, x)
  <2>1. Find(h, N, x) = Find(h, T, x)
    <3>1. CASE \E i \in Slots(T) : T.node[i].key = x
      BY <1>0, <1>1, <1>2, <1>3, <1>5, <1>7, <3>1, FindIs
    <3>2. CASE \A i \in Slots(T) : T.node[i].key # x
      <4>1. \A i \in Slots(N) : N.node[i].key # x
        BY <1>1, <1>2, <3>2
      <4>. QED BY <1>0, <1>3, <1>5, <1>7, <3>2, <4>1, FindIs
    <3>. QED BY <3>1, <3>2
  <2>. QED BY <1>1, <1>2, <2>1 DEF Get
<1>. QED BY <1>1, <1>2, <1>9, <1>10, <1>11

\* N is T with v in the array part, for k.
ArrayPuts(h, T, N, k, v) ==
  /\ Sound(h, N) /\ N.asize = T.asize /\ N.size = T.size /\ N.node = T.node
  /\ Slots(N) = Slots(T) /\ NodeKeys(N) = NodeKeys(T)
  /\ \A x : InArray(N, x) = InArray(T, x)
  /\ \A i \in 0 .. T.asize - 1 : N.array[i] = IF i = k THEN v ELSE T.array[i]
  /\ \A x \in HKeys(h) : /\ Find(h, N, x) = Find(h, T, x)
                          /\ Get(h, N, x) = IF InArray(T, x) THEN N.array[x] ELSE Get(h, T, x)
InArrayGoes(T, N, k, v) == N = [T EXCEPT !.array[k] = v]
LEMMA ArrayPut ==
  ASSUME NEW h, Hashable(h), NEW T, Sound(h, T), NEW k \in IntKey, InArray(T, k), NEW v \in {k, Nil},
         NEW N, InArrayGoes(T, N, k, v)
  PROVE  ArrayPuts(h, T, N, k, v)
<1>1. /\ T \in [asize : Nat, array : {T.array}, size : Nat, node : {T.node}, freetop : Nat, broken : {FALSE}]
      /\ T.array \in [0 .. T.asize - 1 -> IntKey \cup {Nil}] /\ Valued(T)
  BY DEF Sound, IsTab
<1>2. k \in 0 .. T.asize - 1
  BY <1>1, Sorts DEF InArray, IntKey
<1>3. Rearrays(N, T) /\ N.array = [T.array EXCEPT ![k] = v]
  BY <1>1 DEF Rearrays, InArrayGoes
<1>4. N.array \in [0 .. T.asize - 1 -> IntKey \cup {Nil}]
      /\ \A i \in 0 .. T.asize - 1 : N.array[i] = IF i = k THEN v ELSE T.array[i]
  BY <1>1, <1>2, <1>3
<1>5. \A i \in 0 .. T.asize - 1 : N.array[i] \in {i, Nil}
  BY <1>1, <1>4 DEF Valued
<1>6. Rearrays(N, T) /\ N.array \in [0 .. T.asize - 1 -> IntKey \cup {Nil}]
  BY <1>3, <1>4
<1>. QED BY <1>4, <1>5, <1>6, Rearrayed DEF ArrayPuts

-----------------------------------------------------------------------------
(* Storing                                                                     *)

\* N is T with v for k.
Puts(h, T, N, k, v) ==
  /\ Sound(h, N) /\ N.asize = T.asize /\ N.size = T.size
  /\ \A x \in HKeys(h) : Get(h, N, x) = IF x = k THEN v ELSE Get(h, T, x)
  /\ NodeKeys(N) \subseteq NodeKeys(T) \cup {x \in {k} : ~InArray(T, x)}
LEMMA PutIs ==
  ASSUME NEW h, Hashable(h), NEW T, Sound(h, T), NEW k \in HKeys(h), NEW v, ValOK(k, v),
         InArray(T, k) \/ Find(h, T, k) # Null \/ ~Full(h, T, k),
         NEW N, N = Put(h, T, k, v)
  PROVE  /\ Puts(h, T, N, k, v)
         /\ InArray(T, k) \/ Find(h, T, k) # Null =>
              \A x \in HKeys(h) : Find(h, N, x) = Find(h, T, x)
<1>0. IsTab(T) /\ Linked(T) /\ Placed(h, T) /\ FreeBelow(T) /\ Valued(T) /\ SizeOK(T.size)
  BY DEF Sound
<1>1. /\ T \in [asize : Nat, array : {T.array}, size : Nat, node : {T.node}, freetop : Nat, broken : {FALSE}]
      /\ T.node \in [Slots(T) -> Entry(T)] /\ T.array \in [0 .. T.asize - 1 -> IntKey \cup {Nil}]
  BY <1>0 DEF IsTab
<1>2. T.broken = FALSE
  BY <1>1
<1>3. k \in Key /\ k # Nil /\ k # Self /\ v \in Key \cup {Nil, Self}
  BY HKeyIs DEF ValOK
<1>4. CASE InArray(T, k)
  <2>1. InArrayGoes(T, N, k, v)
    BY <1>2, <1>4 DEF Put, InArrayGoes
  <2>2. k \in IntKey /\ v \in {k, Nil}
    BY <1>1, <1>4, Sorts DEF InArray, IntKey, ValOK
  <2>3. ArrayPuts(h, T, N, k, v)
    BY <1>4, <2>1, <2>2, ArrayPut
  <2>4. \A i \in 0 .. T.asize - 1 : N.array[i] = IF i = k THEN v ELSE T.array[i]
    BY <2>3 DEF ArrayPuts
  <2>6. /\ Sound(h, N) /\ N.asize = T.asize /\ N.size = T.size /\ N.node = T.node
        /\ NodeKeys(N) = NodeKeys(T)
        /\ \A x \in HKeys(h) : /\ Find(h, N, x) = Find(h, T, x)
                               /\ Get(h, N, x) = IF InArray(T, x) THEN N.array[x] ELSE Get(h, T, x)
    BY <2>3 DEF ArrayPuts
  <2>7. ASSUME NEW x \in HKeys(h) PROVE Get(h, N, x) = IF x = k THEN v ELSE Get(h, T, x)
    <3>1. CASE InArray(T, x)
      <4>1. x \in 0 .. T.asize - 1 /\ Get(h, T, x) = T.array[x]
        BY <1>1, <3>1, Sorts DEF InArray, IntKey, Get
      <4>. QED BY <2>4, <2>6, <3>1, <4>1
    <3>2. CASE ~InArray(T, x)
      BY <1>4, <2>6, <3>2
    <3>. QED BY <3>1, <3>2
  <2>. QED BY <2>6, <2>7 DEF Puts
<1>5. CASE ~InArray(T, k) /\ Find(h, T, k) # Null
  <2>1. PICK i \in Slots(T) : T.node[i].key = k
    BY <1>0, <1>5, FindIs
  <2>2. Find(h, T, k) = i
    BY <1>0, <2>1, FindIs
  <2>3. N = [T EXCEPT !.node[i].val = v]
    BY <1>2, <1>5, <2>2 DEF Put
  <2>. DEFINE e == [T.node[i] EXCEPT !.val = v]
  <2>4. e \in Entry(T) /\ e.key = T.node[i].key /\ e.next = T.node[i].next /\ e.val = v
    BY <1>1, <1>3, <2>1 DEF Entry
  <2>5. Renodes(N, T) /\ N.freetop = T.freetop /\ N.node = [T.node EXCEPT ![i] = e]
    BY <1>1, <2>1, <2>3 DEF Renodes
  <2>. HIDE DEF e
  <2>6. /\ N.node \in [Slots(T) -> Entry(T)] /\ N.node[i] = e
        /\ \A j \in Slots(T) : j # i => N.node[j] = T.node[j]
    BY <1>1, <2>1, <2>4, <2>5
  <2>7. \A j \in Slots(T) : /\ N.node[j].key = T.node[j].key /\ N.node[j].next = T.node[j].next
                            /\ ValOK(T.node[j].key, N.node[j].val)
    BY <1>0, <2>1, <2>4, <2>6 DEF Valued
  <2>8. /\ Sound(h, N) /\ N.asize = T.asize /\ N.size = T.size /\ N.array = T.array
        /\ Slots(N) = Slots(T) /\ NodeKeys(N) = NodeKeys(T)
        /\ \A x : InArray(N, x) = InArray(T, x)
        /\ \A x \in HKeys(h) : Find(h, N, x) = Find(h, T, x)
    BY <2>5, <2>6, <2>7, Revalued
  <2>9. ASSUME NEW x \in HKeys(h) PROVE Get(h, N, x) = IF x = k THEN v ELSE Get(h, T, x)
    <3>0. Null \notin Slots(T) /\ IsTab(N) /\ Linked(N) /\ Placed(h, N)
      BY <1>0, <2>8, NoNode DEF Sound
    <3>1. CASE InArray(T, x)
      BY <1>5, <2>8, <3>1 DEF Get
    <3>2. CASE ~InArray(T, x) /\ \E j \in Slots(T) : T.node[j].key = x
      <4>1. PICK j \in Slots(T) : T.node[j].key = x
        BY <3>2
      <4>2. Get(h, T, x) = T.node[j].val /\ Get(h, N, x) = N.node[j].val
        BY <1>0, <2>7, <2>8, <3>0, <3>2, <4>1, GetIs
      <4>3. x = k => j = i
        BY <1>0, <1>3, <2>1, <4>1 DEF Placed
      <4>. QED BY <2>1, <2>4, <2>6, <4>1, <4>2, <4>3
    <3>3. CASE ~InArray(T, x) /\ \A j \in Slots(T) : T.node[j].key # x
      <4>1. \A j \in Slots(N) : N.node[j].key # x
        BY <2>7, <2>8, <3>3
      <4>2. Get(h, T, x) = Nil /\ Get(h, N, x) = Nil
        BY <1>0, <2>8, <3>0, <3>3, <4>1, GetIs
      <4>. QED BY <2>1, <3>3, <4>2
    <3>. QED BY <3>1, <3>2, <3>3
  <2>. QED BY <2>8, <2>9 DEF Puts
<1>6. CASE ~InArray(T, k) /\ Find(h, T, k) = Null
  <2>1. ~Full(h, T, k)
    BY <1>6
  <2>2. N = NewKey(h, T, k, v)
    BY <1>2, <1>6, <2>1 DEF Put
  <2>3. k \notin NodeKeys(T)
    BY <1>0, <1>6, FindIs, NoNode DEF NodeKeys
  <2>4. Sound(h, N) /\ Inserted(T, N, k, v)
    BY <1>6, <2>1, <2>2, <2>3, NewKeyIs
  <2>5. /\ \A x \in HKeys(h) : Get(h, N, x) = IF x = k THEN v ELSE Get(h, T, x)
        /\ NodeKeys(N) \subseteq NodeKeys(T) \cup {k}
    BY <1>6, <2>3, <2>4, InsertedGets
  <2>. QED BY <1>6, <2>4, <2>5 DEF Puts, Inserted
<1>. QED BY <1>4, <1>5, <1>6

-----------------------------------------------------------------------------
(* Resizing                                                                    *)

\* A table without a key in its hash part.
Fresh(N) ==
  /\ N \in [asize : Nat, array : {N.array}, size : Nat, node : {N.node}, freetop : {N.size},
            broken : {FALSE}]
  /\ SizeOK(N.size) /\ N.node = [i \in Slots(N) |-> FreeNode]
  /\ N.array \in [0 .. N.asize - 1 -> IntKey \cup {Nil}]
  /\ \A i \in 0 .. N.asize - 1 : N.array[i] \in {i, Nil}
LEMMA FreshIs ==
  ASSUME NEW h, Hashable(h), NEW N, Fresh(N)
  PROVE  /\ Sound(h, N) /\ NodeKeys(N) = {}
         /\ \A x \in HKeys(h) : /\ Find(h, N, x) = Null
                                /\ Get(h, N, x) = IF InArray(N, x) THEN N.array[x] ELSE Nil
<1>1. N.asize \in Nat /\ N.size \in Nat /\ N.freetop = N.size
  BY DEF Fresh
<1>2. \A i \in Slots(N) : N.node[i] = FreeNode
  BY Zenon DEF Fresh
<1>3. FreeNode \in Entry(N) /\ FreeNode.key = Nil /\ FreeNode.val = Nil /\ FreeNode.next = Null
  BY DEF FreeNode, Entry
<1>4. IsTab(N)
  <2>1. N.node \in [Slots(N) -> Entry(N)]
    BY <1>3 DEF Fresh
  <2>2. N \in [asize : Nat, array : {N.array}, size : Nat, node : {N.node}, freetop : Nat, broken : {FALSE}]
    BY <1>1 DEF Fresh
  <2>3. N.array \in [0 .. N.asize - 1 -> IntKey \cup {Nil}]
    BY DEF Fresh
  <2>4. N.freetop \in 0 .. N.size
    BY <1>1
  <2>. QED BY <2>1, <2>2, <2>3, <2>4 DEF IsTab
<1>5. Valued(N)
  BY <1>2, <1>3 DEF Valued, ValOK, Fresh
<1>6. Linked(N)
  <2>1. [i \in Slots(N) |-> 0] \in [Slots(N) -> Int]
    OBVIOUS
  <2>2. \E rank \in [Slots(N) -> Int] : \A i \in Slots(N) :
          N.node[i].next # Null => rank[N.node[i].next] < rank[i]
    BY <1>2, <1>3, <2>1
  <2>. QED BY <1>2, <1>3, <2>2 DEF Linked
<1>7. Placed(h, N)
  BY <1>2, <1>3 DEF Placed
<1>8. FreeBelow(N)
  BY <1>1, <1>2 DEF FreeBelow, Slots
<1>9. Sound(h, N)
  BY <1>4, <1>5, <1>6, <1>7, <1>8 DEF Sound, Fresh
<1>10. NodeKeys(N) = {}
  BY <1>2, <1>3 DEF NodeKeys
<1>11. ASSUME NEW x \in HKeys(h) PROVE Find(h, N, x) = Null
  <2>1. \A i \in Slots(N) : N.node[i].key # x
    BY <1>2, <1>3, HKeyIs
  <2>. QED BY <1>4, <1>6, <1>7, <2>1, FindIs
<1>. QED BY <1>9, <1>10, <1>11 DEF Get

IsEmpty(h, N, asize, size) ==
  /\ Sound(h, N) /\ NodeKeys(N) = {} /\ N.asize = asize /\ N.size = size /\ N.broken = FALSE
  /\ N.array = [i \in 0 .. asize - 1 |-> Nil] /\ N.node = [i \in Slots(N) |-> FreeNode]
  /\ \A x \in HKeys(h) : Find(h, N, x) = Null /\ Get(h, N, x) = Nil
LEMMA EmptyIs ==
  ASSUME NEW h, Hashable(h), NEW asize \in Nat, NEW size \in Nat, SizeOK(size), NEW N, N = Empty(asize, size)
  PROVE  IsEmpty(h, N, asize, size)
<1>1. /\ N.asize = asize /\ N.array = [i \in 0 .. asize - 1 |-> Nil] /\ N.size = size
      /\ N.node = [i \in 0 .. size - 1 |-> FreeNode] /\ N.freetop = size /\ N.broken = FALSE
  BY DEF Empty
<1>2. N \in [asize : {N.asize}, array : {N.array}, size : {N.size}, node : {N.node}, freetop : {N.freetop},
             broken : {N.broken}]
  BY DEF Empty
<1>3. N \in [asize : Nat, array : {N.array}, size : Nat, node : {N.node}, freetop : {N.size}, broken : {FALSE}]
  <2>1. N.asize \in Nat /\ N.size \in Nat /\ N.freetop \in {N.size} /\ N.broken \in {FALSE}
    BY <1>1
  <2>. HIDE DEF Empty
  <2>. QED BY <1>2, <2>1
<1>4. N.node = [i \in Slots(N) |-> FreeNode]
  BY <1>1 DEF Slots
<1>5. N.array \in [0 .. N.asize - 1 -> IntKey \cup {Nil}] /\ \A i \in 0 .. N.asize - 1 : N.array[i] = Nil
  BY <1>1
<1>6. /\ Sound(h, N) /\ NodeKeys(N) = {}
      /\ \A x \in HKeys(h) : /\ Find(h, N, x) = Null
                             /\ Get(h, N, x) = IF InArray(N, x) THEN N.array[x] ELSE Nil
  <2>1. SizeOK(N.size) /\ \A i \in 0 .. N.asize - 1 : N.array[i] \in {i, Nil}
    BY <1>1, <1>5
  <2>2. Fresh(N)
    BY <1>3, <1>4, <1>5, <2>1 DEF Fresh
  <2>. QED BY <2>2, FreshIs
<1>7. ASSUME NEW x \in HKeys(h), InArray(N, x) PROVE N.array[x] = Nil
  BY <1>1, <1>5, <1>7, Sorts DEF InArray, IntKey
<1>. QED BY <1>1, <1>4, <1>6, <1>7 DEF IsEmpty

\* Looking up in a sound table.
LEMMA ValueIs ==
  ASSUME NEW h, Hashable(h), NEW T, Sound(h, T), NEW x \in HKeys(h)
  PROVE  /\ InArray(T, x) => x \in 0 .. T.asize - 1 /\ x \in IntKey /\ Get(h, T, x) = T.array[x]
         /\ ValOK(x, Get(h, T, x))
         /\ \A i \in Slots(T) : T.node[i].key = x => ~InArray(T, x) /\ Get(h, T, x) = T.node[i].val
         /\ Get(h, T, x) # Nil => InArray(T, x) \/ \E i \in Slots(T) : T.node[i].key = x
<1>0. IsTab(T) /\ Linked(T) /\ Placed(h, T) /\ Valued(T) /\ x # Nil
  BY HKeyIs DEF Sound
<1>1. InArray(T, x) => x \in 0 .. T.asize - 1 /\ x \in IntKey /\ Get(h, T, x) = T.array[x]
  BY <1>0, Sorts DEF InArray, IntKey, IsTab, Get
<1>2. ASSUME NEW i \in Slots(T), T.node[i].key = x PROVE ~InArray(T, x) /\ Get(h, T, x) = T.node[i].val
  <2>1. ~InArray(T, x)
    BY <1>0, <1>2 DEF Placed
  <2>. QED BY <1>0, <1>2, <2>1, GetIs
<1>3. Get(h, T, x) # Nil => InArray(T, x) \/ \E i \in Slots(T) : T.node[i].key = x
  BY <1>0, GetIs
<1>4. ValOK(x, Get(h, T, x))
  <2>1. CASE InArray(T, x)
    BY <1>0, <1>1, <2>1 DEF Valued, ValOK
  <2>2. CASE \E i \in Slots(T) : T.node[i].key = x
    BY <1>0, <1>2, <2>2 DEF Valued
  <2>3. CASE Get(h, T, x) = Nil
    BY <2>3 DEF ValOK
  <2>. QED BY <1>3, <2>1, <2>2, <2>3
<1>. QED BY <1>1, <1>2, <1>3, <1>4

\* One step of lj_tab_resize, and f what there is after each of m of them.
Reinserted(h, T, asize, j, N) ==
  LET p == Again(T, asize, j) IN IF p.val = Nil THEN N ELSE Put(h, N, p.key, p.val)
Reinserting(h, T, asize, new, m, f) ==
  f = [j \in 0 .. m |-> IF j = 0 THEN new ELSE Reinserted(h, T, asize, j, f[j - 1])]
LEMMA Reinserts ==
  ASSUME NEW h, NEW T, NEW asize, NEW new, NEW n \in Nat
  PROVE  \E f : Reinserting(h, T, asize, new, n, f)
<1>. DEFINE P(m) == \E f : Reinserting(h, T, asize, new, m, f)
            S == {m \in Nat : ~P(m)}
<1>. SUFFICES ASSUME S # {} PROVE FALSE
  OBVIOUS
<1>. HIDE DEF P
<1>1. PICK q \in S : \A m \in S : q <= m
  <2>1. S \subseteq Nat
    OBVIOUS
  <2>. HIDE DEF S
  <2>. QED BY <2>1, LeastOf
<1>2. q \in Nat /\ ~P(q)
  BY <1>1
<1>3. P(0)
  <2>. DEFINE f == [j \in 0 .. 0 |-> new]
  <2>1. \A j \in 0 .. 0 : j = 0
    OBVIOUS
  <2>2. f = [j \in 0 .. 0 |-> IF j = 0 THEN new ELSE Reinserted(h, T, asize, j, f[j - 1])]
    BY <2>1
  <2>. HIDE DEF f
  <2>. QED BY <2>2 DEF P, Reinserting
<1>4. q # 0 /\ q - 1 \in Nat /\ P(q - 1)
  <2>1. q # 0
    BY <1>2, <1>3
  <2>2. q - 1 \in Nat /\ ~(q <= q - 1)
    BY <1>2, <2>1
  <2>. QED BY <1>1, <2>1, <2>2 DEF S
<1>5. PICK f : f = [j \in 0 .. q - 1 |-> IF j = 0 THEN new ELSE Reinserted(h, T, asize, j, f[j - 1])]
  BY <1>4 DEF P, Reinserting
<1>. DEFINE g == [j \in 0 .. q |-> IF j = q THEN Reinserted(h, T, asize, q, f[q - 1]) ELSE f[j]]
<1>6. ASSUME NEW j \in 0 .. q
      PROVE  g[j] = IF j = 0 THEN new ELSE Reinserted(h, T, asize, j, g[j - 1])
  <2>1. j \in Nat /\ j <= q
    BY <1>2
  <2>2. CASE j = q
    <3>1. g[j] = Reinserted(h, T, asize, q, f[q - 1]) /\ j - 1 \in 0 .. q /\ j - 1 # q
      BY <1>2, <1>4, <2>2
    <3>2. g[j - 1] = f[q - 1]
      BY <2>2, <3>1
    <3>. QED BY <1>4, <2>2, <3>1, <3>2
  <2>3. CASE j # q /\ j # 0
    <3>1. j \in 0 .. q - 1 /\ j - 1 \in 0 .. q /\ j - 1 # q
      BY <1>2, <2>1, <2>3
    <3>2. f[j] = Reinserted(h, T, asize, j, f[j - 1])
      BY <1>5, <2>3, <3>1
    <3>3. g[j] = f[j] /\ g[j - 1] = f[j - 1]
      BY <2>3, <3>1
    <3>. QED BY <2>3, <3>2, <3>3
  <2>4. CASE j # q /\ j = 0
    <3>1. 0 \in 0 .. q - 1
      BY <1>4
    <3>2. f[0] = new
      BY <1>5, <3>1
    <3>. QED BY <2>4, <3>2
  <2>. QED BY <2>2, <2>3, <2>4
<1>7. g = [j \in 0 .. q |-> g[j]]
  OBVIOUS
<1>. HIDE DEF g
<1>8. g = [j \in 0 .. q |-> IF j = 0 THEN new ELSE Reinserted(h, T, asize, j, g[j - 1])]
  BY <1>6, <1>7
<1>9. P(q)
  BY <1>8 DEF P, Reinserting
<1>. QED BY <1>2, <1>9

\* What is inserted again has the value it had, and everything that is not in the new array
\* part is inserted again.
LEMMA AgainIs ==
  ASSUME NEW h, Hashable(h), NEW T, Sound(h, T), NEW asize \in Nat, NEW n, n = Moved(T, asize) + T.size
  PROVE  /\ n \in Nat
         /\ \A j \in 1 .. n : LET p == Again(T, asize, j) IN
              p.val # Nil => p.key \in HKeys(h) /\ Get(h, T, p.key) = p.val /\ ValOK(p.key, p.val)
                             /\ ~(InArray(T, p.key) /\ p.key < asize)
         /\ \A x \in HKeys(h) : Get(h, T, x) # Nil /\ ~(InArray(T, x) /\ x < asize) =>
              \E j \in 1 .. n : Again(T, asize, j).key = x /\ Again(T, asize, j).val = Get(h, T, x)
<1>. DEFINE m == Moved(T, asize)
<1>0. IsTab(T) /\ Placed(h, T) /\ Valued(T) /\ FreeBelow(T)
  BY DEF Sound
<1>1. T.asize \in Nat /\ T.size \in Nat /\ T.array \in [0 .. T.asize - 1 -> IntKey \cup {Nil}]
  BY <1>0 DEF IsTab
<1>2. m \in Nat /\ (m > 0 => m = T.asize - asize)
      /\ (asize < T.asize => m = T.asize - asize)
  BY <1>1 DEF Moved
<1>. HIDE DEF m
<1>3. n = m + T.size /\ n \in Nat
  BY <1>1, <1>2 DEF m
<1>4. ASSUME NEW j \in 1 .. n, NEW p, p = Again(T, asize, j), p.val # Nil
      PROVE  /\ p.key \in HKeys(h) /\ Get(h, T, p.key) = p.val /\ ValOK(p.key, p.val)
             /\ ~(InArray(T, p.key) /\ p.key < asize)
  <2>1. CASE j <= m
    <3>1. p = [key |-> asize + j - 1, val |-> T.array[asize + j - 1]]
      BY <1>4, <2>1 DEF Again, m
    <3>2. asize + j - 1 \in 0 .. T.asize - 1 /\ ~(asize + j - 1 < asize)
      BY <1>1, <1>2, <1>3, <2>1
    <3>3. PICK i \in 0 .. T.asize - 1 : i = asize + j - 1
      BY <3>2
    <3>4. p.key = i /\ p.val = T.array[i] /\ ~(i < asize)
      BY <3>1, <3>2, <3>3
    <3>5. i \in IntKey /\ p.val = i
      BY <1>0, <1>1, <1>4, <3>4 DEF Valued
    <3>6. InArray(T, i) /\ i \in HKeys(h)
      BY <1>1, <3>5 DEF InArray, HKeys
    <3>7. Get(h, T, i) = T.array[i] /\ ValOK(i, Get(h, T, i))
      BY <3>6, ValueIs
    <3>. QED BY <3>4, <3>6, <3>7
  <2>2. CASE ~(j <= m)
    <3>1. p = T.node[m + T.size - j]
      BY <1>4, <2>2 DEF Again, m
    <3>2. m + T.size - j \in Slots(T)
      BY <1>1, <1>2, <1>3, <2>2 DEF Slots
    <3>3. PICK i \in Slots(T) : p = T.node[i]
      BY <3>1, <3>2
    <3>4. p.key # Nil
      BY <1>0, <1>4, <3>3 DEF FreeBelow, FreeNode
    <3>5. p.key \in HKeys(h)
      BY <1>0, <3>3, <3>4 DEF Placed
    <3>. QED BY <3>3, <3>5, ValueIs
  <2>. QED BY <2>1, <2>2
<1>5. ASSUME NEW x \in HKeys(h), Get(h, T, x) # Nil, ~(InArray(T, x) /\ x < asize)
      PROVE  \E j \in 1 .. n : Again(T, asize, j).key = x /\ Again(T, asize, j).val = Get(h, T, x)
  <2>1. CASE InArray(T, x)
    <3>1. x \in 0 .. T.asize - 1 /\ Get(h, T, x) = T.array[x] /\ x \in Nat /\ ~(x < asize)
      BY <1>1, <1>5, <2>1, ValueIs
    <3>. DEFINE j == x - asize + 1
    <3>2. j \in 1 .. n /\ j <= m /\ asize + j - 1 = x
      <4>1. x \in Nat /\ x >= asize /\ x < T.asize
        BY <1>1, <3>1
      <4>2. m = T.asize - asize /\ m \in Nat
        BY <1>1, <1>2, <4>1
      <4>. QED BY <1>1, <1>3, <4>1, <4>2
    <3>3. Again(T, asize, j) = [key |-> asize + j - 1, val |-> T.array[asize + j - 1]]
      BY <3>2 DEF Again, m
    <3>4. Again(T, asize, j).key = x /\ Again(T, asize, j).val = T.array[x]
      BY <3>2, <3>3
    <3>. QED BY <3>1, <3>2, <3>4
  <2>2. CASE ~InArray(T, x)
    <3>1. PICK i \in Slots(T) : T.node[i].key = x
      BY <1>5, <2>2, ValueIs
    <3>2. Get(h, T, x) = T.node[i].val
      BY <3>1, ValueIs
    <3>. DEFINE j == m + T.size - i
    <3>3. j \in 1 .. n /\ ~(j <= m) /\ m + T.size - j = i
      BY <1>1, <1>2, <1>3 DEF Slots
    <3>4. Again(T, asize, j) = T.node[m + T.size - j]
      BY <3>3 DEF Again, m
    <3>. QED BY <3>1, <3>2, <3>3, <3>4
  <2>. QED BY <2>1, <2>2
<1>6. \A j \in 1 .. n : LET p == Again(T, asize, j) IN
        p.val # Nil => p.key \in HKeys(h) /\ Get(h, T, p.key) = p.val /\ ValOK(p.key, p.val)
                       /\ ~(InArray(T, p.key) /\ p.key < asize)
  BY <1>4
<1>. QED BY <1>3, <1>5, <1>6

LEMMA UpTo ==
  ASSUME NEW n \in Nat, NEW S, 0 \in S, \A j \in 1 .. n : j - 1 \in S => j \in S
  PROVE  \A j \in 0 .. n : j \in S
<1>. DEFINE D == {j \in 0 .. n : j \notin S}
<1>. SUFFICES ASSUME D # {} PROVE FALSE
  OBVIOUS
<1>1. PICK q \in D : \A m \in D : q <= m
  <2>1. D \subseteq Nat
    OBVIOUS
  <2>. HIDE DEF D
  <2>. QED BY <2>1, LeastOf
<1>2. q # 0 /\ q \in 1 .. n /\ q - 1 \in 0 .. n /\ ~(q <= q - 1)
  BY <1>1
<1>3. q - 1 \in S
  BY <1>1, <1>2
<1>. QED BY <1>1, <1>2, <1>3

\* R is T with another array part and a new hash part, the keys of which are in H.
Resizes(h, T, R, asize, size, H) ==
  /\ Sound(h, R) /\ R.asize = asize /\ R.size = size
  /\ \A x \in HKeys(h) : Get(h, R, x) = Get(h, T, x)
  /\ NodeKeys(R) \subseteq H
\* the keys of T that do not belong into an array of that size
Hashed(h, T, asize) == {x \in HKeys(h) : Get(h, T, x) # Nil /\ ~(x \in IntKey /\ x < asize)}
LEMMA ResizeIs ==
  ASSUME NEW h, Hashable(h), NEW T, Sound(h, T), NEW asize \in Nat, NEW size \in Nat, SizeOK(size),
         NEW H, H = Hashed(h, T, asize), IsFiniteSet(H), Cardinality(H) <= size,
         NEW R, R = lj_tab_resize(h, T, asize, size)
  PROVE  Resizes(h, T, R, asize, size, H)
<1>. DEFINE new == [Empty(asize, size) EXCEPT
                !.array = [i \in 0 .. asize - 1 |-> IF i < T.asize THEN T.array[i] ELSE Nil]]
            n == Moved(T, asize) + T.size
            Body(f) == [j \in 0 .. n |-> IF j = 0 THEN new ELSE Reinserted(h, T, asize, j, f[j - 1])]
            f == CHOOSE f : f = Body(f)
<1>0. IsTab(T) /\ Placed(h, T) /\ Valued(T)
  BY DEF Sound
<1>1. T.asize \in Nat /\ T.size \in Nat /\ T.array \in [0 .. T.asize - 1 -> IntKey \cup {Nil}]
  BY <1>0 DEF IsTab
<1>2. n \in Nat
  BY AgainIs
<1>3. R = f[n]
  BY DEF lj_tab_resize, Reinserted
<1>4. f = Body(f)
  <2>1. \E g : Reinserting(h, T, asize, new, n, g)
    <3>. HIDE DEF new, n
    <3>. QED BY <1>2, Reinserts
  <2>2. \E g : g = Body(g)
    BY <2>1 DEF Reinserting
  <2>. HIDE DEF Body
  <2>. QED BY <2>2
<1>5. Fresh(new) /\ new.asize = asize /\ new.size = size
      /\ \A i \in 0 .. asize - 1 : new.array[i] = IF i < T.asize THEN T.array[i] ELSE Nil
  <2>. DEFINE A == [i \in 0 .. asize - 1 |-> IF i < T.asize THEN T.array[i] ELSE Nil]
  <2>1. A \in [0 .. asize - 1 -> IntKey \cup {Nil}] /\ \A i \in 0 .. asize - 1 : A[i] = IF i < T.asize THEN T.array[i] ELSE Nil
    BY <1>1
  <2>2. \A i \in 0 .. asize - 1 : A[i] \in {i, Nil}
    BY <1>0, <1>1 DEF Valued
  <2>. HIDE DEF A
  <2>3. PICK N : N = [Empty(asize, size) EXCEPT !.array = A]
    OBVIOUS
  <2>4. /\ N \in [asize : {asize}, array : {A}, size : {size}, node : {[i \in 0 .. size - 1 |-> FreeNode]},
                  freetop : {size}, broken : {FALSE}]
    BY <2>3 DEF Empty
  <2>5. N.asize = asize /\ N.array = A /\ N.size = size /\ N.node = [i \in 0 .. size - 1 |-> FreeNode]
        /\ N.freetop = size
    BY <2>4
  <2>6. Slots(N) = 0 .. size - 1
    BY <2>5 DEF Slots
  <2>7. N \in [asize : Nat, array : {N.array}, size : Nat, node : {N.node}, freetop : {N.size}, broken : {FALSE}]
    BY <2>4
  <2>8. Fresh(N)
    BY <2>1, <2>2, <2>5, <2>6, <2>7 DEF Fresh
  <2>9. new = N
    BY <2>3 DEF A
  <2>. HIDE DEF new
  <2>. QED BY <2>1, <2>5, <2>8, <2>9
<1>. DEFINE Done(j, x) == \/ InArray(T, x) /\ x < asize
                          \/ \E i \in 1 .. j : Again(T, asize, i).key = x /\ Again(T, asize, i).val # Nil
            P(j) == /\ Sound(h, f[j]) /\ f[j].asize = asize /\ f[j].size = size
                    /\ NodeKeys(f[j]) \subseteq H
                    /\ \A x \in HKeys(h) : Get(h, f[j], x) = IF Done(j, x) THEN Get(h, T, x) ELSE Nil
            S == {j \in 0 .. n : P(j)}
<1>6. f[0] = new /\ \A j \in 1 .. n : f[j] = Reinserted(h, T, asize, j, f[j - 1])
  <2>. HIDE DEF f, new, n
  <2>1. ASSUME NEW j \in 1 .. n PROVE f[j] = Reinserted(h, T, asize, j, f[j - 1])
    <3>1. j \in 0 .. n /\ j # 0
      OBVIOUS
    <3>. QED BY <1>4, <3>1
  <2>2. 0 \in 0 .. n
    BY <1>2
  <2>. QED BY <1>4, <2>1, <2>2
<1>. HIDE DEF f, new, n
<1>7. P(0)
  <2>1. /\ Sound(h, new) /\ NodeKeys(new) = {}
        /\ \A x \in HKeys(h) : Get(h, new, x) = IF InArray(new, x) THEN new.array[x] ELSE Nil
    BY <1>5, FreshIs
  <2>2. ASSUME NEW x \in HKeys(h) PROVE Get(h, new, x) = IF Done(0, x) THEN Get(h, T, x) ELSE Nil
    <3>1. Done(0, x) <=> InArray(T, x) /\ x < asize
      OBVIOUS
    <3>2. InArray(new, x) => x \in 0 .. asize - 1
      BY <1>5, Sorts DEF InArray, IntKey
    <3>3. InArray(new, x) => new.array[x] = IF x < T.asize THEN T.array[x] ELSE Nil
      BY <1>5, <3>2
    <3>4. InArray(T, x) => Get(h, T, x) = T.array[x]
      BY DEF Get
    <3>5. (InArray(T, x) /\ x < asize) <=> (InArray(new, x) /\ x < T.asize)
      BY <1>5 DEF InArray
    <3>. HIDE DEF Done
    <3>. QED BY <2>1, <3>1, <3>3, <3>4, <3>5
  <2>. HIDE DEF Done
  <2>. QED BY <1>5, <1>6, <2>1, <2>2
<1>8. ASSUME NEW j \in 1 .. n, P(j - 1) PROVE P(j)
  <2>. PICK p : p = Again(T, asize, j)
    OBVIOUS
  <2>. PICK N : N = f[j - 1]
    OBVIOUS
  <2>0. j \in Nat /\ j > 0
    BY <1>2
  <2>1. /\ Sound(h, N) /\ N.asize = asize /\ N.size = size /\ NodeKeys(N) \subseteq H
        /\ \A x \in HKeys(h) : Get(h, N, x) = IF Done(j - 1, x) THEN Get(h, T, x) ELSE Nil
    BY <1>8
  <2>2. f[j] = IF p.val = Nil THEN N ELSE Put(h, N, p.key, p.val)
    BY <1>6 DEF Reinserted
  <2>3. \A x : Done(j, x) <=> Done(j - 1, x) \/ (p.key = x /\ p.val # Nil)
    <3>1. \A i : i \in 1 .. j <=> i \in 1 .. j - 1 \/ i = j
      BY <2>0
    <3>. QED BY <3>1
  <2>. HIDE DEF Done
  <2>4. CASE p.val = Nil
    BY <2>1, <2>2, <2>3, <2>4
  <2>5. CASE p.val # Nil
    <3>1. p.key \in HKeys(h) /\ Get(h, T, p.key) = p.val /\ ValOK(p.key, p.val)
      BY <2>5, AgainIs DEF n
    <3>2. ASSUME ~InArray(N, p.key) PROVE p.key \in H
      BY <2>1, <2>5, <3>1, <3>2 DEF Hashed, InArray
    <3>3. InArray(N, p.key) \/ Find(h, N, p.key) # Null \/ ~Full(h, N, p.key)
      <4>. SUFFICES ASSUME ~InArray(N, p.key), Find(h, N, p.key) = Null PROVE ~Full(h, N, p.key)
        OBVIOUS
      <4>1. p.key \notin NodeKeys(N)
        BY <2>1, <3>1, FindIs, NoNode DEF NodeKeys, Sound
      <4>. DEFINE H1 == H \ {p.key}
      <4>2. IsFiniteSet(H1) /\ Cardinality(H1) = Cardinality(H) - 1 /\ Cardinality(H) \in Nat
            /\ Cardinality(H1) \in Nat
        BY <3>2, FS_RemoveElement, FS_CardinalityType
      <4>3. Cardinality(H1) < N.size /\ N.size # 0
        BY <2>1, <4>2
      <4>4. NodeKeys(N) \subseteq H1
        BY <2>1, <4>1
      <4>. HIDE DEF H1
      <4>. QED BY <2>1, <4>2, <4>3, <4>4, RoomLeft
    <3>4. Puts(h, N, f[j], p.key, p.val)
      BY <2>1, <2>2, <2>5, <3>1, <3>3, PutIs
    <3>5. NodeKeys(f[j]) \subseteq H
      BY <2>1, <3>2, <3>4 DEF Puts
    <3>6. ASSUME NEW x \in HKeys(h) PROVE Get(h, f[j], x) = IF Done(j, x) THEN Get(h, T, x) ELSE Nil
      BY <2>1, <2>3, <2>5, <3>1, <3>4 DEF Puts
    <3>. QED BY <2>1, <3>4, <3>5, <3>6 DEF Puts
  <2>. QED BY <2>4, <2>5
<1>9. P(n)
  <2>. HIDE DEF P
  <2>1. 0 \in S
    BY <1>2, <1>7
  <2>2. ASSUME NEW j \in 1 .. n, j - 1 \in S PROVE j \in S
    BY <1>2, <1>8, <2>2
  <2>3. n \in S
    <3>. HIDE DEF S
    <3>. QED BY <1>2, <2>1, <2>2, UpTo
  <2>. QED BY <2>3
<1>10. ASSUME NEW x \in HKeys(h) PROVE Get(h, R, x) = Get(h, T, x)
  <2>1. Get(h, R, x) = IF Done(n, x) THEN Get(h, T, x) ELSE Nil
    BY <1>3, <1>9
  <2>2. Get(h, T, x) # Nil => Done(n, x)
    <3>1. ASSUME Get(h, T, x) # Nil, ~(InArray(T, x) /\ x < asize)
          PROVE  \E i \in 1 .. n : Again(T, asize, i).key = x /\ Again(T, asize, i).val = Get(h, T, x)
      BY <3>1, AgainIs DEF n
    <3>. QED BY <3>1
  <2>. HIDE DEF Done
  <2>. QED BY <2>1, <2>2
<1>. QED BY <1>3, <1>9, <1>10 DEF Resizes

\* A rehash makes room for the key that does not fit.
LEMMA RehashIs ==
  ASSUME NEW h, Hashable(h), NEW T, Sound(h, T), NEW k \in HKeys(h), k \notin NodeKeys(T), ~InArray(T, k),
         NEW R, R = rehashtab(h, T, k)
  PROVE  /\ \E asize, size, H : Resizes(h, T, R, asize, size, H)
         /\ InArray(R, k) \/ Find(h, R, k) # Null \/ ~Full(h, R, k)
<1>. DEFINE used == {i \in 0 .. T.asize - 1 : T.array[i] # Nil}
            nodes == {i \in 0 .. T.size - 1 : T.node[i].val # Nil}
            held == {T.node[i].key : i \in nodes}
            ints == used \cup ((held \cup {k}) \cap IntKey)
            upto(m) == Cardinality({i \in ints : i <= m})
            fits == {b \in 0 .. MaxInt :
                       /\ \E i \in ints : i <= Pow2[b + 1] /\ (b > 0 => i > Pow2[b])
                       /\ 2 * upto(Pow2[b + 1]) > Pow2[b]}
            asize == IF fits = {} THEN 0 ELSE Pow2[Max(fits) + 1] + 1
            na == IF fits = {} THEN 0 ELSE upto(Pow2[Max(fits) + 1])
            size == Room(Cardinality(used) + Cardinality(nodes) - na)
            K == used \cup held \cup {k}
            below == {i \in ints : i < asize}
            H == Hashed(h, T, asize)
<1>0. IsTab(T) /\ Placed(h, T) /\ Valued(T) /\ FreeBelow(T)
  BY DEF Sound
<1>1. T.asize \in Nat /\ T.size \in Nat /\ T.array \in [0 .. T.asize - 1 -> IntKey \cup {Nil}]
  BY <1>0 DEF IsTab
<1>2. R = lj_tab_resize(h, T, asize, size)
  BY DEF rehashtab
<1>3. used \subseteq IntKey /\ used \subseteq Nat /\ ints \subseteq Nat /\ ints \subseteq IntKey
  <2>1. ASSUME NEW i \in used PROVE i \in IntKey /\ i \in Nat
    <3>1. T.array[i] = i
      BY <1>0 DEF Valued
    <3>. QED BY <1>1, <3>1
  <2>2. IntKey \subseteq Nat
    BY Sorts DEF IntKey
  <2>. QED BY <2>1, <2>2
<1>4. asize \in Nat /\ na = Cardinality(below)
  <2>1. CASE fits = {}
    <3>1. asize = 0 /\ below = {} /\ na = 0
      <4>. HIDE DEF fits
      <4>1. asize = 0 /\ na = 0
        BY <2>1
      <4>2. ASSUME NEW i \in below PROVE FALSE
        <5>1. i \in ints /\ i < asize
          OBVIOUS
        <5>. HIDE DEF asize, na, ints, below
        <5>2. i \in Nat
          BY <1>3, <5>1
        <5>. QED BY <4>1, <5>1, <5>2
      <4>. HIDE DEF asize, na, below
      <4>. QED BY <4>1, <4>2
    <3>. HIDE DEF below, fits
    <3>. QED BY <3>1, FS_EmptySet
  <2>2. CASE fits # {}
    <3>1. fits \in SUBSET (0 .. MaxInt) /\ MaxInt \in Nat
      BY Sorts
    <3>2. Max(fits) \in 0 .. MaxInt
      <4>. HIDE DEF fits
      <4>. QED BY <2>2, <3>1, GreatestOf
    <3>3. PICK b : b = Max(fits)
      OBVIOUS
    <3>4. b + 1 \in Nat /\ Pow2[b + 1] \in Nat
      BY <3>1, <3>2, <3>3, Pow2Is
    <3>5. PICK q \in Nat : q = Pow2[b + 1]
      BY <3>4
    <3>. HIDE DEF fits
    <3>6. asize = q + 1 /\ na = upto(q)
      BY <2>2, <3>3, <3>5
    <3>7. \A i \in ints : i < asize <=> i <= q
      <4>. HIDE DEF asize, na, ints
      <4>. QED BY <1>3, <3>6
    <3>8. below = {i \in ints : i <= q}
      <4>. HIDE DEF asize, na, ints
      <4>. QED BY <3>7
    <3>. HIDE DEF asize, na, ints, below
    <3>. QED BY <1>3, <3>6, <3>8
  <2>. QED BY <2>1, <2>2
<1>. HIDE DEF asize, na
<1>5. /\ IsFiniteSet(K) /\ Cardinality(K) \in Nat
      /\ Cardinality(used) \in Nat /\ Cardinality(nodes) \in Nat
      /\ Cardinality(K) <= Cardinality(used) + Cardinality(nodes) + 1
  <2>1. IsFiniteSet(used) /\ IsFiniteSet(nodes)
    <3>0. T.asize - 1 \in Int /\ T.size - 1 \in Int
      BY <1>1
    <3>1. IsFiniteSet(0 .. T.asize - 1) /\ IsFiniteSet(0 .. T.size - 1)
      <4>1. \A b \in Int : IsFiniteSet(0 .. b)
        BY FS_Interval
      <4>. QED BY <3>0, <4>1
    <3>. QED BY <3>1, FS_Subset
  <2>2. IsFiniteSet(held) /\ Cardinality(held) <= Cardinality(nodes)
    <3>. DEFINE g == [i \in nodes |-> T.node[i].key]
    <3>1. g \in Surjection(nodes, held)
      BY DEF Surjection
    <3>. HIDE DEF g, nodes, held
    <3>. QED BY <2>1, <3>1, FS_Surjection
  <2>. HIDE DEF used, nodes, held
  <2>3. /\ Cardinality(used) \in Nat /\ Cardinality(nodes) \in Nat /\ Cardinality(held) \in Nat
    BY <2>1, <2>2, FS_CardinalityType
  <2>. DEFINE A == used \cup held
  <2>4. IsFiniteSet(A) /\ Cardinality(A) = Cardinality(used) + Cardinality(held) - Cardinality(used \cap held)
    BY <2>1, <2>2, FS_Union
  <2>5. Cardinality(used \cap held) \in Nat
    <3>1. IsFiniteSet(used \cap held)
      BY <2>1, FS_Intersection
    <3>. QED BY <3>1, FS_CardinalityType
  <2>6. Cardinality(A) \in Nat
    BY <2>4, FS_CardinalityType
  <2>7. IsFiniteSet(A \cup {k}) /\ Cardinality(A \cup {k}) = IF k \in A THEN Cardinality(A) ELSE Cardinality(A) + 1
    <3>. HIDE DEF A
    <3>. QED BY <2>4, FS_AddElement
  <2>8. K = A \cup {k}
    OBVIOUS
  <2>. HIDE DEF A, K
  <2>9. Cardinality(K) \in Nat
    BY <2>7, <2>8, FS_CardinalityType
  <2>. QED BY <2>2, <2>3, <2>4, <2>5, <2>6, <2>7, <2>8, <2>9
<1>6. below \subseteq K /\ IsFiniteSet(below) /\ Cardinality(below) \in Nat /\ Cardinality(below) <= Cardinality(K)
  <2>1. below \in SUBSET K
    OBVIOUS
  <2>. HIDE DEF below, K
  <2>. QED BY <1>5, <2>1, FS_Subset, FS_CardinalityType
<1>. DEFINE H1 == K \ below
<1>7. IsFiniteSet(H1) /\ Cardinality(H1) \in Nat /\ Cardinality(H1) = Cardinality(K) - Cardinality(below)
  <2>1. IsFiniteSet(H1)
    <3>1. H1 \in SUBSET K
      OBVIOUS
    <3>. HIDE DEF H1, K
    <3>. QED BY <1>5, <3>1, FS_Subset
  <2>2. K = H1 \cup below /\ H1 \cap below = {}
    BY <1>6
  <2>. HIDE DEF H1, below, K
  <2>3. Cardinality(H1 \cup below) = Cardinality(H1) + Cardinality(below) - Cardinality(H1 \cap below)
    BY <1>6, <2>1, FS_Union
  <2>4. Cardinality(H1 \cap below) = 0 /\ Cardinality(H1) \in Nat
    BY <2>1, <2>2, FS_EmptySet, FS_CardinalityType
  <2>. QED BY <1>6, <2>1, <2>2, <2>3, <2>4
<1>8. size \in Nat /\ SizeOK(size) /\ Cardinality(H1) <= size
  <2>. DEFINE c == 1 + (Cardinality(used) + Cardinality(nodes) - na)
  <2>. HIDE DEF used, nodes, K, below, H1
  <2>1. c \in Nat /\ Cardinality(H1) <= c
    BY <1>4, <1>5, <1>6, <1>7
  <2>2. size = HashSize(c)
    BY DEF Room
  <2>. HIDE DEF c, size
  <2>3. size \in Nat /\ size >= c /\ SizeOK(size)
    BY <2>1, <2>2, HashSizeIs
  <2>. QED BY <1>7, <2>1, <2>3
<1>9. H \subseteq H1 /\ k \notin H
  <2>0. \A x \in HKeys(h) : x # Nil
    BY HKeyIs
  <2>1. ASSUME NEW x \in H PROVE x \in K
    <3>1. x \in HKeys(h) /\ Get(h, T, x) # Nil
      BY DEF Hashed
    <3>2. CASE InArray(T, x)
      BY <3>1, <3>2, ValueIs
    <3>3. CASE \E i \in Slots(T) : T.node[i].key = x
      <4>1. PICK i \in Slots(T) : T.node[i].key = x
        BY <3>3
      <4>2. i \in nodes
        BY <3>1, <4>1, ValueIs DEF Slots
      <4>. QED BY <4>1, <4>2
    <3>. QED BY <3>1, <3>2, <3>3, ValueIs
  <2>2. ASSUME NEW x \in H PROVE x \notin below
    <3>1. ~(x \in IntKey /\ x < asize)
      BY DEF Hashed
    <3>2. ints \subseteq IntKey
      <4>. HIDE DEF used, held
      <4>. QED BY <1>3
    <3>. HIDE DEF ints
    <3>. QED BY <3>1, <3>2
  <2>3. Get(h, T, k) = Nil
    <3>1. \A i \in Slots(T) : T.node[i].key # k
      BY <2>0 DEF NodeKeys
    <3>. QED BY <3>1, ValueIs
  <2>. QED BY <2>1, <2>2, <2>3 DEF Hashed
<1>. HIDE DEF H1, H, size, below, K, ints, used, nodes, held
<1>10. IsFiniteSet(H) /\ Cardinality(H) \in Nat /\ Cardinality(H) <= size
  <2>1. IsFiniteSet(H) /\ Cardinality(H) <= Cardinality(H1)
    BY <1>7, <1>9, FS_Subset
  <2>2. Cardinality(H) \in Nat
    BY <2>1, FS_CardinalityType
  <2>. QED BY <1>7, <1>8, <2>1, <2>2
<1>11. Resizes(h, T, R, asize, size, H)
  <2>1. H = Hashed(h, T, asize)
    BY DEF H
  <2>. QED BY <1>2, <1>4, <1>8, <1>10, <2>1, ResizeIs
<1>12. ASSUME ~InArray(R, k) PROVE ~Full(h, R, k)
  <2>1. R.asize = asize /\ R.size = size /\ NodeKeys(R) \subseteq H /\ Sound(h, R)
    BY <1>11 DEF Resizes
  <2>2. k \in H1
    <3>1. k \notin below
      BY <1>3, <1>12, <2>1 DEF InArray, below
    <3>. QED BY <3>1 DEF H1, K
  <2>3. IsFiniteSet(H1 \ {k}) /\ Cardinality(H1 \ {k}) = Cardinality(H1) - 1
    BY <1>7, <2>2, FS_RemoveElement
  <2>4. H \subseteq H1 \ {k}
    BY <1>9
  <2>5. Cardinality(H) <= Cardinality(H1) - 1
    <3>. DEFINE H2 == H1 \ {k}
    <3>1. IsFiniteSet(H2) /\ Cardinality(H2) = Cardinality(H1) - 1 /\ H \in SUBSET H2
      BY <2>3, <2>4
    <3>. HIDE DEF H2
    <3>2. Cardinality(H) <= Cardinality(H2)
      BY <3>1, FS_Subset
    <3>. QED BY <3>1, <3>2
  <2>6. Cardinality(H) < R.size /\ R.size # 0
    BY <1>7, <1>8, <1>10, <2>1, <2>5
  <2>. QED BY <1>10, <2>1, <2>6, RoomLeft
<1>. QED BY <1>11, <1>12

-----------------------------------------------------------------------------
(* Storing, with a rehash                                                      *)

LEMMA InsertIs ==
  ASSUME NEW h, Hashable(h), NEW T, Sound(h, T), NEW k \in HKeys(h), k \notin NodeKeys(T),
         ~InArray(T, k), NEW v, ValOK(k, v), NEW N, N = Insert(h, T, k, v)
  PROVE  /\ Sound(h, N)
         /\ \A x \in HKeys(h) : Get(h, N, x) = IF x = k THEN v ELSE Get(h, T, x)
         /\ ~Full(h, T, k) => N.asize = T.asize /\ N.size = T.size /\ NodeKeys(N) \subseteq NodeKeys(T) \cup {k}
<1>1. CASE ~Full(h, T, k)
  <2>1. N = NewKey(h, T, k, v)
    BY <1>1 DEF Insert
  <2>2. Sound(h, N) /\ Inserted(T, N, k, v)
    BY <1>1, <2>1, NewKeyIs
  <2>3. N.asize = T.asize /\ N.size = T.size
    BY <2>2 DEF Inserted
  <2>. QED BY <2>2, <2>3, InsertedGets
<1>2. CASE Full(h, T, k)
  <2>. DEFINE R == rehashtab(h, T, k)
  <2>1. N = Put(h, R, k, v)
    BY <1>2 DEF Insert
  <2>. HIDE DEF R
  <2>2. /\ \E asize, size, H : Resizes(h, T, R, asize, size, H)
        /\ InArray(R, k) \/ Find(h, R, k) # Null \/ ~Full(h, R, k)
    BY RehashIs DEF R
  <2>3. Sound(h, R) /\ \A x \in HKeys(h) : Get(h, R, x) = Get(h, T, x)
    BY <2>2 DEF Resizes
  <2>4. Puts(h, R, N, k, v)
    BY <2>1, <2>2, <2>3, PutIs
  <2>. QED BY <1>2, <2>3, <2>4 DEF Puts
<1>. QED BY <1>1, <1>2

\* A store changes the value of its key, and where keys are found only if there is no such field.
LEMMA SetIs ==
  ASSUME NEW h, Hashable(h), NEW T, Sound(h, T), NEW k \in HKeys(h), NEW v, ValOK(k, v),
         NEW N, N = Set(h, T, k, v)
  PROVE  /\ Sound(h, N)
         /\ \A x \in HKeys(h) : Get(h, N, x) = IF x = k THEN v ELSE Get(h, T, x)
         /\ InArray(T, k) \/ Find(h, T, k) # Null =>
              /\ N.asize = T.asize /\ N.size = T.size
              /\ \A x \in HKeys(h) : Find(h, N, x) = Find(h, T, x)
<1>1. CASE InArray(T, k) \/ Find(h, T, k) # Null
  <2>1. N = Put(h, T, k, v)
    BY <1>1 DEF Set
  <2>. QED BY <1>1, <2>1, PutIs DEF Puts
<1>2. CASE ~InArray(T, k) /\ Find(h, T, k) = Null
  <2>1. N = Insert(h, T, k, v)
    BY <1>2 DEF Set
  <2>2. k \notin NodeKeys(T)
    BY <1>2, FindIs, NoNode DEF NodeKeys, Sound
  <2>. QED BY <1>2, <2>1, <2>2, InsertIs
<1>. QED BY <1>1, <1>2

\* A larger array takes no node more.
LEMMA ReasizedIs ==
  ASSUME NEW h, Hashable(h), NEW T, Sound(h, T), NEW asize \in Nat, T.asize <= asize,
         NEW R, R = Reasized(h, T, asize)
  PROVE  \E H : Resizes(h, T, R, asize, T.size, H)
<1>. DEFINE H == Hashed(h, T, asize)
            A == Slots(T)
<1>0. IsTab(T) /\ SizeOK(T.size) /\ T.size \in Nat /\ T.asize \in Nat
  BY DEF Sound, IsTab
<1>1. ASSUME NEW x \in H PROVE \E i \in A : T.node[i].key = x
  <2>1. x \in HKeys(h) /\ Get(h, T, x) # Nil /\ ~(x \in IntKey /\ x < asize)
    BY DEF Hashed
  <2>2. ~InArray(T, x)
    <3>1. IntKey \subseteq Nat
      BY Sorts DEF IntKey
    <3>. SUFFICES ASSUME InArray(T, x) PROVE FALSE
      OBVIOUS
    <3>2. x \in IntKey /\ x \in Nat /\ x < T.asize
      BY <3>1 DEF InArray
    <3>3. x < asize
      BY <1>0, <3>2
    <3>. QED BY <2>1, <3>2, <3>3
  <2>. QED BY <2>1, <2>2, ValueIs
<1>. DEFINE B == {i \in A : T.node[i].key \in H}
            g == [i \in B |-> T.node[i].key]
<1>2. g \in Surjection(B, H)
  BY <1>1 DEF Surjection
<1>3. IsFiniteSet(A) /\ Cardinality(A) = T.size /\ B \in SUBSET A
  BY <1>0, NoNode
<1>. HIDE DEF A, B, H, g
<1>4. IsFiniteSet(B) /\ Cardinality(B) <= T.size /\ Cardinality(B) \in Nat
  BY <1>3, FS_Subset, FS_CardinalityType
<1>5. IsFiniteSet(H) /\ Cardinality(H) <= Cardinality(B)
  BY <1>2, <1>4, FS_Surjection
<1>6. Cardinality(H) <= T.size
  BY <1>0, <1>4, <1>5, FS_CardinalityType
<1>7. Resizes(h, T, R, asize, T.size, H)
  <2>1. H = Hashed(h, T, asize) /\ R = lj_tab_resize(h, T, asize, T.size)
    BY DEF H, Reasized
  <2>. QED BY <1>0, <1>5, <1>6, <2>1, ResizeIs
<1>. QED BY <1>7

-----------------------------------------------------------------------------
(* Templates                                                                   *)

\* A step of lj_tab_commit_cache, and f what there is after each of m of them.
Inserts(h, s, j, N) == Insert(h, N, s[j].key, s[j].val)
Committing(h, s, new, m, f) ==
  f = [j \in 0 .. m |-> IF j = 0 THEN new ELSE Inserts(h, s, j, f[j - 1])]
LEMMA Commits ==
  ASSUME NEW h, NEW s, NEW new, NEW n \in Nat
  PROVE  \E f : Committing(h, s, new, n, f)
<1>. DEFINE P(m) == \E f : Committing(h, s, new, m, f)
            S == {m \in Nat : ~P(m)}
<1>. SUFFICES ASSUME S # {} PROVE FALSE
  OBVIOUS
<1>. HIDE DEF P
<1>1. PICK q \in S : \A m \in S : q <= m
  <2>1. S \subseteq Nat
    OBVIOUS
  <2>. HIDE DEF S
  <2>. QED BY <2>1, LeastOf
<1>2. q \in Nat /\ ~P(q)
  BY <1>1
<1>3. P(0)
  <2>. DEFINE f == [j \in 0 .. 0 |-> new]
  <2>1. \A j \in 0 .. 0 : j = 0
    OBVIOUS
  <2>2. f = [j \in 0 .. 0 |-> IF j = 0 THEN new ELSE Inserts(h, s, j, f[j - 1])]
    BY <2>1
  <2>. HIDE DEF f
  <2>. QED BY <2>2 DEF P, Committing
<1>4. q # 0 /\ q - 1 \in Nat /\ P(q - 1)
  <2>1. q # 0
    BY <1>2, <1>3
  <2>2. q - 1 \in Nat /\ ~(q <= q - 1)
    BY <1>2, <2>1
  <2>. QED BY <1>1, <2>1, <2>2 DEF S
<1>5. PICK f : f = [j \in 0 .. q - 1 |-> IF j = 0 THEN new ELSE Inserts(h, s, j, f[j - 1])]
  BY <1>4 DEF P, Committing
<1>. DEFINE g == [j \in 0 .. q |-> IF j = q THEN Inserts(h, s, q, f[q - 1]) ELSE f[j]]
<1>6. ASSUME NEW j \in 0 .. q
      PROVE  g[j] = IF j = 0 THEN new ELSE Inserts(h, s, j, g[j - 1])
  <2>1. j \in Nat /\ j <= q
    BY <1>2
  <2>2. CASE j = q
    <3>1. g[j] = Inserts(h, s, q, f[q - 1]) /\ j - 1 \in 0 .. q /\ j - 1 # q
      BY <1>2, <1>4, <2>2
    <3>2. g[j - 1] = f[q - 1]
      BY <2>2, <3>1
    <3>. QED BY <1>4, <2>2, <3>1, <3>2
  <2>3. CASE j # q /\ j # 0
    <3>1. j \in 0 .. q - 1 /\ j - 1 \in 0 .. q /\ j - 1 # q
      BY <1>2, <2>1, <2>3
    <3>2. f[j] = Inserts(h, s, j, f[j - 1])
      BY <1>5, <2>3, <3>1
    <3>3. g[j] = f[j] /\ g[j - 1] = f[j - 1]
      BY <2>3, <3>1
    <3>. QED BY <2>3, <3>2, <3>3
  <2>4. CASE j # q /\ j = 0
    <3>1. 0 \in 0 .. q - 1
      BY <1>4
    <3>2. f[0] = new
      BY <1>5, <3>1
    <3>. QED BY <2>4, <3>2
  <2>. QED BY <2>2, <2>3, <2>4
<1>7. g = [j \in 0 .. q |-> g[j]]
  OBVIOUS
<1>. HIDE DEF g
<1>8. g = [j \in 0 .. q |-> IF j = 0 THEN new ELSE Inserts(h, s, j, g[j - 1])]
  BY <1>6, <1>7
<1>9. P(q)
  BY <1>8 DEF P, Committing
<1>. QED BY <1>2, <1>9


\* The cache goes into the hash part, which has room for all of it.
LEMMA CommittedIs ==
  ASSUME Hashable(hash), NEW T, Sound(hash, T), T.node = [i \in Slots(T) |-> FreeNode],
         NEW n \in Nat, n = Len(cache),
         \A i \in 1 .. n : /\ cache[i].key \in HKeys(hash) /\ ~InArray(T, cache[i].key)
                           /\ ValOK(cache[i].key, cache[i].val),
         \A i, j \in 1 .. n : cache[i].key = cache[j].key => i = j,
         NEW N, N = Committed(T)
  PROVE  /\ Sound(hash, N)
         /\ \A i \in 1 .. n : Get(hash, N, cache[i].key) = cache[i].val
         /\ \A x \in HKeys(hash) :
              (\A i \in 1 .. n : cache[i].key # x) => Get(hash, N, x) = Get(hash, T, x)
<1>. DEFINE size == HashSize(Max({Len(cache), IF T.size = 0 THEN 1 ELSE T.size}))
            room == lj_tab_resize(hash, T, T.asize, size)
            Body(f) == [j \in 0 .. n |-> IF j = 0 THEN room ELSE Inserts(hash, cache, j, f[j - 1])]
            f == CHOOSE f : f = Body(f)
<1>0. IsTab(T)
  BY DEF Sound
<1>1. T.asize \in Nat /\ T.size \in Nat
  BY <1>0 DEF IsTab
<1>2. size \in Nat /\ SizeOK(size) /\ size >= n /\ size # 0
  <2>. DEFINE m == IF T.size = 0 THEN 1 ELSE T.size
              A == {Len(cache), m}
  <2>1. m \in Nat /\ m # 0
    BY <1>1
  <2>2. A \in SUBSET (0 .. n + m) /\ n + m \in Nat /\ A # {}
    BY <2>1
  <2>3. Max(A) \in A /\ n <= Max(A) /\ m <= Max(A) /\ Max(A) \in Nat
    <3>1. Max(A) \in A /\ \A x \in A : x <= Max(A)
      <4>. HIDE DEF A
      <4>. QED BY <2>2, GreatestOf
    <3>2. n \in A /\ m \in A
      OBVIOUS
    <3>. HIDE DEF A, m
    <3>3. Max(A) \in 0 .. n + m
      BY <2>2, <3>1
    <3>. QED BY <2>2, <3>1, <3>2, <3>3
  <2>4. size = HashSize(Max(A))
    OBVIOUS
  <2>. HIDE DEF A, size, m
  <2>5. Max(A) # 0
    BY <2>1, <2>3
  <2>6. size \in Nat /\ size >= Max(A) /\ SizeOK(size) /\ size # 0
    BY <2>3, <2>4, <2>5, HashSizeIs
  <2>. QED BY <2>3, <2>6
<1>3. N = f[n]
  BY DEF Committed, Inserts
<1>4. f = Body(f)
  <2>1. \E g : Committing(hash, cache, room, n, g)
    <3>. HIDE DEF room
    <3>. QED BY Commits
  <2>2. \E g : g = Body(g)
    BY <2>1 DEF Committing
  <2>. HIDE DEF Body
  <2>. QED BY <2>2
<1>. HIDE DEF size
<1>5. Resizes(hash, T, room, T.asize, size, {})
  <2>1. ASSUME NEW x \in Hashed(hash, T, T.asize) PROVE FALSE
    <3>1. x \in HKeys(hash) /\ Get(hash, T, x) # Nil /\ ~InArray(T, x)
      BY DEF Hashed, InArray
    <3>2. PICK i \in Slots(T) : T.node[i].key = x
      BY <3>1, ValueIs
    <3>3. T.node[i].key = Nil
      BY DEF FreeNode
    <3>. QED BY <3>1, <3>2, <3>3, HKeyIs
  <2>2. Hashed(hash, T, T.asize) = {}
    BY <2>1
  <2>3. IsFiniteSet({}) /\ Cardinality({}) = 0
    BY FS_EmptySet
  <2>4. Cardinality({}) <= size
    BY <1>2, <2>3
  <2>5. room = lj_tab_resize(hash, T, T.asize, size)
    OBVIOUS
  <2>. HIDE DEF room
  <2>. QED BY <1>1, <1>2, <2>2, <2>3, <2>4, <2>5, ResizeIs
<1>. HIDE DEF room
<1>6. f[0] = room /\ \A j \in 1 .. n : f[j] = Inserts(hash, cache, j, f[j - 1])
  <2>. HIDE DEF f
  <2>1. ASSUME NEW j \in 1 .. n PROVE f[j] = Inserts(hash, cache, j, f[j - 1])
    <3>1. j \in 0 .. n /\ j # 0
      OBVIOUS
    <3>. QED BY <1>4, <3>1
  <2>. QED BY <1>4, <2>1
<1>. HIDE DEF f
<1>. DEFINE Ks(j) == {cache[i].key : i \in 1 .. j}
            P(j) == /\ Sound(hash, f[j]) /\ f[j].asize = T.asize /\ f[j].size = size
                    /\ NodeKeys(f[j]) \subseteq Ks(j)
                    /\ \A i \in 1 .. j : Get(hash, f[j], cache[i].key) = cache[i].val
                    /\ \A x \in HKeys(hash) :
                         x \notin Ks(j) => Get(hash, f[j], x) = Get(hash, T, x)
            S == {j \in 0 .. n : P(j)}
<1>7. P(0)
  <2>1. NodeKeys(room) = {} /\ Ks(0) = {}
    BY <1>5 DEF Resizes
  <2>. QED BY <1>5, <1>6, <2>1 DEF Resizes
<1>8. ASSUME NEW j \in 1 .. n, P(j - 1) PROVE P(j)
  <2>. PICK M : M = f[j - 1]
    OBVIOUS
  <2>. PICK e : e = cache[j]
    OBVIOUS
  <2>0. j \in Nat /\ j > 0 /\ j <= n /\ j - 1 \in Nat
    OBVIOUS
  <2>1. /\ Sound(hash, M) /\ M.asize = T.asize /\ M.size = size /\ NodeKeys(M) \subseteq Ks(j - 1)
        /\ \A i \in 1 .. j - 1 : Get(hash, M, cache[i].key) = cache[i].val
        /\ \A x \in HKeys(hash) : x \notin Ks(j - 1) => Get(hash, M, x) = Get(hash, T, x)
    BY <1>8
  <2>2. f[j] = Insert(hash, M, e.key, e.val)
    BY <1>6 DEF Inserts
  <2>3. e.key \in HKeys(hash) /\ ~InArray(T, e.key) /\ ValOK(e.key, e.val)
    OBVIOUS
  <2>4. ~InArray(M, e.key)
    BY <2>1, <2>3 DEF InArray
  <2>5. e.key \notin Ks(j - 1)
    <3>1. ASSUME NEW i \in 1 .. j - 1, cache[i].key = e.key PROVE FALSE
      <4>1. i \in 1 .. n /\ i # j
        BY <2>0
      <4>. QED BY <3>1, <4>1
    <3>. QED BY <3>1
  <2>6. ~Full(hash, M, e.key)
    <3>. DEFINE H == Ks(j - 1)
                A == 1 .. j - 1
                g == [i \in A |-> cache[i].key]
    <3>1. IsFiniteSet(A) /\ Cardinality(A) = j - 1
      <4>1. ASSUME NEW b \in Int
            PROVE  IsFiniteSet(1 .. b) /\ Cardinality(1 .. b) = IF 1 > b THEN 0 ELSE b - 1 + 1
        <5>1. 1 \in Int
          OBVIOUS
        <5>. QED BY <4>1, <5>1, FS_Interval
      <4>. QED BY <2>0, <4>1
    <3>2. g \in Surjection(A, H)
      BY DEF Surjection
    <3>3. NodeKeys(M) \subseteq H
      BY <2>1
    <3>. HIDE DEF A, H, g
    <3>4. IsFiniteSet(H) /\ Cardinality(H) <= j - 1
      BY <3>1, <3>2, FS_Surjection
    <3>5. Cardinality(H) \in Nat
      BY <3>4, FS_CardinalityType
    <3>6. Cardinality(H) < M.size /\ M.size # 0
      BY <1>2, <2>0, <2>1, <3>4, <3>5
    <3>. QED BY <2>1, <3>3, <3>4, <3>6, RoomLeft
  <2>7. e.key \notin NodeKeys(M)
    BY <2>1, <2>5
  <2>8. /\ Sound(hash, f[j]) /\ f[j].asize = M.asize /\ f[j].size = M.size
        /\ \A x \in HKeys(hash) : Get(hash, f[j], x) = IF x = e.key THEN e.val ELSE Get(hash, M, x)
        /\ NodeKeys(f[j]) \subseteq NodeKeys(M) \cup {e.key}
    BY <2>1, <2>2, <2>3, <2>4, <2>6, <2>7, InsertIs
  <2>9. Ks(j) = Ks(j - 1) \cup {e.key}
    <3>1. 1 .. j = (1 .. j - 1) \cup {j}
      BY <2>0
    <3>. QED BY <3>1
  <2>10. ASSUME NEW i \in 1 .. j PROVE Get(hash, f[j], cache[i].key) = cache[i].val
    <3>1. CASE i = j
      BY <2>3, <2>8, <3>1
    <3>2. CASE i # j
      <4>1. i \in 1 .. j - 1 /\ i \in 1 .. n /\ cache[i].key \in HKeys(hash)
        BY <2>0, <3>2
      <4>2. cache[i].key # e.key
        BY <2>5, <4>1
      <4>. QED BY <2>1, <2>8, <4>1, <4>2
    <3>. QED BY <3>1, <3>2
  <2>. HIDE DEF Ks
  <2>. QED BY <2>1, <2>8, <2>9, <2>10
<1>9. P(n)
  <2>. HIDE DEF P
  <2>1. 0 \in S
    BY <1>7
  <2>2. ASSUME NEW j \in 1 .. n, j - 1 \in S PROVE j \in S
    BY <1>8, <2>2
  <2>3. n \in S
    <3>. HIDE DEF S
    <3>1. n \in Nat /\ 0 \in S /\ \A j \in 1 .. n : j - 1 \in S => j \in S
      BY <2>1, <2>2
    <3>2. n \in 0 .. n
      OBVIOUS
    <3>3. \A j \in 0 .. n : j \in S
      BY <3>1, UpTo, Zenon
    <3>. QED BY <3>2, <3>3, Zenon
  <2>. QED BY <2>3
<1>. QED BY <1>3, <1>9

\* The dummy values are nil, then.
LEMMA FixedIs ==
  ASSUME NEW h, Hashable(h), NEW T, Sound(h, T), NEW N, N = Fixed(T)
  PROVE  /\ Sound(h, N)
         /\ \A x \in HKeys(h) : Get(h, N, x) = IF Get(h, T, x) = Self THEN Nil ELSE Get(h, T, x)
<1>0. IsTab(T) /\ Linked(T) /\ Placed(h, T) /\ Valued(T) /\ FreeBelow(T)
  BY DEF Sound
<1>1. /\ T \in [asize : Nat, array : {T.array}, size : Nat, node : {T.node}, freetop : Nat, broken : {FALSE}]
      /\ T.node \in [Slots(T) -> Entry(T)] /\ T.array \in [0 .. T.asize - 1 -> IntKey \cup {Nil}]
  BY <1>0 DEF IsTab
<1>. DEFINE X == [i \in DOMAIN T.node |-> IF T.node[i].val = Self THEN [T.node[i] EXCEPT !.val = Nil] ELSE T.node[i]]
<1>2. X \in [Slots(T) -> Entry(T)]
      /\ \A i \in Slots(T) : X[i] = IF T.node[i].val = Self THEN [T.node[i] EXCEPT !.val = Nil] ELSE T.node[i]
  <2>1. ASSUME NEW i \in Slots(T) PROVE X[i] \in Entry(T)
    <3>1. T.node[i] \in Entry(T)
      BY <1>1
    <3>2. [T.node[i] EXCEPT !.val = Nil] \in Entry(T)
      BY <3>1 DEF Entry
    <3>. QED BY <1>1, <3>1, <3>2
  <2>. QED BY <1>1, <2>1
<1>3. Renodes(N, T) /\ N.freetop = T.freetop /\ N.node = X
  <2>1. N = [T EXCEPT !.node = X]
    BY DEF Fixed
  <2>. HIDE DEF X
  <2>. QED BY <1>1, <2>1 DEF Renodes
<1>. HIDE DEF X
<1>4. ASSUME NEW i \in Slots(T)
      PROVE  /\ N.node[i].key = T.node[i].key /\ N.node[i].next = T.node[i].next
             /\ N.node[i].val = IF T.node[i].val = Self THEN Nil ELSE T.node[i].val
  <2>1. T.node[i] \in Entry(T)
    BY <1>1
  <2>. QED BY <1>2, <1>3, <2>1 DEF Entry
<1>5. \A i \in Slots(T) : ValOK(T.node[i].key, N.node[i].val)
  BY <1>0, <1>4 DEF Valued, ValOK
<1>6. /\ Sound(h, N) /\ N.array = T.array /\ Slots(N) = Slots(T)
      /\ \A x : InArray(N, x) = InArray(T, x)
  <2>1. N.node \in [Slots(T) -> Entry(T)]
    BY <1>2, <1>3
  <2>. QED BY <1>3, <1>4, <1>5, <2>1, Revalued
<1>7. ASSUME NEW x \in HKeys(h) PROVE Get(h, N, x) = IF Get(h, T, x) = Self THEN Nil ELSE Get(h, T, x)
  <2>0. Nil # Self /\ Self \notin IntKey
    BY Sorts DEF Key
  <2>1. CASE InArray(T, x)
    <3>1. Get(h, T, x) = T.array[x] /\ x \in 0 .. T.asize - 1
      BY <2>1, ValueIs
    <3>2. Get(h, N, x) = N.array[x]
      BY <1>6, <2>1, ValueIs
    <3>3. T.array[x] # Self
      BY <1>1, <2>0, <3>1
    <3>. QED BY <1>6, <3>1, <3>2, <3>3
  <2>2. CASE ~InArray(T, x) /\ \E i \in Slots(T) : T.node[i].key = x
    <3>1. PICK i \in Slots(T) : T.node[i].key = x
      BY <2>2
    <3>2. Get(h, T, x) = T.node[i].val
      BY <3>1, ValueIs
    <3>3. Get(h, N, x) = N.node[i].val
      BY <1>4, <1>6, <3>1, ValueIs
    <3>. QED BY <1>4, <3>2, <3>3
  <2>3. CASE ~InArray(T, x) /\ \A i \in Slots(T) : T.node[i].key # x
    <3>1. Get(h, T, x) = Nil
      BY <2>3, ValueIs
    <3>2. \A i \in Slots(N) : N.node[i].key # x
      BY <1>4, <1>6, <2>3
    <3>3. Get(h, N, x) = Nil
      BY <1>6, <2>3, <3>2, ValueIs
    <3>. QED BY <2>0, <3>1, <3>3
  <2>. QED BY <2>1, <2>2, <2>3
<1>. QED BY <1>6, <1>7

-----------------------------------------------------------------------------
(* Length                                                                      *)

Halved(free, p) ==
  LET lo == p[1]
      hi == p[2]
      m == (lo + hi) \div 2
  IN  IF hi - lo <= 1 THEN <<lo, hi>> ELSE IF m \in free THEN <<lo, m>> ELSE <<m, hi>>
\* A search ends between two neighbours, the second of which is free and the first is not.
LEMMA SearchIs ==
  ASSUME NEW i \in Nat, NEW j \in Nat, i < j, NEW free, NEW r, r = Search(i, j, free)
  PROVE  /\ r \in Nat /\ i <= r /\ r < j
         /\ r = i \/ r \notin free
         /\ r + 1 = j \/ r + 1 \in free
<1>. DEFINE U == Nat \X Nat
            Body(s) == [n \in 0 .. j |-> IF n = 0 THEN <<i, j>> ELSE Halved(free, s[n - 1])]
            s == CHOOSE s : s = Body(s)
<1>1. r = s[j][1]
  BY DEF Search, Halved
<1>2. \E c : c = Body(c)
  <2>1. PICK F \in [U -> U] : \A p \in U : F[p] = Halved(free, p)
    <3>1. [p \in U |-> Halved(free, p)] \in [U -> U]
      <4>1. ASSUME NEW p \in U PROVE Halved(free, p) \in U
        <5>1. p[1] \in Nat /\ p[2] \in Nat /\ (p[1] + p[2]) \div 2 \in Nat
          OBVIOUS
        <5>. QED BY <5>1 DEF Halved
      <4>. QED BY <4>1
    <3>. QED BY <3>1
  <2>2. PICK c : Iterated(c, j, U, F, <<i, j>>)
    <3>1. <<i, j>> \in U
      OBVIOUS
    <3>. HIDE DEF U
    <3>. QED BY <2>1, <3>1, Iterates
  <2>. HIDE DEF U
  <2>3. c \in [0 .. j -> U] /\ c[0] = <<i, j>> /\ \A m \in 1 .. j : c[m] = F[c[m - 1]]
    BY <2>2 DEF Iterated
  <2>4. ASSUME NEW n \in 0 .. j PROVE c[n] = IF n = 0 THEN <<i, j>> ELSE Halved(free, c[n - 1])
    <3>1. CASE n = 0
      BY <2>3, <3>1
    <3>2. CASE n # 0
      <4>1. n \in 1 .. j /\ n - 1 \in 0 .. j
        BY <3>2
      <4>2. c[n - 1] \in U
        BY <2>3, <4>1
      <4>. QED BY <2>1, <2>3, <3>2, <4>1, <4>2
    <3>. QED BY <3>1, <3>2
  <2>5. c = [n \in 0 .. j |-> c[n]]
    BY <2>3
  <2>. QED BY <2>4, <2>5
<1>3. s = Body(s)
  <2>. HIDE DEF Body
  <2>. QED BY <1>2
<1>4. s[0] = <<i, j>> /\ \A n \in 1 .. j : s[n] = Halved(free, s[n - 1])
  <2>. HIDE DEF s
  <2>1. ASSUME NEW n \in 1 .. j PROVE s[n] = Halved(free, s[n - 1])
    <3>1. n \in 0 .. j /\ n # 0
      OBVIOUS
    <3>. QED BY <1>3, <3>1
  <2>2. 0 \in 0 .. j
    OBVIOUS
  <2>. QED BY <1>3, <2>1, <2>2
<1>. HIDE DEF s
<1>. DEFINE P(n) == /\ s[n] \in U /\ i <= s[n][1] /\ s[n][1] < s[n][2] /\ s[n][2] <= j
                    /\ s[n][1] = i \/ s[n][1] \notin free
                    /\ s[n][2] = j \/ s[n][2] \in free
                    /\ s[n][2] - s[n][1] <= 1 \/ s[n][2] - s[n][1] <= j - i - n
            S == {n \in 0 .. j : P(n)}
<1>5. 0 \in S
  <2>1. s[0] \in U /\ s[0][1] = i /\ s[0][2] = j
    BY <1>4
  <2>. QED BY <2>1
<1>6. ASSUME NEW n \in 1 .. j, P(n - 1) PROVE P(n)
  <2>. PICK lo, hi, m : lo = s[n - 1][1] /\ hi = s[n - 1][2] /\ m = (lo + hi) \div 2
    OBVIOUS
  <2>1. /\ lo \in Nat /\ hi \in Nat /\ i <= lo /\ lo < hi /\ hi <= j
        /\ lo = i \/ lo \notin free
        /\ hi = j \/ hi \in free
        /\ hi - lo <= 1 \/ hi - lo <= j - i - (n - 1)
    BY <1>6
  <2>2. s[n] = IF hi - lo <= 1 THEN <<lo, hi>> ELSE IF m \in free THEN <<lo, m>> ELSE <<m, hi>>
    BY <1>4 DEF Halved
  <2>3. CASE hi - lo <= 1
    BY <2>1, <2>2, <2>3
  <2>4. CASE ~(hi - lo <= 1)
    <3>1. m \in Nat /\ lo < m /\ m < hi
      BY <2>1, <2>4
    <3>2. n \in Nat /\ hi - lo <= j - i - (n - 1)
      BY <2>1, <2>4
    <3>3. CASE m \in free
      BY <2>1, <2>2, <2>4, <3>1, <3>2, <3>3
    <3>4. CASE m \notin free
      BY <2>1, <2>2, <2>4, <3>1, <3>2, <3>4
    <3>. QED BY <3>3, <3>4
  <2>. QED BY <2>3, <2>4
<1>7. j \in S
  <2>1. ASSUME NEW n \in 1 .. j, n - 1 \in S PROVE n \in S
    BY <1>6, <2>1
  <2>. HIDE DEF S
  <2>2. j \in 0 .. j
    OBVIOUS
  <2>. QED BY <1>5, <2>1, <2>2, UpTo
<1>8. P(j)
  BY <1>7
<1>. QED BY <1>1, <1>8

\* n is zero or has a value, and what follows it has none.
Border(h, T, n) ==
  /\ n \in Nat
  /\ n = 0 \/ (n \in IntKey /\ Get(h, T, n) # Nil)
  /\ IsNil(h, T, n + 1)

LEMMA UnboundIs ==
  ASSUME NEW h, NEW T, NEW j0 \in Nat, j0 = 0 \/ ~IsNil(h, T, j0), NEW r, r = unbound_search(h, T, j0)
  PROVE  Border(h, T, r)
<1>. DEFINE Body(a) == [n \in 0 .. MaxInt |-> IF n = 0 THEN j0 + 1 ELSE 2 * a[n - 1]]
            at == CHOOSE a : a = Body(a)
            hits == {n \in 0 .. MaxInt : IsNil(h, T, at[n])}
            last == Min(hits)
            i == IF last = 0 THEN j0 ELSE at[last - 1]
            j == at[last]
            free == {m \in 1 .. j : IsNil(h, T, m)}
<1>0. MaxInt \in Nat
  BY Sorts
<1>1. r = Search(i, j, free)
  BY DEF unbound_search
<1>2. \E c : c = Body(c)
  <2>1. PICK c : Doubles(c, MaxInt, j0 + 1)
    <3>1. j0 + 1 \in Nat
      OBVIOUS
    <3>. QED BY <1>0, <3>1, Doubled
  <2>2. c \in [0 .. MaxInt -> Nat] /\ c[0] = j0 + 1 /\ \A m \in 1 .. MaxInt : c[m] = 2 * c[m - 1]
    BY <2>1 DEF Doubles
  <2>3. ASSUME NEW n \in 0 .. MaxInt PROVE c[n] = IF n = 0 THEN j0 + 1 ELSE 2 * c[n - 1]
    <3>1. n # 0 => n \in 1 .. MaxInt
      BY <1>0
    <3>. QED BY <2>2, <3>1
  <2>4. c = [n \in 0 .. MaxInt |-> c[n]]
    BY <2>2
  <2>. QED BY <2>3, <2>4
<1>3. at = Body(at)
  <2>. HIDE DEF Body
  <2>. QED BY <1>2
<1>. HIDE DEF at
<1>4. at[0] = j0 + 1 /\ \A n \in 1 .. MaxInt : at[n] = 2 * at[n - 1]
  <2>1. ASSUME NEW n \in 1 .. MaxInt PROVE at[n] = 2 * at[n - 1]
    <3>1. n \in 0 .. MaxInt /\ n # 0
      BY <1>0
    <3>. QED BY <1>3, <3>1
  <2>2. 0 \in 0 .. MaxInt
    BY <1>0
  <2>. QED BY <1>3, <2>1, <2>2
<1>5. \A n \in 0 .. MaxInt : at[n] \in Nat /\ at[n] > n
  <2>. DEFINE S == {n \in 0 .. MaxInt : at[n] \in Nat /\ at[n] > n}
  <2>1. 0 \in S
    BY <1>0, <1>4
  <2>2. ASSUME NEW n \in 1 .. MaxInt, n - 1 \in S PROVE n \in S
    <3>1. at[n] = 2 * at[n - 1] /\ at[n - 1] \in Nat /\ at[n - 1] > n - 1
      BY <1>4, <2>2
    <3>. QED BY <1>0, <3>1
  <2>3. \A n \in 0 .. MaxInt : n \in S
    <3>. HIDE DEF S
    <3>. QED BY <1>0, <2>1, <2>2, UpTo
  <2>. QED BY <2>3
<1>6. hits \subseteq Nat /\ hits # {}
  <2>1. MaxInt \in 0 .. MaxInt /\ at[MaxInt] > MaxInt /\ at[MaxInt] \in Nat
    BY <1>0, <1>5
  <2>2. at[MaxInt] \notin IntKey
    BY <1>0, <2>1 DEF IntKey
  <2>3. MaxInt \in hits
    BY <2>1, <2>2 DEF IsNil
  <2>. QED BY <1>0, <2>3
<1>7. last \in hits /\ \A m \in hits : last <= m
  <2>. HIDE DEF hits
  <2>. QED BY <1>6, LeastOf
<1>8. last \in 0 .. MaxInt /\ IsNil(h, T, j) /\ j \in Nat
  BY <1>5, <1>7
<1>9. i \in Nat /\ i < j /\ (i = 0 \/ ~IsNil(h, T, i))
  <2>1. CASE last = 0
    BY <1>4, <2>1
  <2>2. CASE last # 0
    <3>. HIDE DEF last
    <3>1. last \in 1 .. MaxInt /\ last - 1 \in 0 .. MaxInt /\ ~(last <= last - 1)
      BY <1>0, <1>8, <2>2
    <3>2. at[last] = 2 * at[last - 1] /\ at[last - 1] \in Nat /\ at[last - 1] > last - 1
      BY <1>4, <1>5, <3>1
    <3>3. last - 1 \notin hits
      BY <1>7, <3>1
    <3>4. ~IsNil(h, T, at[last - 1])
      BY <3>1, <3>3
    <3>. QED BY <2>2, <3>1, <3>2, <3>4
  <2>. QED BY <2>1, <2>2
<1>. HIDE DEF i, j, last, hits
<1>10. /\ r \in Nat /\ i <= r /\ r < j
       /\ r = i \/ r \notin free
       /\ r + 1 = j \/ r + 1 \in free
  <2>. HIDE DEF free
  <2>. QED BY <1>1, <1>8, <1>9, SearchIs
<1>11. IsNil(h, T, r + 1)
  BY <1>8, <1>10
<1>12. r = 0 \/ ~IsNil(h, T, r)
  <2>1. CASE r = i
    BY <1>9, <2>1
  <2>2. CASE r # i /\ r # 0
    <3>1. r \in 1 .. j
      BY <1>8, <1>10, <2>2
    <3>. QED BY <1>10, <2>2, <3>1
  <2>. QED BY <2>1, <2>2
<1>. QED BY <1>10, <1>11, <1>12 DEF Border, IsNil

\* The length of a table is a border.
LEMMA LengthIs ==
  ASSUME NEW h, Hashable(h), NEW T, Sound(h, T), NEW n, n = lj_tab_len(h, T)
  PROVE  Border(h, T, n)
<1>0. IsTab(T) /\ Valued(T)
  BY DEF Sound
<1>1. T.asize \in Nat /\ T.size \in Nat /\ T.array \in [0 .. T.asize - 1 -> IntKey \cup {Nil}]
  BY <1>0 DEF IsTab
<1>2. \A x \in IntKey : x \in HKeys(h) /\ x \in Nat
  BY Sorts DEF HKeys, IntKey
\* the array part decides
<1>3. ASSUME NEW i \in 1 .. T.asize - 1, T.array[i] = Nil PROVE IsNil(h, T, i)
  BY <1>1, <1>3 DEF IsNil, Get, InArray
<1>4. ASSUME NEW i \in 1 .. T.asize - 1, T.array[i] # Nil PROVE i \in IntKey /\ Get(h, T, i) # Nil
  <2>1. T.array[i] = i /\ i \in IntKey
    BY <1>0, <1>1, <1>4 DEF Valued
  <2>. QED BY <1>1, <1>4, <2>1 DEF Get, InArray
<1>5. CASE T.asize > 1 /\ T.array[T.asize - 1] = Nil
  <2>. DEFINE free == {m \in 1 .. T.asize : T.array[m - 1] = Nil}
              r == Search(1, T.asize, free)
  <2>1. n = r - 1
    BY <1>5 DEF lj_tab_len
  <2>2. r \in Nat /\ 1 <= r /\ r < T.asize /\ (r = 1 \/ r \notin free) /\ (r + 1 = T.asize \/ r + 1 \in free)
    <3>. HIDE DEF free
    <3>. QED BY <1>1, <1>5, SearchIs
  <2>. HIDE DEF r
  <2>3. n \in Nat /\ n + 1 = r /\ r \in 1 .. T.asize - 1
    BY <1>1, <2>1, <2>2
  <2>4. IsNil(h, T, n + 1)
    <3>1. T.array[r] = Nil
      BY <1>1, <1>5, <2>2
    <3>. QED BY <1>3, <2>3, <3>1
  <2>5. ASSUME n # 0 PROVE n \in IntKey /\ Get(h, T, n) # Nil
    <3>1. n \in 1 .. T.asize - 1 /\ r \in 1 .. T.asize /\ r - 1 = n /\ r # 1
      BY <1>1, <2>3, <2>5
    <3>2. T.array[n] # Nil
      BY <2>2, <3>1
    <3>. QED BY <1>4, <3>1, <3>2
  <2>. QED BY <2>3, <2>4, <2>5 DEF Border
<1>6. CASE ~(T.asize > 1 /\ T.array[T.asize - 1] = Nil)
  <2>. DEFINE j == IF T.asize > 0 THEN T.asize - 1 ELSE 0
  <2>1. n = IF T.size = 0 THEN j ELSE unbound_search(h, T, j)
    BY <1>6 DEF lj_tab_len
  <2>2. j \in Nat /\ (j = 0 \/ (j \in IntKey /\ Get(h, T, j) # Nil)) /\ T.asize <= j + 1
    BY <1>1, <1>4, <1>6
  <2>. HIDE DEF j
  <2>3. CASE T.size = 0
    <3>1. ASSUME j + 1 \in IntKey PROVE Get(h, T, j + 1) = Nil
      <4>1. ~InArray(T, j + 1)
        BY <1>1, <2>2 DEF InArray
      <4>2. Find(h, T, j + 1) = Null
        BY <2>3 DEF Find
      <4>. QED BY <4>1, <4>2 DEF Get
    <3>. QED BY <2>1, <2>2, <2>3, <3>1 DEF Border, IsNil
  <2>4. CASE T.size # 0
    BY <2>1, <2>2, <2>4, UnboundIs DEF IsNil
  <2>. QED BY <2>3, <2>4
<1>. QED BY <1>5, <1>6

-----------------------------------------------------------------------------
(* Traversal                                                                   *)

\* The index of a key is where it is.
LEMMA IndexIs ==
  ASSUME NEW h, Hashable(h), NEW T, Sound(h, T), NEW x \in HKeys(h), NEW i, i = keyindex(h, T, x)
  PROVE  /\ InArray(T, x) \/ Find(h, T, x) # Null => i \in 0 .. T.asize + T.size - 1
         /\ Get(h, T, x) # Nil => InArray(T, x) \/ Find(h, T, x) # Null
         /\ Get(h, T, x) # Nil => i \in 0 .. T.asize + T.size - 1 /\ KeyAt(T, i) = x
<1>0. IsTab(T) /\ Linked(T) /\ Placed(h, T) /\ T.asize \in Nat /\ T.size \in Nat /\ x # Nil
  BY HKeyIs DEF Sound, IsTab
<1>1. CASE InArray(T, x)
  <2>1. i = x /\ x \in 0 .. T.asize - 1 /\ Get(h, T, x) = T.array[x]
    BY <1>1, ValueIs DEF keyindex
  <2>2. Get(h, T, x) # Nil => KeyAt(T, i) = x
    BY <1>0, <2>1 DEF KeyAt
  <2>. QED BY <1>0, <1>1, <2>1, <2>2
<1>2. CASE ~InArray(T, x) /\ \E m \in Slots(T) : T.node[m].key = x
  <2>1. PICK m \in Slots(T) : T.node[m].key = x
    BY <1>2
  <2>2. Find(h, T, x) = m /\ Get(h, T, x) = T.node[m].val /\ m # Null
    BY <1>0, <2>1, FindIs, ValueIs, NoNode
  <2>3. i = T.asize + m /\ m \in 0 .. T.size - 1
    BY <1>2, <2>2 DEF keyindex, Slots
  <2>4. i \in 0 .. T.asize + T.size - 1 /\ ~(i < T.asize) /\ i - T.asize = m
    BY <1>0, <2>3
  <2>5. Get(h, T, x) # Nil => KeyAt(T, i) = x
    BY <2>1, <2>2, <2>4 DEF KeyAt
  <2>. QED BY <2>2, <2>4, <2>5
<1>3. CASE ~InArray(T, x) /\ \A m \in Slots(T) : T.node[m].key # x
  BY <1>0, <1>3, FindIs, ValueIs
<1>. QED BY <1>1, <1>2, <1>3

\* And at an index there is a key that has a value.
LEMMA KeyAtIs ==
  ASSUME NEW h, Hashable(h), NEW T, Sound(h, T), NEW i \in 0 .. T.asize + T.size - 1,
         NEW x, x = KeyAt(T, i), x # Nil
  PROVE  x \in HKeys(h) /\ Get(h, T, x) # Nil /\ keyindex(h, T, x) = i
<1>0. /\ IsTab(T) /\ Linked(T) /\ Placed(h, T) /\ Valued(T) /\ FreeBelow(T)
      /\ T.asize \in Nat /\ T.size \in Nat /\ T.array \in [0 .. T.asize - 1 -> IntKey \cup {Nil}]
  BY DEF Sound, IsTab
<1>1. CASE i < T.asize
  <2>1. i \in 0 .. T.asize - 1
    BY <1>0, <1>1
  <2>2. T.array[i] # Nil /\ x = i
    BY <1>1 DEF KeyAt
  <2>3. T.array[i] = i /\ i \in IntKey
    BY <1>0, <2>1, <2>2 DEF Valued
  <2>4. InArray(T, x) /\ x \in HKeys(h)
    BY <1>1, <2>2, <2>3 DEF InArray, HKeys
  <2>. QED BY <2>2, <2>4, ValueIs DEF keyindex
<1>2. CASE ~(i < T.asize)
  <2>1. PICK m \in Slots(T) : m = i - T.asize
    BY <1>0, <1>2 DEF Slots
  <2>2. T.node[m].val # Nil /\ x = T.node[m].key
    BY <1>2, <2>1 DEF KeyAt
  <2>3. x \in HKeys(h) /\ ~InArray(T, x)
    BY <1>0, <2>2 DEF Placed
  <2>4. Find(h, T, x) = m /\ Get(h, T, x) = T.node[m].val
    BY <1>0, <2>2, <2>3, FindIs, ValueIs
  <2>5. T.asize + m = i
    BY <1>0, <2>1 DEF Slots
  <2>. QED BY <2>2, <2>3, <2>4, <2>5 DEF keyindex
<1>. QED BY <1>1, <1>2

\* The next key is the one with the least index.
LEMMA FollowingIs ==
  ASSUME NEW h, Hashable(h), NEW T, Sound(h, T), NEW i \in Nat, NEW k, k = Following(T, i)
  PROVE  /\ k = Nil => \A x \in HKeys(h) : Get(h, T, x) # Nil => keyindex(h, T, x) < i
         /\ k # Nil =>
              /\ k \in HKeys(h) /\ Get(h, T, k) # Nil /\ keyindex(h, T, k) >= i
              /\ \A x \in HKeys(h) : Get(h, T, x) # Nil /\ x # k /\ keyindex(h, T, x) >= i =>
                   keyindex(h, T, x) > keyindex(h, T, k)
<1>. DEFINE hits == {j \in i .. T.asize + T.size - 1 : KeyAt(T, j) # Nil}
<1>0. T.asize \in Nat /\ T.size \in Nat
  BY DEF Sound, IsTab
<1>1. k = IF hits = {} THEN Nil ELSE KeyAt(T, Min(hits))
  BY DEF Following
<1>2. ASSUME NEW x \in HKeys(h), Get(h, T, x) # Nil
      PROVE  /\ keyindex(h, T, x) \in 0 .. T.asize + T.size - 1 /\ KeyAt(T, keyindex(h, T, x)) = x
             /\ keyindex(h, T, x) >= i => keyindex(h, T, x) \in hits
  <2>1. keyindex(h, T, x) \in 0 .. T.asize + T.size - 1 /\ KeyAt(T, keyindex(h, T, x)) = x
    BY <1>2, IndexIs
  <2>2. x # Nil
    BY HKeyIs
  <2>. QED BY <1>0, <2>1, <2>2
<1>3. CASE hits = {}
  <2>1. k = Nil
    BY <1>1, <1>3
  <2>2. ASSUME NEW x \in HKeys(h), Get(h, T, x) # Nil PROVE keyindex(h, T, x) < i
    <3>1. keyindex(h, T, x) \in Nat /\ ~(keyindex(h, T, x) >= i)
      BY <1>0, <1>2, <1>3, <2>2
    <3>. QED BY <3>1
  <2>. QED BY <2>1, <2>2
<1>4. CASE hits # {}
  <2>1. hits \subseteq Nat /\ hits \subseteq 0 .. T.asize + T.size - 1
    BY <1>0
  <2>. DEFINE m == Min(hits)
  <2>2. m \in hits /\ \A j \in hits : m <= j
    <3>. HIDE DEF hits
    <3>. QED BY <1>4, <2>1, LeastOf
  <2>3. m \in 0 .. T.asize + T.size - 1 /\ KeyAt(T, m) # Nil /\ m >= i /\ k = KeyAt(T, m)
    BY <1>1, <1>4, <2>1, <2>2
  <2>4. k \in HKeys(h) /\ Get(h, T, k) # Nil /\ keyindex(h, T, k) = m
    <3>. HIDE DEF m
    <3>. QED BY <2>3, KeyAtIs
  <2>5. ASSUME NEW x \in HKeys(h), Get(h, T, x) # Nil, x # k, keyindex(h, T, x) >= i
        PROVE  keyindex(h, T, x) > m
    <3>. HIDE DEF m, hits
    <3>1. keyindex(h, T, x) \in hits /\ KeyAt(T, keyindex(h, T, x)) = x /\ keyindex(h, T, x) \in Nat
      BY <1>2, <2>1, <2>5
    <3>2. m <= keyindex(h, T, x) /\ keyindex(h, T, x) # m /\ m \in Nat
      BY <2>1, <2>2, <2>3, <2>5, <3>1
    <3>. QED BY <3>1, <3>2
  <2>. QED BY <2>3, <2>4, <2>5
<1>. QED BY <1>3, <1>4

(***************************************************************************)
(* Type correctness of what the program is, and the initial state          *)
(***************************************************************************)

LEMMA KeysAre ==
  ASSUME States
  PROVE  /\ Hashable(hash) /\ prog.keys \subseteq HKeys(hash) /\ prog.keys \subseteq Key
         /\ \A x \in prog.keys : x \in IntKey \/ x \in Str
<1>1. prog.keys \in SUBSET Key
  BY Sorts DEF States
<1>2. Hashable(hash)
  BY DEF States, Hashable
<1>3. prog.keys \subseteq HKeys(hash)
  BY <1>1 DEF States, HKeys, Key
<1>. QED BY <1>1, <1>2, <1>3 DEF Key

LEMMA ZeroSize ==
  SizeOK(0) /\ HashSize(0) = 0
BY DEF SizeOK, HashSize

LEMMA InitIs ==
  Init => IInv
<1>. SUFFICES ASSUME Init PROVE IInv
  OBVIOUS
<1>1. States
  BY DEF Init, States
<1>2. ArgsSound
  BY DEF Init, ArgsSound, NoArgs
<1>3. Template
  <2>1. /\ Sound(hash, tab) /\ tab.asize = 0 /\ tab.size = 0
        /\ tab.node = [i \in Slots(tab) |-> FreeNode]
    <3>1. IsEmpty(hash, tab, 0, 0)
      BY <1>1, KeysAre, ZeroSize, EmptyIs DEF Init
    <3>. QED BY <3>1 DEF IsEmpty
  <2>2. \A i \in IntKey : ~InArray(tab, i)
    BY <2>1, Sorts DEF InArray, IntKey
  <2>. QED BY <2>1, <2>2 DEF Init, Template
<1>. QED BY <1>1, <1>2, <1>3 DEF IInv, Stored, Traversed, Init

-----------------------------------------------------------------------------
(* Steps of the parser                                                         *)

\* What the template holds: the array part, and the cache.
TemplateKeys(T, c) ==
  {i \in IntKey : InArray(T, i) /\ T.array[i] = i}
    \cup {c[j].key : j \in {m \in DOMAIN c : c[m].val = c[m].key}}
TemplateIs(T, c, keys) ==
  /\ Sound(hash, T) /\ T.node = [i \in Slots(T) |-> FreeNode]
  /\ c \in Seq([key : prog.keys, val : Key \cup {Nil, Self}])
  /\ \A i, j \in DOMAIN c : c[i].key = c[j].key => i = j
  /\ \A i \in DOMAIN c : ValOK(c[i].key, c[i].val) /\ ~InArray(T, c[i].key)
  /\ keys = TemplateKeys(T, c)

LEMMA ItemIs ==
  ASSUME Plain(prog), IInv, NEW k \in prog.keys, NEW positional \in BOOLEAN,
         NEW v \in {k, Nil, Self}, Item(k, v, positional)
  PROVE  IInv'
<1>0. /\ States /\ ArgsSound /\ Template /\ phase # "run" /\ Hashable(hash)
      /\ k \in HKeys(hash) /\ k \in Key /\ (k \in IntKey \/ k \in Str)
  BY KeysAre DEF IInv, Item
<1>1. k \notin content \cup {cache[i].key : i \in DOMAIN cache}
  <2>1. ~prog.repeated
    BY DEF Plain
  <2>. QED BY <2>1 DEF Item
<1>2. k # Nil /\ k # Self /\ Nil # Self
  BY <1>0, Sorts
<1>. DEFINE a == IF positional
                 THEN [args EXCEPT !.narr = @ + 1, !.vcall = (v = Self)]
                 ELSE [args EXCEPT !.nhash = @ + 1, !.vcall = FALSE]
<1>3. args' = a /\ UNCHANGED <<prog, hash, iter, due>>
      /\ content' = IF v = k THEN content \cup {k} ELSE content \ {k}
  BY DEF Item
<1>4. a \in [narr : Nat \ {0}, nhash : Nat, vcall : BOOLEAN] /\ (a.vcall => a.narr > 1)
  <2>1. args \in [narr : Nat \ {0}, nhash : Nat, vcall : BOOLEAN]
    BY <1>0 DEF ArgsSound
  <2>2. CASE positional
    <3>1. a = [args EXCEPT !.narr = args.narr + 1, !.vcall = (v = Self)]
      BY <2>2
    <3>2. args.narr + 1 \in Nat \ {0} /\ args.narr + 1 > 1 /\ (v = Self) \in BOOLEAN
      BY <2>1
    <3>3. PICK b \in BOOLEAN : b = (v = Self)
      BY <3>2
    <3>4. a = [args EXCEPT !.narr = args.narr + 1, !.vcall = b]
      BY <3>1, <3>3
    <3>. HIDE DEF a
    <3>. QED BY <2>1, <3>2, <3>4
  <2>3. CASE ~positional
    <3>1. a = [args EXCEPT !.nhash = args.nhash + 1, !.vcall = FALSE] /\ args.nhash + 1 \in Nat
      BY <2>1, <2>3
    <3>. HIDE DEF a
    <3>. QED BY <2>1, <3>1
  <2>. QED BY <2>2, <2>3
<1>5. iter = Idle /\ due = {}
  BY <1>0 DEF Template
<1>6. ArgsSound'
  <2>. HIDE DEF a
  <2>. QED BY <1>3, <1>4, <1>5 DEF ArgsSound
<1>. PICK T : T = IF phase = "template" THEN tab
                  ELSE Empty(IF a.narr > 1 THEN a.narr ELSE 0, HashSize(a.nhash))
  OBVIOUS
<1>7. TemplateIs(T, cache, content)
  <2>1. CASE phase = "template"
    BY <1>0, <2>1 DEF Template, TemplateIs, TemplateKeys
  <2>2. CASE phase # "template"
    <3>1. phase = "parse" /\ tab = Empty(0, 0) /\ cache = <<>>
      BY <1>0, <2>2 DEF Template, States
    <3>2. content = {}
      <4>1. tab.asize = 0
        BY <3>1 DEF Empty
      <4>2. \A i \in IntKey : ~InArray(tab, i)
        BY <4>1, Sorts DEF InArray, IntKey
      <4>. QED BY <1>0, <3>1, <4>2 DEF Template
    <3>. DEFINE asize == IF a.narr > 1 THEN a.narr ELSE 0
                size == HashSize(a.nhash)
    <3>3. T = Empty(asize, size)
      BY <2>2
    <3>4. asize \in Nat /\ size \in Nat /\ SizeOK(size)
      <4>1. a.narr \in Nat /\ a.nhash \in Nat
        BY <1>4
      <4>. HIDE DEF a
      <4>. QED BY <4>1, HashSizeIs
    <3>. HIDE DEF asize, size
    <3>5. /\ Sound(hash, T) /\ T.node = [i \in Slots(T) |-> FreeNode] /\ T.asize = asize
          /\ T.array = [i \in 0 .. asize - 1 |-> Nil]
      <4>1. IsEmpty(hash, T, asize, size)
        BY <1>0, <3>3, <3>4, EmptyIs
      <4>. QED BY <4>1 DEF IsEmpty
    <3>6. ASSUME NEW i \in IntKey, InArray(T, i) PROVE T.array[i] # i
      <4>1. i \in 0 .. asize - 1 /\ i # Nil
        BY <3>4, <3>5, <3>6, Sorts DEF InArray, IntKey, Key
      <4>. QED BY <3>5, <4>1
    <3>7. cache \in Seq([key : prog.keys, val : Key \cup {Nil, Self}]) /\ DOMAIN cache = {}
      BY <3>1
    <3>. HIDE DEF a
    <3>. QED BY <3>2, <3>5, <3>6, <3>7 DEF TemplateIs, TemplateKeys
  <2>. QED BY <2>1, <2>2
<1>. HIDE DEF a
<1>8. IF v = Self /\ k \notin Str
      THEN UNCHANGED <<phase, tab, cache>>
      ELSE /\ phase' = "template"
           /\ IF InArray(T, k)
              THEN tab' = [T EXCEPT !.array[k] = v] /\ UNCHANGED cache
              ELSE tab' = T /\ cache' = Append(cache, [key |-> k, val |-> v])
  BY DEF Item, a
<1>9. content' \subseteq prog.keys
  BY <1>0, <1>3 DEF States
<1>10. States'
  <2>1. phase' \in {"parse", "template"} /\ (phase' # "template" => cache' = <<>>)
    BY <1>0, <1>8 DEF States
  <2>. QED BY <1>0, <1>3, <1>5, <1>9, <2>1 DEF States
<1>11. phase' # "run"
  BY <1>0, <1>8
<1>12. CASE v = Self /\ k \notin Str
  <2>1. content' = content
    BY <1>1, <1>2, <1>3, <1>12
  <2>2. Template'
    BY <1>0, <1>3, <1>8, <1>12, <2>1 DEF Template
  <2>. QED BY <1>6, <1>10, <1>11, <2>2 DEF IInv, Stored, Traversed
<1>13. ASSUME ~(v = Self /\ k \notin Str), NEW N, NEW c, tab' = N, cache' = c, TemplateIs(N, c, content')
       PROVE  IInv'
  <2>1. phase' = "template" /\ hash' = hash /\ prog' = prog /\ iter' = iter /\ due' = due
    BY <1>3, <1>8, <1>13
  <2>2. Template'
    BY <1>5, <1>13, <2>1 DEF Template, TemplateIs, TemplateKeys
  <2>. QED BY <1>6, <1>10, <1>11, <2>2 DEF IInv, Stored, Traversed
<1>14. CASE ~(v = Self /\ k \notin Str) /\ InArray(T, k)
  <2>. PICK N : N = tab'
    OBVIOUS
  <2>1. InArrayGoes(T, N, k, v) /\ cache' = cache
    BY <1>8, <1>14 DEF InArrayGoes
  <2>2. k \in IntKey /\ v \in {k, Nil}
    <3>1. k \in IntKey
      BY <1>14 DEF InArray
    <3>2. k \notin Str
      BY <3>1, Sorts DEF IntKey
    <3>. QED BY <1>14, <3>1, <3>2
  <2>3. T.asize \in Nat /\ Sound(hash, T)
    BY <1>7 DEF TemplateIs, Sound, IsTab
  <2>4. ArrayPuts(hash, T, N, k, v)
    BY <1>0, <1>14, <2>1, <2>2, <2>3, ArrayPut
  <2>5. \A i \in 0 .. T.asize - 1 : N.array[i] = IF i = k THEN v ELSE T.array[i]
    BY <2>4 DEF ArrayPuts
  <2>7. /\ Sound(hash, N) /\ N.node = T.node /\ Slots(N) = Slots(T)
        /\ \A x : InArray(N, x) = InArray(T, x)
    BY <2>4 DEF ArrayPuts
  <2>8. content' = TemplateKeys(N, cache)
    <3>1. ASSUME NEW i \in IntKey, InArray(T, i) PROVE i \in 0 .. T.asize - 1
      <4>1. T.asize \in Nat /\ i < T.asize
        BY <2>3, <3>1 DEF InArray
      <4>2. i \in Nat
        BY Sorts DEF IntKey
      <4>. QED BY <4>1, <4>2
    <3>2. ASSUME NEW i \in IntKey, InArray(T, i) PROVE N.array[i] = IF i = k THEN v ELSE T.array[i]
      BY <2>5, <3>1, <3>2
    <3>3. content = TemplateKeys(T, cache)
      BY <1>7 DEF TemplateIs
    <3>4. content' = IF v = k THEN content \cup {k} ELSE content
      BY <1>1, <1>3
    <3>5. v # k => v = Nil
      BY <2>2
    <3>. QED BY <1>1, <1>2, <1>14, <2>2, <2>7, <3>2, <3>3, <3>4, <3>5 DEF TemplateKeys
  <2>9. TemplateIs(N, cache, content')
    BY <1>7, <2>7, <2>8 DEF TemplateIs
  <2>. QED BY <1>13, <1>14, <2>1, <2>9
<1>15. CASE ~(v = Self /\ k \notin Str) /\ ~InArray(T, k)
  <2>. PICK e : e = [key |-> k, val |-> v]
    OBVIOUS
  <2>. PICK c : c = Append(cache, e)
    OBVIOUS
  <2>1. tab' = T /\ cache' = c
    BY <1>8, <1>15
  <2>2. e \in [key : prog.keys, val : Key \cup {Nil, Self}] /\ e.key = k /\ e.val = v
    BY <1>0
  <2>. DEFINE R == [key : prog.keys, val : Key \cup {Nil, Self}]
  <2>3. cache \in Seq(R) /\ e \in R
    BY <1>7, <2>2 DEF TemplateIs
  <2>. HIDE DEF R
  <2>4. /\ c \in Seq(R) /\ DOMAIN c = DOMAIN cache \cup {Len(cache) + 1} /\ c[Len(cache) + 1] = e
        /\ \A i \in DOMAIN cache : c[i] = cache[i]
        /\ Len(cache) + 1 \notin DOMAIN cache
    BY <2>3
  <2>5. PICK q : q = Len(cache) + 1
    OBVIOUS
  <2>6. ASSUME NEW i \in DOMAIN c, NEW j \in DOMAIN c, c[i].key = c[j].key PROVE i = j
    BY <1>1, <1>7, <2>2, <2>4, <2>5, <2>6 DEF TemplateIs
  <2>7. ASSUME NEW i \in DOMAIN c PROVE ValOK(c[i].key, c[i].val) /\ ~InArray(T, c[i].key)
    <3>1. ValOK(k, v)
      BY <1>15 DEF ValOK
    <3>. QED BY <1>7, <1>15, <2>2, <2>4, <3>1 DEF TemplateIs
  <2>8. content' = TemplateKeys(T, c)
    <3>1. content = TemplateKeys(T, cache)
      BY <1>7 DEF TemplateIs
    <3>2. content' = IF v = k THEN content \cup {k} ELSE content
      BY <1>1, <1>3
    <3>3. {c[j].key : j \in {m \in DOMAIN c : c[m].val = c[m].key}} =
            {cache[j].key : j \in {m \in DOMAIN cache : cache[m].val = cache[m].key}} \cup {x \in {k} : v = k}
      BY <2>2, <2>4
    <3>. QED BY <3>1, <3>2, <3>3 DEF TemplateKeys
  <2>9. TemplateIs(T, c, content')
    BY <1>7, <2>4, <2>6, <2>7, <2>8 DEF TemplateIs, R
  <2>. QED BY <1>13, <1>15, <2>1, <2>9
<1>. QED BY <1>12, <1>14, <1>15

\* What a table is that the program has just been given.
LEMMA RunIs ==
  ASSUME NEW N, Sound(hash, N), \A x \in HKeys(hash) : Get(hash, N, x) = IF x \in content THEN x ELSE Nil,
         States, iter = Idle, due = {}, tab' = N, States', ArgsSound', phase' = "run",
         UNCHANGED <<hash, content, iter, due>>
  PROVE  IInv'
<1>1. Stored'
  BY DEF Stored
<1>2. Traversed'
  BY DEF Traversed
<1>. QED BY <1>1, <1>2 DEF IInv, Template

\* The cache may be committed to table T, and N is what that gives.
Cached(T) ==
  /\ Sound(hash, T) /\ T.node = [i \in Slots(T) |-> FreeNode]
  /\ \A i \in DOMAIN cache : /\ cache[i].key \in HKeys(hash) /\ ~InArray(T, cache[i].key)
                            /\ ValOK(cache[i].key, cache[i].val)
  /\ \A i, j \in DOMAIN cache : cache[i].key = cache[j].key => i = j
CommitsTo(T, N) ==
  /\ Sound(hash, N)
  /\ \A i \in DOMAIN cache : Get(hash, N, cache[i].key) = cache[i].val
  /\ \A x \in HKeys(hash) :
       (\A i \in DOMAIN cache : cache[i].key # x) => Get(hash, N, x) = Get(hash, T, x)
LEMMA CacheIs ==
  ASSUME Hashable(hash), NEW T, Cached(T), NEW n \in Nat, n = Len(cache), DOMAIN cache = 1 .. n,
         NEW N, N = Committed(T)
  PROVE  CommitsTo(T, N)
<1>1. /\ Sound(hash, T) /\ T.node = [i \in Slots(T) |-> FreeNode]
      /\ \A i \in 1 .. n : /\ cache[i].key \in HKeys(hash) /\ ~InArray(T, cache[i].key)
                          /\ ValOK(cache[i].key, cache[i].val)
      /\ \A i, j \in 1 .. n : cache[i].key = cache[j].key => i = j
  BY DEF Cached
<1>2. /\ Sound(hash, N)
      /\ \A i \in 1 .. n : Get(hash, N, cache[i].key) = cache[i].val
      /\ \A x \in HKeys(hash) :
           (\A i \in 1 .. n : cache[i].key # x) => Get(hash, N, x) = Get(hash, T, x)
  BY <1>1, CommittedIs
<1>. QED BY <1>2 DEF CommitsTo

LEMMA EndIs ==
  ASSUME IInv, expr_table_end
  PROVE  IInv'
<1>0. /\ States /\ ArgsSound /\ Template /\ phase # "run" /\ Hashable(hash) /\ prog.keys \subseteq HKeys(hash)
  BY KeysAre DEF IInv, expr_table_end
<1>1. iter = Idle /\ due = {}
  BY <1>0 DEF Template
<1>. DEFINE C == Committed(tab)
            B == IF args.narr > 1 /\ C.asize < args.narr THEN Reasized(hash, C, args.narr) ELSE C
            E == Empty(IF args.narr = 1 THEN 0 ELSE Max({args.narr, 3}), HashSize(args.nhash))
<1>2. tab' = IF phase = "parse" THEN E ELSE IF C.broken THEN C ELSE Fixed(B)
  BY DEF expr_table_end
<1>3. /\ phase' = "run" /\ cache' = <<>> /\ args' = (IF args.vcall THEN args ELSE NoArgs)
      /\ UNCHANGED <<prog, hash, content, iter, due>>
  BY DEF expr_table_end
<1>. HIDE DEF C, B, E
<1>4. States'
  BY <1>0, <1>3 DEF States
<1>5. ArgsSound'
  BY <1>0, <1>1, <1>3 DEF ArgsSound, NoArgs
<1>6. CASE phase = "parse"
  <2>. DEFINE asize == IF args.narr = 1 THEN 0 ELSE Max({args.narr, 3})
              size == HashSize(args.nhash)
  <2>1. asize \in Nat
    <3>1. args.narr \in Nat
      BY <1>0 DEF ArgsSound
    <3>. DEFINE A == {args.narr, 3}
    <3>2. A \in SUBSET (0 .. args.narr + 3) /\ args.narr + 3 \in Nat /\ A # {}
      BY <3>1
    <3>3. Max(A) \in A
      <4>. HIDE DEF A
      <4>. QED BY <3>2, GreatestOf
    <3>. QED BY <3>1, <3>3
  <2>2. size \in Nat /\ SizeOK(size)
    <3>1. args.nhash \in Nat
      BY <1>0 DEF ArgsSound
    <3>. QED BY <3>1, HashSizeIs
  <2>3. E = Empty(asize, size)
    BY DEF E
  <2>. HIDE DEF asize, size
  <2>4. IsEmpty(hash, E, asize, size)
    BY <1>0, <2>1, <2>2, <2>3, EmptyIs
  <2>5. content = {}
    <3>1. tab.asize = 0
      BY <1>0, <1>6 DEF Template, Empty
    <3>2. \A i \in IntKey : ~InArray(tab, i)
      BY <3>1, Sorts DEF InArray, IntKey
    <3>. QED BY <1>0, <1>6, <3>2 DEF Template
  <2>6. Sound(hash, E) /\ \A x \in HKeys(hash) : Get(hash, E, x) = IF x \in content THEN x ELSE Nil
    BY <2>4, <2>5 DEF IsEmpty
  <2>7. tab' = E
    BY <1>2, <1>6
  <2>. QED BY <1>0, <1>1, <1>3, <1>4, <1>5, <2>6, <2>7, RunIs
<1>7. CASE phase # "parse"
  <2>1. TemplateIs(tab, cache, content)
    BY <1>0 DEF Template, TemplateIs, TemplateKeys
  <2>. DEFINE R == [key : prog.keys, val : Key \cup {Nil, Self}]
  <2>2. PICK n \in Nat : n = Len(cache) /\ DOMAIN cache = 1 .. n /\ \A i \in 1 .. n : cache[i] \in R
    <3>1. cache \in Seq(R)
      BY <2>1 DEF TemplateIs
    <3>. HIDE DEF R
    <3>. QED BY <3>1
  <2>3. \A i \in DOMAIN cache : /\ cache[i].key \in HKeys(hash) /\ ~InArray(tab, cache[i].key)
                              /\ ValOK(cache[i].key, cache[i].val)
    BY <1>0, <2>1, <2>2 DEF TemplateIs
  <2>4. \A i, j \in DOMAIN cache : cache[i].key = cache[j].key => i = j
    BY <2>1 DEF TemplateIs
  <2>5. Sound(hash, tab) /\ tab.node = [i \in Slots(tab) |-> FreeNode]
    BY <2>1 DEF TemplateIs
  <2>6. CommitsTo(tab, C)
    <3>1. C = Committed(tab)
      BY DEF C
    <3>2. Cached(tab)
      BY <2>3, <2>4, <2>5 DEF Cached
    <3>. QED BY <1>0, <2>2, <3>1, <3>2, CacheIs
  <2>16. /\ Sound(hash, C)
         /\ \A i \in DOMAIN cache : Get(hash, C, cache[i].key) = cache[i].val
         /\ \A x \in HKeys(hash) :
               (\A i \in DOMAIN cache : cache[i].key # x) => Get(hash, C, x) = Get(hash, tab, x)
    BY <2>6 DEF CommitsTo
  <2>7. Sound(hash, B) /\ \A x \in HKeys(hash) : Get(hash, B, x) = Get(hash, C, x)
    <3>1. CASE args.narr > 1 /\ C.asize < args.narr
      <4>1. B = Reasized(hash, C, args.narr)
        BY <3>1 DEF B
      <4>2. args.narr \in Nat /\ C.asize \in Nat
        BY <1>0, <2>16 DEF ArgsSound, Sound, IsTab
      <4>3. C.asize <= args.narr
        BY <3>1, <4>2
      <4>4. \E H : Resizes(hash, C, B, args.narr, C.size, H)
        BY <1>0, <2>16, <4>1, <4>2, <4>3, ReasizedIs
      <4>. QED BY <4>4 DEF Resizes
    <3>2. CASE ~(args.narr > 1 /\ C.asize < args.narr)
      <4>1. B = C
        BY <3>2 DEF B
      <4>. QED BY <2>16, <4>1
    <3>. QED BY <3>1, <3>2
  <2>. PICK N : N = Fixed(B)
    OBVIOUS
  <2>8. /\ Sound(hash, N)
        /\ \A x \in HKeys(hash) : Get(hash, N, x) = IF Get(hash, B, x) = Self THEN Nil ELSE Get(hash, B, x)
    BY <1>0, <2>7, FixedIs
  <2>9. tab' = N
    <3>1. C.broken = FALSE
      BY <2>16 DEF Sound, IsTab
    <3>. QED BY <1>2, <1>7, <3>1
  <2>10. ASSUME NEW x \in HKeys(hash) PROVE Get(hash, N, x) = IF x \in content THEN x ELSE Nil
    <3>0. x # Self /\ x # Nil /\ Nil # Self /\ Get(hash, B, x) = Get(hash, C, x)
      BY <1>0, <2>7, HKeyIs, Sorts
    <3>1. x \in content <=> x \in TemplateKeys(tab, cache)
      BY <2>1 DEF TemplateIs
    <3>2. CASE \E i \in DOMAIN cache : cache[i].key = x
      <4>1. PICK i \in DOMAIN cache : cache[i].key = x
        BY <3>2
      <4>2. Get(hash, C, x) = cache[i].val /\ cache[i].val \in {x, Nil, Self} /\ ~InArray(tab, x)
        BY <2>3, <2>16, <4>1 DEF ValOK
      <4>3. x \in content <=> cache[i].val = x
        BY <2>4, <3>1, <4>1, <4>2 DEF TemplateKeys
      <4>. QED BY <2>8, <3>0, <4>2, <4>3
    <3>3. CASE \A i \in DOMAIN cache : cache[i].key # x
      <4>1. Get(hash, C, x) = Get(hash, tab, x)
        BY <2>16, <3>3
      <4>2. x \in content <=> x \in IntKey /\ InArray(tab, x) /\ tab.array[x] = x
        BY <3>1, <3>3 DEF TemplateKeys
      <4>3. CASE InArray(tab, x)
        <5>1. Get(hash, tab, x) = tab.array[x] /\ x \in IntKey /\ tab.array[x] \in {x, Nil}
          BY <1>0, <2>5, <4>3, ValueIs DEF Sound, Valued
        <5>. QED BY <2>8, <3>0, <4>1, <4>2, <4>3, <5>1
      <4>4. CASE ~InArray(tab, x)
        <5>1. \A i \in Slots(tab) : tab.node[i].key # x
          BY <2>5, <3>0 DEF FreeNode
        <5>2. Get(hash, tab, x) = Nil
          BY <1>0, <2>5, <4>4, <5>1, ValueIs
        <5>. QED BY <2>8, <3>0, <4>1, <4>2, <4>4, <5>2
      <4>. QED BY <4>3, <4>4
    <3>. QED BY <3>2, <3>3
  <2>. QED BY <1>0, <1>1, <1>3, <1>4, <1>5, <2>8, <2>9, <2>10, RunIs
<1>. QED BY <1>6, <1>7

-----------------------------------------------------------------------------
(* Steps of the program                                                        *)

LEMMA SetmIs ==
  ASSUME IInv, NEW n \in 0 .. MaxInt, BC_TSETM(n)
  PROVE  IInv'
<1>. DEFINE i == args.narr - 1
            T == IF n > 0 /\ i + n > tab.asize THEN Reasized(hash, tab, i + n + 1) ELSE tab
            set == i .. i + n - 1
<1>0. /\ States /\ ArgsSound /\ Stored /\ Traversed /\ phase = "run" /\ Hashable(hash)
      /\ prog.keys \subseteq HKeys(hash) /\ \A x \in prog.keys : x \in IntKey \/ x \in Str
  BY KeysAre DEF IInv, BC_TSETM, Running
<1>1. /\ args.vcall /\ set \subseteq prog.keys /\ content' = content \cup set /\ args' = NoArgs
      /\ tab' = [T EXCEPT !.array = [j \in DOMAIN T.array |-> IF j \in set THEN j ELSE T.array[j]]]
      /\ UNCHANGED <<prog, phase, hash, cache, iter, due>>
  BY DEF BC_TSETM
<1>2. i \in Nat /\ i > 0 /\ n \in Nat /\ iter = Idle /\ due = {}
  <2>1. args.narr \in Nat /\ args.narr > 1 /\ iter = Idle
    BY <1>0, <1>1 DEF ArgsSound
  <2>2. due = {}
    BY <1>0, <2>1 DEF Traversed
  <2>. QED BY <2>1, <2>2, Sorts
<1>. HIDE DEF i
<1>3. \A x \in set : x \in IntKey /\ x \in Nat
  BY <1>0, <1>1, <1>2, Sorts
<1>4. Sound(hash, tab) /\ tab.asize \in Nat
  BY <1>0 DEF Stored, Sound, IsTab
<1>5. /\ Sound(hash, T) /\ \A x \in HKeys(hash) : Get(hash, T, x) = Get(hash, tab, x)
      /\ \A x \in set : x < T.asize
  <2>1. CASE n > 0 /\ i + n > tab.asize
    <3>1. T = Reasized(hash, tab, i + n + 1) /\ i + n + 1 \in Nat /\ tab.asize <= i + n + 1
      BY <1>2, <1>4, <2>1
    <3>2. \E H : Resizes(hash, tab, T, i + n + 1, tab.size, H)
      <4>. HIDE DEF T
      <4>. QED BY <1>0, <1>4, <3>1, ReasizedIs
    <3>3. T.asize = i + n + 1 /\ Sound(hash, T) /\ \A x \in HKeys(hash) : Get(hash, T, x) = Get(hash, tab, x)
      <4>. HIDE DEF T
      <4>. QED BY <3>2 DEF Resizes
    <3>. HIDE DEF T
    <3>. QED BY <1>2, <3>3
  <2>2. CASE ~(n > 0 /\ i + n > tab.asize)
    <3>1. T = tab
      BY <2>2
    <3>2. \A x \in set : x < tab.asize
      BY <1>2, <1>4, <2>2
    <3>. HIDE DEF T
    <3>. QED BY <1>4, <3>1, <3>2
  <2>. QED BY <2>1, <2>2
<1>. PICK N : N = tab'
  OBVIOUS
<1>. DEFINE X == [j \in DOMAIN T.array |-> IF j \in set THEN j ELSE T.array[j]]
<1>. HIDE DEF T, set
<1>6. T.array \in [0 .. T.asize - 1 -> IntKey \cup {Nil}] /\ T.asize \in Nat
      /\ \A j \in 0 .. T.asize - 1 : T.array[j] \in {j, Nil}
  BY <1>5 DEF Sound, IsTab, Valued
<1>7. /\ X \in [0 .. T.asize - 1 -> IntKey \cup {Nil}]
      /\ \A j \in 0 .. T.asize - 1 : X[j] = IF j \in set THEN j ELSE T.array[j]
  BY <1>3, <1>6
<1>8. Rearrays(N, T) /\ N.array = X
  <2>1. N = [T EXCEPT !.array = X]
    BY <1>1
  <2>2. T \in [asize : Nat, array : {T.array}, size : Nat, node : {T.node}, freetop : Nat, broken : {FALSE}]
    BY <1>5 DEF Sound, IsTab
  <2>. HIDE DEF X
  <2>. QED BY <2>1, <2>2 DEF Rearrays
<1>. HIDE DEF X
<1>9. /\ Rearrays(N, T) /\ N.array \in [0 .. T.asize - 1 -> IntKey \cup {Nil}]
      /\ \A j \in 0 .. T.asize - 1 : N.array[j] \in {j, Nil}
  BY <1>6, <1>7, <1>8
<1>10. /\ Sound(hash, N)
       /\ \A x \in HKeys(hash) : Get(hash, N, x) = IF InArray(T, x) THEN N.array[x] ELSE Get(hash, T, x)
  BY <1>0, <1>5, <1>9, Rearrayed
<1>11. ASSUME NEW x \in HKeys(hash) PROVE Get(hash, N, x) = IF x \in content' THEN x ELSE Nil
  <2>1. Get(hash, T, x) = IF x \in content THEN x ELSE Nil
    BY <1>0, <1>5 DEF Stored
  <2>2. CASE InArray(T, x)
    <3>1. x \in 0 .. T.asize - 1 /\ Get(hash, T, x) = T.array[x]
      BY <1>0, <1>5, <2>2, ValueIs
    <3>2. Get(hash, N, x) = IF x \in set THEN x ELSE T.array[x]
      BY <1>7, <1>8, <1>10, <2>2, <3>1
    <3>. QED BY <1>1, <2>1, <3>1, <3>2
  <2>3. CASE ~InArray(T, x)
    <3>1. x \notin set
      BY <1>3, <1>5, <2>3 DEF InArray
    <3>. QED BY <1>1, <1>10, <2>1, <2>3, <3>1
  <2>. QED BY <2>2, <2>3
<1>12. States'
  BY <1>0, <1>1, <1>2 DEF States
<1>13. ArgsSound'
  BY <1>1 DEF ArgsSound, NoArgs
<1>14. Stored'
  BY <1>1, <1>10, <1>11 DEF Stored
<1>15. Traversed'
  BY <1>1, <1>2 DEF Traversed
<1>16. Template'
  BY <1>0, <1>1 DEF Template
<1>. QED BY <1>12, <1>13, <1>14, <1>15, <1>16 DEF IInv

LEMMA StoreIs ==
  ASSUME IInv, NEW k \in prog.keys, NEW v \in {k, Nil}, lj_tab_set(k, v)
  PROVE  IInv'
<1>0. /\ States /\ ArgsSound /\ Stored /\ Traversed /\ phase = "run" /\ Hashable(hash)
      /\ prog.keys \subseteq HKeys(hash) /\ k \in HKeys(hash) /\ ValOK(k, v)
  BY KeysAre DEF IInv, lj_tab_set, Running, ValOK
<1>1. /\ content' = (IF v = k THEN content \cup {k} ELSE content \ {k})
      /\ IF k \in content THEN iter' = iter /\ due' = due \cap content' ELSE iter' = Idle /\ due' = {}
      /\ UNCHANGED <<prog, phase, hash, cache, args>>
  BY DEF lj_tab_set, Stopped
<1>2. PICK N : N = tab'
  OBVIOUS
<1>3. N = Set(hash, tab, k, v)
  BY <1>2 DEF lj_tab_set
<1>4. Sound(hash, tab) /\ \A x \in HKeys(hash) : Get(hash, tab, x) = IF x \in content THEN x ELSE Nil
  BY <1>0 DEF Stored
<1>5. /\ Sound(hash, N)
      /\ \A x \in HKeys(hash) : Get(hash, N, x) = IF x = k THEN v ELSE Get(hash, tab, x)
      /\ InArray(tab, k) \/ Find(hash, tab, k) # Null =>
              /\ N.asize = tab.asize /\ N.size = tab.size
              /\ \A x \in HKeys(hash) : Find(hash, N, x) = Find(hash, tab, x)
  BY <1>0, <1>3, <1>4, SetIs
<1>6. k # Nil
  BY <1>0, HKeyIs
<1>7. ASSUME NEW x \in HKeys(hash) PROVE Get(hash, N, x) = IF x \in content' THEN x ELSE Nil
  BY <1>1, <1>4, <1>5, <1>6
<1>8. States'
  BY <1>0, <1>1 DEF States
<1>9. ArgsSound'
  BY <1>0, <1>1 DEF ArgsSound
<1>10. Template'
  BY <1>0, <1>1 DEF Template
<1>11. Stored'
  BY <1>1, <1>2, <1>5, <1>7 DEF Stored
<1>12. Traversed'
  <2>1. CASE k \notin content
    BY <1>1, <2>1 DEF Traversed
  <2>2. CASE k \in content
    <3>1. iter' = iter /\ due' = due \cap content' /\ content' \subseteq content
      BY <1>1, <2>2
    <3>2. /\ iter \in HKeys(hash) \cup {Idle}
          /\ iter = Idle => due = {}
          /\ iter # Idle =>
               /\ InArray(tab, iter) \/ Find(hash, tab, iter) # Null
               /\ due = {x \in content : keyindex(hash, tab, x) > keyindex(hash, tab, iter)}
      BY <1>0 DEF Traversed
    <3>3. Get(hash, tab, k) # Nil
      BY <1>0, <1>4, <1>6, <2>2
    <3>4. InArray(tab, k) \/ Find(hash, tab, k) # Null
      BY <1>0, <1>4, <3>3, IndexIs
    <3>5. \A x \in HKeys(hash) : /\ InArray(N, x) <=> InArray(tab, x)
                                 /\ Find(hash, N, x) = Find(hash, tab, x)
                                 /\ keyindex(hash, N, x) = keyindex(hash, tab, x)
      BY <1>5, <3>4 DEF InArray, keyindex
    <3>6. CASE iter = Idle
      BY <1>1, <3>1, <3>2, <3>6 DEF Traversed
    <3>7. CASE iter # Idle
      <4>1. iter \in HKeys(hash) /\ content' \subseteq HKeys(hash)
        BY <1>0, <3>1, <3>2, <3>7 DEF States
      <4>2. InArray(N, iter) \/ Find(hash, N, iter) # Null
        BY <3>2, <3>5, <3>7, <4>1
      <4>3. due' = {x \in content' : keyindex(hash, N, x) > keyindex(hash, N, iter)}
        BY <3>1, <3>2, <3>5, <3>7, <4>1
      <4>. QED BY <1>1, <1>2, <3>1, <3>7, <4>1, <4>2, <4>3 DEF Traversed
    <3>. QED BY <3>6, <3>7
  <2>. QED BY <2>1, <2>2
<1>. QED BY <1>8, <1>9, <1>10, <1>11, <1>12 DEF IInv

LEMMA ClearIs ==
  ASSUME IInv, lj_tab_clear
  PROVE  IInv'
<1>0. States /\ Stored /\ phase = "run" /\ Hashable(hash)
  BY KeysAre DEF IInv, lj_tab_clear, Running
<1>1. /\ content' = {} /\ iter' = Idle /\ due' = {} /\ args' = NoArgs
      /\ UNCHANGED <<prog, phase, hash, cache>>
  BY DEF lj_tab_clear, Stopped
<1>2. PICK N : N = tab'
  OBVIOUS
<1>3. N = Empty(tab.asize, tab.size) /\ tab.asize \in Nat /\ tab.size \in Nat /\ SizeOK(tab.size)
  BY <1>0, <1>2 DEF lj_tab_clear, Stored, Sound, IsTab
<1>4. IsEmpty(hash, N, tab.asize, tab.size)
  BY <1>0, <1>3, EmptyIs
<1>5. Stored'
  BY <1>1, <1>2, <1>4 DEF Stored, IsEmpty
<1>6. States' /\ ArgsSound' /\ Template' /\ Traversed'
  BY <1>0, <1>1 DEF States, ArgsSound, NoArgs, Template, Traversed
<1>. QED BY <1>5, <1>6 DEF IInv

\* A call of lua_next finds the key that it is given, and returns the next one there is.
NextKey == Following(tab, IF iter = Idle THEN 0 ELSE keyindex(hash, tab, iter) + 1)
LEMMA NextIs ==
  ASSUME IInv, lj_tab_next
  PROVE  /\ IInv' /\ (iter' = Idle => due' = {}) /\ iter' # Error
         /\ iter' # Idle => iter' \in (IF iter = Idle THEN content ELSE due) /\ iter' # iter
<1>0. /\ States /\ ArgsSound /\ Stored /\ Traversed /\ phase = "run" /\ Hashable(hash)
      /\ prog.keys \subseteq HKeys(hash) /\ content \subseteq HKeys(hash)
  BY KeysAre DEF IInv, lj_tab_next, Running, States
<1>1. Sound(hash, tab) /\ \A x \in HKeys(hash) : Get(hash, tab, x) = IF x \in content THEN x ELSE Nil
  BY <1>0 DEF Stored
<1>2. /\ iter \in HKeys(hash) \cup {Idle}
      /\ iter = Idle => due = {}
      /\ iter # Idle =>
           /\ InArray(tab, iter) \/ Find(hash, tab, iter) # Null
           /\ due = {x \in content : keyindex(hash, tab, x) > keyindex(hash, tab, iter)}
  BY <1>0 DEF Traversed
<1>. DEFINE todo == IF iter = Idle THEN content ELSE due
            start == IF iter = Idle THEN 0 ELSE keyindex(hash, tab, iter) + 1
<1>3. /\ iter' = (IF NextKey = Nil THEN Idle ELSE NextKey)
      /\ due' = todo \ {iter'} /\ args' = NoArgs
      /\ UNCHANGED <<prog, phase, tab, hash, cache, content>>
  BY <1>2 DEF lj_tab_next, NextKey
<1>4. \A x \in content : x \in HKeys(hash) /\ x # Nil /\ x # Idle /\ Get(hash, tab, x) # Nil
  BY <1>0, <1>1, HKeyIs
<1>5. \A x \in content : keyindex(hash, tab, x) \in Nat
  <2>1. tab.asize \in Nat /\ tab.size \in Nat
    BY <1>1 DEF Sound, IsTab
  <2>2. ASSUME NEW x \in content PROVE keyindex(hash, tab, x) \in Nat
    <3>1. keyindex(hash, tab, x) \in 0 .. tab.asize + tab.size - 1
      BY <1>0, <1>1, <1>4, IndexIs
    <3>. QED BY <2>1, <3>1
  <2>. QED BY <2>2
<1>6. iter # Idle => keyindex(hash, tab, iter) \in Nat
  <2>1. tab.asize \in Nat /\ tab.size \in Nat
    BY <1>1 DEF Sound, IsTab
  <2>2. ASSUME iter # Idle PROVE keyindex(hash, tab, iter) \in Nat
    <3>1. keyindex(hash, tab, iter) \in 0 .. tab.asize + tab.size - 1
      BY <1>0, <1>1, <1>2, <2>2, IndexIs
    <3>. QED BY <2>1, <3>1
  <2>. QED BY <2>2
<1>7. start \in Nat /\ NextKey = Following(tab, start)
  BY <1>6 DEF NextKey
<1>8. todo = {x \in content : keyindex(hash, tab, x) >= start}
  BY <1>2, <1>5, <1>6
<1>. HIDE DEF todo, start
<1>. PICK key : key = NextKey
  OBVIOUS
<1>9. /\ key = Nil => \A x \in HKeys(hash) : Get(hash, tab, x) # Nil => keyindex(hash, tab, x) < start
      /\ key # Nil =>
           /\ key \in HKeys(hash) /\ Get(hash, tab, key) # Nil /\ keyindex(hash, tab, key) >= start
           /\ \A x \in HKeys(hash) : Get(hash, tab, x) # Nil /\ x # key /\ keyindex(hash, tab, x) >= start =>
                keyindex(hash, tab, x) > keyindex(hash, tab, key)
  BY <1>0, <1>1, <1>7, FollowingIs
<1>10. CASE key = Nil
  <2>1. todo = {}
    <3>1. \A x \in content : keyindex(hash, tab, x) < start
      BY <1>4, <1>9, <1>10
    <3>. QED BY <1>5, <1>7, <1>8, <3>1
  <2>2. iter' = Idle /\ due' = {}
    BY <1>3, <1>10, <2>1
  <2>3. States' /\ ArgsSound' /\ Template' /\ Stored' /\ Traversed'
    BY <1>0, <1>1, <1>3, <2>2 DEF States, ArgsSound, NoArgs, Template, Stored, Traversed
  <2>4. Idle # Error
    BY Sorts
  <2>. QED BY <2>2, <2>3, <2>4 DEF IInv
<1>11. CASE key # Nil
  <2>1. /\ key \in HKeys(hash) /\ key \in content /\ key # Idle /\ key # Error
        /\ Get(hash, tab, key) # Nil /\ keyindex(hash, tab, key) >= start
    BY <1>0, <1>1, <1>9, <1>11, HKeyIs
  <2>2. iter' = key /\ due' = todo \ {key}
    BY <1>3, <1>11
  <2>3. key \in todo
    BY <1>8, <2>1
  <2>4. due' = {x \in content : keyindex(hash, tab, x) > keyindex(hash, tab, key)}
    <3>1. ASSUME NEW x \in content, x # key, keyindex(hash, tab, x) >= start
          PROVE  keyindex(hash, tab, x) > keyindex(hash, tab, key)
      BY <1>4, <1>9, <1>11, <3>1
    <3>2. ASSUME NEW x \in content, keyindex(hash, tab, x) > keyindex(hash, tab, key)
          PROVE  keyindex(hash, tab, x) >= start /\ x # key
      <4>1. keyindex(hash, tab, x) \in Nat /\ keyindex(hash, tab, key) \in Nat
        BY <1>5, <2>1
      <4>2. x # key
        BY <3>2, <4>1
      <4>. QED BY <1>7, <2>1, <3>2, <4>1, <4>2
    <3>. QED BY <1>8, <2>2, <3>1, <3>2
  <2>5. InArray(tab, key) \/ Find(hash, tab, key) # Null
    BY <1>0, <1>1, <2>1, IndexIs
  <2>6. Traversed'
    BY <1>3, <2>1, <2>2, <2>4, <2>5 DEF Traversed
  <2>7. States'
    BY <1>0, <1>3, <2>4 DEF States
  <2>8. ArgsSound' /\ Template' /\ Stored'
    BY <1>0, <1>1, <1>3 DEF ArgsSound, NoArgs, Template, Stored
  <2>9. key # iter
    <3>1. CASE iter = Idle
      BY <2>1, <3>1
    <3>2. CASE iter # Idle
      <4>1. start = keyindex(hash, tab, iter) + 1
        BY <3>2 DEF start
      <4>. QED BY <1>6, <2>1, <3>2, <4>1
    <3>. QED BY <3>1, <3>2
  <2>10. todo = IF iter = Idle THEN content ELSE due
    BY DEF todo
  <2>. QED BY <2>1, <2>2, <2>3, <2>6, <2>7, <2>8, <2>9, <2>10 DEF IInv
<1>. QED BY <1>10, <1>11

(***************************************************************************)
(* The theorems                                                            *)
(***************************************************************************)

LEMMA StepIs ==
  ASSUME Plain(prog), IInv, [Next]_vars
  PROVE  /\ IInv' /\ Plain(prog)'
         /\ iter' \in Key /\ iter' # iter => iter' \in (IF iter = Idle THEN content ELSE due)
<1>0. Idle \notin Key
  BY Sorts
<1>1. ASSUME NEW k \in prog.keys, NEW positional \in BOOLEAN, NEW v \in {k, Nil, Self},
             Item(k, v, positional)
      PROVE  IInv' /\ iter' = iter /\ prog' = prog
  <2>1. IInv'
    BY <1>1, ItemIs
  <2>2. iter' = iter /\ prog' = prog
    BY <1>1 DEF Item
  <2>. QED BY <2>1, <2>2
<1>2. ASSUME expr_table_end PROVE IInv' /\ iter' = iter /\ prog' = prog
  BY <1>2, EndIs DEF expr_table_end
<1>3. ASSUME NEW n \in 0 .. MaxInt, BC_TSETM(n)
      PROVE  IInv' /\ iter' = iter /\ prog' = prog
  BY <1>3, SetmIs DEF BC_TSETM
<1>4. ASSUME NEW k \in prog.keys, NEW v \in {k, Nil}, lj_tab_set(k, v)
      PROVE  IInv' /\ iter' \in {iter, Idle} /\ prog' = prog
  BY <1>4, StoreIs DEF lj_tab_set, Stopped
<1>5. ASSUME lj_tab_clear PROVE IInv' /\ iter' = Idle /\ prog' = prog
  BY <1>5, ClearIs DEF lj_tab_clear, Stopped
<1>6. ASSUME lj_tab_next
      PROVE  IInv' /\ (iter' # Idle => iter' \in (IF iter = Idle THEN content ELSE due)) /\ prog' = prog
  BY <1>6, NextIs DEF lj_tab_next
<1>7. ASSUME NEW s \in DOMAIN hash, NEW h \in Hashes, Reuse(s, h) PROVE FALSE
  BY <1>7 DEF Reuse, Plain
<1>8. ASSUME UNCHANGED vars PROVE IInv' /\ iter' = iter /\ prog' = prog
  BY <1>8 DEF vars, IInv, States, ArgsSound, Template, Stored, Traversed
<1>9. prog' = prog /\ IInv' /\ (iter' = iter \/ iter' = Idle \/ iter' \in (IF iter = Idle THEN content ELSE due))
  BY <1>1, <1>2, <1>3, <1>4, <1>5, <1>6, <1>7, <1>8 DEF Next
<1>10. Plain(prog)'
  BY <1>9 DEF Plain
<1>. QED BY <1>0, <1>9, <1>10

LEMMA NodesAre ==
  ASSUME IInv
  PROVE  NodesSound
<1>0. /\ States /\ Hashable(hash) /\ Sound(hash, tab) /\ Null \notin Nat
  <2>1. States /\ Hashable(hash)
    BY KeysAre DEF IInv
  <2>. QED BY <2>1, Sorts DEF IInv, Template, Stored, States
<1>1. /\ tab.asize \in Nat /\ tab.size \in Nat /\ tab.freetop \in 0 .. tab.size /\ tab.broken = FALSE
      /\ tab.array \in [0 .. tab.asize - 1 -> IntKey \cup {Nil}]
      /\ tab.node \in [Slots(tab) -> Entry(tab)] /\ SizeOK(tab.size)
  BY <1>0 DEF Sound, IsTab
<1>2. \A i \in Slots(tab) : tab.node[i].key = Nil => tab.node[i] = FreeNode
  BY <1>0 DEF Sound, FreeBelow
<1>3. ASSUME NEW i \in Slots(tab), tab.node[i].key # Nil
      PROVE  /\ tab.node[i].key \in HKeys(hash) /\ ~InArray(tab, tab.node[i].key)
             /\ Find(hash, tab, tab.node[i].key) = i
             /\ Get(hash, tab, tab.node[i].key) = tab.node[i].val
  <2>1. tab.node[i].key \in HKeys(hash) /\ ~InArray(tab, tab.node[i].key)
    BY <1>0, <1>3 DEF Sound, Placed
  <2>2. IsTab(tab) /\ Linked(tab) /\ Placed(hash, tab)
    BY <1>0 DEF Sound
  <2>. QED BY <1>0, <2>1, <2>2, FindIs, GetIs
<1>4. TypeOK
  <2>1. ASSUME NEW i \in Slots(tab) PROVE tab.node[i].val \in Key \cup {Nil}
    <3>1. CASE tab.node[i].key = Nil
      BY <1>2, <3>1 DEF FreeNode
    <3>2. CASE tab.node[i].key # Nil /\ phase # "run"
      BY <1>0, <3>2 DEF IInv, Template, FreeNode
    <3>3. CASE tab.node[i].key # Nil /\ phase = "run"
      <4>1. tab.node[i].key \in Key
        BY <1>0, <1>3, <3>3, HKeyIs
      <4>2. Get(hash, tab, tab.node[i].key) \in {tab.node[i].key, Nil}
        BY <1>3, <3>3 DEF IInv, Stored
      <4>. QED BY <1>3, <3>3, <4>1, <4>2
    <3>. QED BY <3>1, <3>2, <3>3
  <2>2. tab.node \in [0 .. tab.size - 1 -> Node]
    <3>1. \A i \in Slots(tab) : tab.node[i] \in Node
      BY <1>1, <2>1 DEF Entry, Node, Slots
    <3>. QED BY <1>1, <3>1 DEF Slots
  <2>3. iter \in Key \cup {Idle, Error}
    <3>1. CASE phase = "run"
      BY <1>0, <3>1, HKeyIs DEF IInv, Traversed
    <3>2. CASE phase # "run"
      BY <3>2 DEF IInv, Template
    <3>. QED BY <3>1, <3>2
  <2>4. tab.size = 0 \/ \E b \in 1 .. tab.size : tab.size = Pow2[b]
    BY <1>1 DEF SizeOK
  <2>. QED BY <1>0, <1>1, <2>2, <2>3, <2>4 DEF TypeOK, States
<1>5. \A i \in Slots(tab) : Live(i) => tab.node[i].key # Nil
  BY <1>2 DEF Live, FreeNode
<1>6. DOMAIN tab.node = Slots(tab) /\ \A i \in Slots(tab) : i # Null
  BY <1>0, <1>1 DEF Slots
<1>7. KeysReachable
  BY <1>3, <1>5, <1>6 DEF KeysReachable
<1>8. KeysUnique
  BY <1>0, <1>5, <1>6 DEF KeysUnique, Sound, Placed
<1>9. RehashFits
  BY <1>1 DEF RehashFits
<1>. QED BY <1>4, <1>7, <1>8, <1>9 DEF NodesSound

LEMMA ValuesAre ==
  ASSUME IInv
  PROVE  Faithful /\ LenIsBorder
<1>. SUFFICES ASSUME Running PROVE Faithful /\ LenIsBorder
  BY DEF Faithful, LenIsBorder
<1>0. /\ Hashable(hash) /\ prog.keys \subseteq HKeys(hash) /\ content \subseteq Key
      /\ Sound(hash, tab) /\ \A x \in HKeys(hash) : Get(hash, tab, x) = IF x \in content THEN x ELSE Nil
  BY KeysAre DEF IInv, Stored, Running, States
<1>1. Faithful
  BY <1>0 DEF Faithful
<1>. PICK n : n = lj_tab_len(hash, tab)
  OBVIOUS
<1>2. Border(hash, tab, n)
  BY <1>0, LengthIs
<1>3. \A x \in IntKey : x \in HKeys(hash) /\ x # Nil
  BY <1>0, HKeyIs DEF HKeys
<1>4. n = 0 \/ n \in content
  BY <1>0, <1>2, <1>3 DEF Border
<1>5. n + 1 \notin content
  <2>1. CASE n + 1 \in IntKey
    BY <1>0, <1>2, <1>3, <2>1 DEF Border, IsNil
  <2>2. CASE n + 1 \notin IntKey
    <3>1. n + 1 \in Nat
      BY <1>2 DEF Border
    <3>. QED BY <1>0, <2>2, <3>1, Sorts DEF Key
  <2>. QED BY <2>1, <2>2
<1>. QED BY <1>1, <1>4, <1>5 DEF LenIsBorder

LEMMA Invariant ==
  Spec /\ Plain(prog) => [](IInv /\ Plain(prog))
<1>1. Init => IInv
  BY InitIs
<1>2. (IInv /\ Plain(prog)) /\ [Next]_vars => (IInv /\ Plain(prog))'
  BY StepIs
<1>. QED BY <1>1, <1>2, PTL DEF Spec

\* Nothing that the program does, from its constructor on, breaks the hash part: its size stays
\* a power of two, every key with a value is found, in one node and never in one when it belongs
\* into the array, a table that lj_tab_resize has made has room, and the search of
\* lj_tab_newkey for the node before the one that moves stays on a chain.
THEOREM TabNodes ==
  Spec /\ Plain(prog) => []NodesSound
<1>1. IInv => NodesSound
  BY NodesAre
<1>. QED BY <1>1, Invariant, PTL

\* lj_tab_get returns what the program has stored, whatever was in the template or its cache and
\* however often lj_tab_newkey has moved nodes and rehashtab has resized the table since.
THEOREM TabFaithful ==
  Spec /\ Plain(prog) => []Faithful
<1>1. IInv => Faithful
  BY ValuesAre
<1>. QED BY <1>1, Invariant, PTL

\* lj_tab_len returns a border, by both of its searches and across the two parts of the table.
THEOREM TabLength ==
  Spec /\ Plain(prog) => []LenIsBorder
<1>1. IInv => LenIsBorder
  BY ValuesAre
<1>. QED BY <1>1, Invariant, PTL

\* lj_tab_next, called again and again while fields get new values or nil, never fails, returns
\* no key without a value and none twice, and ends when there is no other.
THEOREM TabTraversal ==
  Spec /\ Plain(prog) => TraversalExact
<1>1. ASSUME Plain(prog), IInv, IInv', [Next]_vars
      PROVE  [/\ iter' # Error /\ (iter' = Idle => due' = {})
              /\ iter' \in Key /\ iter' # iter => iter' \in (IF iter = Idle THEN content ELSE due)]_vars
  <2>1. iter' # Error /\ (iter' = Idle => due' = {})
    <3>1. Hashable(hash') /\ Idle # Error
      BY <1>1, KeysAre, Sorts DEF IInv, States, Hashable
    <3>2. CASE phase' = "run"
      BY <1>1, <3>1, <3>2, HKeyIs DEF IInv, Traversed
    <3>3. CASE phase' # "run"
      BY <1>1, <3>1, <3>3 DEF IInv, Template
    <3>. QED BY <3>2, <3>3
  <2>2. iter' \in Key /\ iter' # iter => iter' \in (IF iter = Idle THEN content ELSE due)
    BY <1>1, StepIs
  <2>. QED BY <2>1, <2>2
<1>. QED BY <1>1, Invariant, PTL DEF Spec, TraversalExact
====
