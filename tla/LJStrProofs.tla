------------------------------ MODULE LJStrProofs ------------------------------
(* Interning is sound for any number of strings, any hash function and tables   *)
(* of any size: an inductive invariant of LJStr, and its refinement of StrSet.  *)
EXTENDS LJStr, TLAPS, FiniteSetTheorems

\* What a colour says of a string, in each phase: outside the sweep all strings are of the
\* current white; during it, those in swept chains are, and what is held is not dead.
MarksSound ==
  /\ state # "sweepstring" => \A s \in Made : mark[s] = currentwhite
  /\ state = "sweepstring" =>
       /\ sweepstr <= strmask
       /\ \A s \in Made : Chain(val[s]) < sweepstr => mark[s] = currentwhite
       /\ \A s \in held : ~isdead(s)

TableSound == ChainsSound /\ CountTrue /\ held \subseteq Made
IInv == TypeOK /\ TableSound /\ MarksSound

(***************************************************************************)
(* The table.                                                              *)
(***************************************************************************)
\* The mask is one less than the number of chains.
LEMMA MaskOf ==
  ASSUME NEW n \in Nat, 0 < n, NEW T, DOMAIN T = 0 .. n - 1
  PROVE  Cardinality(DOMAIN T) - 1 = n - 1
<1>1. Cardinality(0 .. n - 1) = n
  BY FS_Interval
<1> QED BY <1>1

\* There is a chain, and chains are numbered up to the mask.
LEMMA TableShape ==
  ASSUME TypeOK
  PROVE  /\ strmask \in Nat /\ strmask < MaxTab
         /\ strhash \in [0 .. strmask -> SUBSET Str]
<1>1. PICK n \in 1 .. MaxTab : strhash \in [0 .. n - 1 -> SUBSET Str]
  BY DEF TypeOK
<1>2. n \in Nat /\ 0 < n /\ n <= MaxTab /\ MaxTab \in Nat
  BY <1>1, TableSizes
<1>3. strmask = n - 1
  BY <1>1, <1>2, MaskOf DEF strmask
<1> QED BY <1>1, <1>2, <1>3

\* The chain of a hash is one that the table has.
LEMMA ModRange ==
  ASSUME NEW a \in Nat, NEW n \in Nat, 0 < n
  PROVE  a % n \in 0 .. n - 1
OBVIOUS

\* A lookup goes to a chain of the table.
LEMMA ChainInTable ==
  ASSUME TypeOK, NEW d \in Data
  PROVE  Chain(d) \in 0 .. strmask
<1>1. strmask \in Nat /\ Hash[d] \in Nat
  BY TableShape, HashIsFunction
<1> QED BY <1>1, ModRange DEF Chain

\* A string that is there is in one chain.
LEMMA InOneChain ==
  ASSUME TypeOK, ChainsSound, NEW s \in Made
  PROVE  /\ val[s] \in Data /\ Chain(val[s]) \in DOMAIN strhash
         /\ s \in strhash[Chain(val[s])]
<1>1. val[s] \in Data
  BY DEF TypeOK, Made
<1>2. Chain(val[s]) \in DOMAIN strhash
  BY <1>1, ChainInTable, TableShape
<1> QED BY <1>1, <1>2 DEF ChainsSound

\* Strings that are there are finitely many.
LEMMA MadeFinite == IsFiniteSet(Made) /\ Cardinality(Made) \in Nat
<1>1. Made \in SUBSET Str
  BY DEF Made
<1> QED BY <1>1, MemoryIsFinite, FS_Subset, FS_CardinalityType

\* A table whose chains hold the strings M is rehashed to one that has each in its new chain.
LEMMA RehashedSound ==
  ASSUME NEW n \in Nat, 0 < n, NEW T, NEW M \in SUBSET Str,
         \A s \in M : \E c \in DOMAIN T : s \in T[c],
         \A c \in DOMAIN T : T[c] \subseteq M
  PROVE  /\ Rehashed(T, n) \in [0 .. n - 1 -> SUBSET Str]
         /\ \A c \in 0 .. n - 1 : \A s \in M : s \in Rehashed(T, n)[c] <=> Hash[val'[s]] % n = c
         /\ \A c \in 0 .. n - 1 : Rehashed(T, n)[c] \subseteq M
<1>1. UNION {T[c] : c \in DOMAIN T} = M
  OBVIOUS
<1> QED BY <1>1 DEF Rehashed

\* A table of n chains with each string in its chain is sound after a step.
LEMMA TableAfter ==
  ASSUME NEW n \in Nat, 0 < n, strhash' \in [0 .. n - 1 -> SUBSET Str], (val \in [Str -> Data \cup {None}])',
         \A c \in 0 .. n - 1 : \A s \in Made' : s \in strhash'[c] <=> Hash[val'[s]] % n = c,
         \A c \in 0 .. n - 1 : strhash'[c] \subseteq Made',
         \A s \in Made', t \in Made' : val'[s] = val'[t] => s = t
  PROVE  strmask' = n - 1 /\ ChainsSound'
<1>1. strmask' = n - 1
  BY MaskOf DEF strmask
<1>2. \A s \in Made' : Chain(val[s])' = Hash[val'[s]] % n
  BY <1>1 DEF Chain
<1> QED BY <1>1, <1>2 DEF ChainsSound

\* The two whites differ.
LEMMA TwoWhites == currentwhite \in {"white0", "white1"} =>
                     otherwhite # currentwhite /\ otherwhite \in {"white0", "white1"}
BY DEF otherwhite

(***************************************************************************)
(* The steps.                                                              *)
(***************************************************************************)
LEMMA FoundKeeps ==
  ASSUME IInv, NEW d \in Data, full = "no", Found(d)
  PROVE  IInv'
<1> USE DEF IInv, TableSound
<1>1. PICK s \in strhash[Chain(d)] : /\ val[s] = d /\ mark' = Revived(s) /\ held' = held \cup {s}
                                     /\ UNCHANGED <<strhash, strnum, val, gcvars>>
  BY DEF Found
<1>2. Chain(d) \in DOMAIN strhash
  BY ChainInTable, TableShape
<1>3. s \in Made /\ s \in Str
  BY <1>1, <1>2 DEF ChainsSound, Made
<1>4. mark' = IF isdead(s) THEN [mark EXCEPT ![s] = currentwhite] ELSE mark
  BY <1>1 DEF Revived
<1>5. strmask' = strmask /\ Made' = Made /\ otherwhite' = otherwhite /\ (\A e : Chain(e)' = Chain(e))
  BY <1>1 DEF strmask, Made, otherwhite, gcvars, Chain
<1>6. TypeOK'
  BY <1>1, <1>3, <1>4 DEF TypeOK, gcvars
<1>7. TableSound'
  BY <1>1, <1>3, <1>5 DEF ChainsSound, CountTrue
<1>8. MarksSound'
  <2>1. mark' \in [Str -> {"white0", "white1", "black"}] /\ mark \in [Str -> {"white0", "white1", "black"}]
    BY <1>6 DEF TypeOK
  <2>2. \A t \in Str : mark[t] = currentwhite => mark'[t] = currentwhite
    BY <1>4, <1>3, <2>1
  <2>3. \A t \in Str : ~isdead(t) => ~isdead(t)'
    BY <1>4, <1>5, <1>3, <2>1, TwoWhites DEF TypeOK, isdead
  <2>4. ~isdead(s)'
    BY <1>4, <1>5, <1>3, <2>1, TwoWhites DEF TypeOK, isdead
  <2>5. Made \subseteq Str
    BY DEF Made
  <2> QED BY <1>1, <1>5, <2>2, <2>3, <2>4, <2>5 DEF MarksSound, gcvars
<1> QED BY <1>6, <1>7, <1>8

LEMMA NewKeeps ==
  ASSUME IInv, NEW d \in Data, NEW s \in Str, full = "no", New(d, s)
  PROVE  IInv'
<1> USE DEF IInv, TableSound
<1> DEFINE T == [strhash EXCEPT ![Chain(d)] = @ \cup {s}]
<1> DEFINE n == 2 * (strmask + 1)
<1>1. /\ \A t \in strhash[Chain(d)] : val[t] # d
      /\ val[s] = None
      /\ val' = [val EXCEPT ![s] = d] /\ mark' = [mark EXCEPT ![s] = currentwhite]
      /\ strnum' = strnum + 1 /\ UNCHANGED gcvars
      /\ held' = held \/ held' = held \cup {s}
      /\ strhash' = T \/ (MayResize(n) /\ strhash' = Rehashed(T, n))
  BY Zenon DEF New
<1>2. /\ strmask \in Nat /\ strmask < MaxTab /\ strhash \in [0 .. strmask -> SUBSET Str]
      /\ Chain(d) \in 0 .. strmask
      /\ n \in Nat /\ 0 < n
  BY TableShape, ChainInTable
<1>3. val \in [Str -> Data \cup {None}] /\ val' \in [Str -> Data \cup {None}] /\ d # None
  BY <1>1, NullIsNone DEF TypeOK
<1>4. s \notin Made /\ Made' = Made \cup {s} /\ Made \subseteq Str
  BY <1>1, <1>3 DEF Made
<1>5. \A t \in Made : val'[t] = val[t]
  BY <1>1, <1>3, <1>4
<1>6. T \in [0 .. strmask -> SUBSET Str]
  BY <1>2
<1>7. \A c \in 0 .. strmask : T[c] = IF c = Chain(d) THEN strhash[c] \cup {s} ELSE strhash[c]
  BY <1>2
<1>8. \A c \in 0 .. strmask : s \notin strhash[c]
  BY <1>2, <1>4 DEF ChainsSound
<1>9. \A c \in 0 .. strmask : \A t \in Made' : t \in T[c] <=> Hash[val'[t]] % (strmask + 1) = c
  <2> SUFFICES ASSUME NEW c \in 0 .. strmask, NEW t \in Made'
               PROVE  t \in T[c] <=> Hash[val'[t]] % (strmask + 1) = c
    OBVIOUS
  <2>1. CASE t = s
    <3>1. val'[t] = d
      BY <2>1, <1>1, <1>3
    <3> QED BY <3>1, <2>1, <1>7, <1>8 DEF Chain
  <2>2. CASE t # s
    <3>1. t \in Made /\ val'[t] = val[t]
      BY <2>2, <1>4, <1>5
    <3>2. t \in strhash[c] <=> c = Chain(val[t])
      BY <3>1, <1>2 DEF ChainsSound
    <3> QED BY <3>1, <3>2, <2>2, <1>7 DEF Chain
  <2> QED BY <2>1, <2>2
<1>10. \A c \in 0 .. strmask : T[c] \subseteq Made'
  BY <1>7, <1>4, <1>2 DEF ChainsSound
<1>11. \A t \in Made', u \in Made' : val'[t] = val'[u] => t = u
  <2>1. \A t \in Made : val[t] # d
    BY <1>1, InOneChain
  <2>2. val'[s] = d
    BY <1>1, <1>3
  <2> QED BY <2>1, <2>2, <1>4, <1>5 DEF ChainsSound
<1>12. ChainsSound' /\ (\E k \in 1 .. MaxTab : strhash' \in [0 .. k - 1 -> SUBSET Str])
       /\ (state = "sweepstring" => strmask' = strmask)
  <2>1. CASE strhash' = T
    <3>1. strhash' \in [0 .. (strmask + 1) - 1 -> SUBSET Str] /\ strmask + 1 \in 1 .. MaxTab
      BY <2>1, <1>6, <1>2, TableSizes
    <3>2. strmask + 1 \in Nat /\ 0 < strmask + 1 /\ (strmask + 1) - 1 = strmask
      BY <1>2
    <3>3. strmask' = (strmask + 1) - 1 /\ ChainsSound'
      BY <3>1, <3>2, <2>1, <1>3, <1>9, <1>10, <1>11, TableAfter
    <3> QED BY <3>1, <3>2, <3>3
  <2>2. CASE MayResize(n) /\ strhash' = Rehashed(T, n)
    <3>1. \A t \in Made' : \E c \in DOMAIN T : t \in T[c]
      <4> SUFFICES ASSUME NEW t \in Made'
                   PROVE  \E c \in 0 .. strmask : t \in T[c]
        BY <1>6
      <4>1. val'[t] \in Data
        BY <1>3 DEF Made
      <4>2. Hash[val'[t]] % (strmask + 1) \in 0 .. (strmask + 1) - 1
        BY <4>1, <1>2, HashIsFunction, ModRange
      <4> QED BY <4>2, <1>2, <1>9
    <3>2. \A c \in DOMAIN T : T[c] \subseteq Made'
      BY <1>6, <1>10
    <3>3. Made' \in SUBSET Str
      BY <1>4
    <3> HIDE DEF T, n
    <3>4. /\ Rehashed(T, n) \in [0 .. n - 1 -> SUBSET Str]
          /\ \A c \in 0 .. n - 1 : \A t \in Made' : t \in Rehashed(T, n)[c] <=> Hash[val'[t]] % n = c
          /\ \A c \in 0 .. n - 1 : Rehashed(T, n)[c] \subseteq Made'
      BY <3>1, <3>2, <3>3, <1>2, RehashedSound
    <3>5. ChainsSound'
      BY <3>4, <2>2, <1>2, <1>3, <1>11, TableAfter
    <3>6. n \in 1 .. MaxTab /\ state # "sweepstring"
      BY <2>2, <1>2, TableSizes DEF MayResize
    <3> QED BY <3>4, <3>5, <3>6, <2>2
  <2> QED BY <2>1, <2>2, <1>1
<1>13. TypeOK'
  BY <1>1, <1>3, <1>12 DEF TypeOK, gcvars
<1>14. CountTrue'
  BY <1>1, <1>4, MadeFinite, FS_AddElement DEF CountTrue
<1>15. held' \subseteq Made'
  BY <1>1, <1>4
<1>16. MarksSound'
  <2>1. otherwhite' = otherwhite /\ currentwhite' = currentwhite /\ state' = state /\ sweepstr' = sweepstr
    BY <1>1 DEF gcvars, otherwhite
  <2>2. mark' \in [Str -> {"white0", "white1", "black"}] /\ mark \in [Str -> {"white0", "white1", "black"}]
    BY <1>13 DEF TypeOK
  <2>3. mark'[s] = currentwhite /\ (\A t \in Made : mark'[t] = mark[t])
    BY <1>1, <1>4, <2>2
  <2>4. CASE state # "sweepstring"
    BY <2>1, <2>3, <2>4, <1>4 DEF MarksSound
  <2>5. CASE state = "sweepstring"
    <3>1. strmask' = strmask
      BY <1>12, <2>5
    <3>2. \A t \in Made : Chain(val[t])' = Chain(val[t])
      BY <3>1, <1>5 DEF Chain
    <3>3. \A t \in Made' : Chain(val[t])' < sweepstr => mark'[t] = currentwhite
      BY <3>2, <2>3, <2>5, <1>4 DEF MarksSound
    <3>4. \A t \in held' : ~isdead(t)'
      BY <2>1, <2>3, <2>5, <1>1, <1>4, TwoWhites DEF MarksSound, isdead, TypeOK
    <3> QED BY <2>1, <2>5, <3>1, <3>3, <3>4 DEF MarksSound
  <2> QED BY <2>4, <2>5
<1> QED BY <1>12, <1>13, <1>14, <1>15, <1>16

LEMMA DropKeeps ==
  ASSUME IInv, NEW s \in Str, Drop(s)
  PROVE  IInv'
<1>1. held' \subseteq held /\ UNCHANGED <<strhash, strnum, val, mark, gcvars>>
  BY DEF Drop
<1>2. strmask' = strmask /\ Made' = Made /\ otherwhite' = otherwhite /\ (\A e : Chain(e)' = Chain(e))
  BY <1>1 DEF strmask, Made, otherwhite, gcvars, Chain
<1> QED
  BY <1>1, <1>2 DEF IInv, TableSound, TypeOK, ChainsSound, CountTrue, MarksSound, isdead, gcvars

LEMMA AtomicKeeps ==
  ASSUME IInv, atomic
  PROVE  IInv'
<1>1. PICK B \in SUBSET Made : /\ held \subseteq B
                               /\ mark' = [s \in Str |-> IF s \in B THEN "black" ELSE mark[s]]
  BY DEF atomic
<1>2. /\ state = "mark" /\ currentwhite' = otherwhite /\ state' = "sweepstring" /\ sweepstr' = 0
      /\ UNCHANGED <<strhash, strnum, val, held, full>>
  BY DEF atomic
<1>3. strmask' = strmask /\ Made' = Made /\ (\A e : Chain(e)' = Chain(e)) /\ Made \subseteq Str
  BY <1>2 DEF strmask, Made, Chain
<1>4. TypeOK'
  BY <1>1, <1>2, TwoWhites, TableSizes DEF IInv, TypeOK
<1>5. TableSound'
  BY <1>2, <1>3 DEF IInv, TableSound, ChainsSound, CountTrue
<1>6. MarksSound'
  <2>1. strmask' \in Nat
    BY <1>3, TableShape DEF IInv
  <2>2. \A s \in Made : Chain(val[s]) \in Nat
    BY InOneChain, TableShape DEF IInv, TableSound
  <2>3. otherwhite' \in {"white0", "white1"}
    BY <1>4, TwoWhites DEF TypeOK, otherwhite
  <2>4. \A s \in held : mark'[s] = "black"
    BY <1>1, <1>3
  <2>5. \A s \in held' : ~isdead(s)'
    BY <2>3, <2>4, <1>2 DEF isdead
  <2> QED BY <1>2, <1>3, <2>1, <2>2, <2>5 DEF MarksSound
<1> QED BY <1>4, <1>5, <1>6 DEF IInv

LEMMA FullKeeps ==
  ASSUME IInv, lj_gc_fullgc
  PROVE  IInv'
<1>1. /\ IF state = "mark" THEN state' = "sweepstring" /\ sweepstr' = 0
                           ELSE state' = state /\ sweepstr' = sweepstr
      /\ full' = "sweep" /\ UNCHANGED <<strhash, strnum, val, mark, held, currentwhite>>
  BY DEF lj_gc_fullgc
<1>2. /\ strmask' = strmask /\ Made' = Made /\ (\A e : Chain(e)' = Chain(e)) /\ otherwhite' = otherwhite
      /\ Made \subseteq Str
  BY <1>1 DEF strmask, Made, Chain, otherwhite
<1>3. TypeOK'
  BY <1>1, TableSizes DEF IInv, TypeOK
<1>4. TableSound'
  BY <1>1, <1>2 DEF IInv, TableSound, ChainsSound, CountTrue
<1>5. MarksSound'
  <2>1. CASE state = "mark"
    <3>1. strmask' \in Nat
      BY <1>2, TableShape DEF IInv
    <3>2. \A s \in Made : Chain(val[s]) \in Nat
      BY InOneChain, TableShape DEF IInv, TableSound
    <3>3. \A s \in held' : ~isdead(s)'
      BY <2>1, <1>1, <1>2, TwoWhites DEF IInv, TypeOK, TableSound, MarksSound, isdead
    <3> QED BY <2>1, <1>1, <1>2, <3>1, <3>2, <3>3 DEF MarksSound
  <2>2. CASE state # "mark"
    BY <2>2, <1>1, <1>2 DEF IInv, MarksSound, isdead
  <2> QED BY <2>1, <2>2
<1> QED BY <1>3, <1>4, <1>5 DEF IInv

\* A sweep of a chain frees its dead strings, none of them held.
LEMMA SweepKeeps ==
  ASSUME IInv, sweep_chain
  PROVE  IInv' /\ \A s \in held : val'[s] = val[s]
<1> USE DEF IInv, TableSound
<1> DEFINE S == strhash[sweepstr]
<1> DEFINE D == {s \in S : ~Survives(s)}
<1>1. /\ state = "sweepstring"
      /\ strhash' = [strhash EXCEPT ![sweepstr] = {s \in S : Survives(s)}]
      /\ mark' = [s \in Str |-> IF s \in S THEN currentwhite ELSE mark[s]]
      /\ val' = [s \in Str |-> IF s \in S /\ ~Survives(s) THEN None ELSE val[s]]
      /\ strnum' = strnum - Cardinality(D)
      /\ sweepstr' = sweepstr + 1
      /\ state' = IF LastChain THEN "sweep" ELSE state
      /\ UNCHANGED <<held, currentwhite, full>>
  BY DEF sweep_chain
<1>2. /\ strmask \in Nat /\ strmask < MaxTab /\ strhash \in [0 .. strmask -> SUBSET Str]
      /\ sweepstr \in 0 .. strmask
  BY <1>1, TableShape DEF MarksSound, TypeOK
<1>3. S \subseteq Made /\ D \subseteq Made /\ Made \subseteq Str
  BY <1>2 DEF ChainsSound, Made
<1>4. Made' = Made \ D
  BY <1>1, <1>3 DEF Made
<1>5. held \cap D = {}
  BY <1>1 DEF MarksSound, Survives
<1>6. \A s \in Made' : val'[s] = val[s]
  BY <1>1, <1>3, <1>4
<1>7. val' \in [Str -> Data \cup {None}] /\ mark' \in [Str -> {"white0", "white1", "black"}]
  BY <1>1 DEF TypeOK
<1>8. \A c \in 0 .. strmask : strhash'[c] = strhash[c] \ D
  <2>1. \A c \in 0 .. strmask : c # sweepstr => strhash[c] \cap D = {}
    BY <1>2, <1>3 DEF ChainsSound
  <2> QED BY <1>1, <1>2, <2>1
<1>9. strhash' \in [0 .. strmask -> SUBSET Str]
  BY <1>1, <1>2
<1>10. ChainsSound' /\ strmask' = strmask
  <2>1. (strmask + 1) - 1 = strmask /\ strmask + 1 \in Nat /\ 0 < strmask + 1
    BY <1>2
  <2>2. \A c \in 0 .. strmask : \A s \in Made' : s \in strhash'[c] <=> Hash[val'[s]] % (strmask + 1) = c
    BY <1>2, <1>4, <1>6, <1>8 DEF ChainsSound, Chain
  <2>3. \A c \in 0 .. strmask : strhash'[c] \subseteq Made'
    BY <1>2, <1>4, <1>8 DEF ChainsSound
  <2>4. \A s \in Made', t \in Made' : val'[s] = val'[t] => s = t
    BY <1>4, <1>6 DEF ChainsSound
  <2> HIDE DEF S, D
  <2> QED BY <2>1, <2>2, <2>3, <2>4, <1>7, <1>9, TableAfter
<1>11. CountTrue' /\ strnum' \in Nat
  <2> HIDE DEF S, D
  <2>1. Cardinality(Made \ D) = Cardinality(Made) - Cardinality(Made \cap D)
    BY MadeFinite, FS_Difference
  <2>2. Made \cap D = D
    BY <1>3
  <2>3. IsFiniteSet(Made \ D)
    BY MadeFinite, FS_Difference
  <2>4. Cardinality(Made \ D) \in Nat
    BY <2>3, FS_CardinalityType
  <2> QED BY <2>1, <2>2, <2>4, <1>1, <1>4 DEF CountTrue
<1>12. TypeOK'
  <2>1. \E n \in 1 .. MaxTab : strhash' \in [0 .. n - 1 -> SUBSET Str]
    <3>1. strmask + 1 \in 1 .. MaxTab /\ (strmask + 1) - 1 = strmask
      BY <1>2, TableSizes
    <3> QED BY <3>1, <1>9
  <2>2. sweepstr' \in 0 .. MaxTab
    BY <1>1, <1>2, TableSizes
  <2> QED BY <2>1, <2>2, <1>1, <1>7, <1>11 DEF TypeOK
<1>13. held' \subseteq Made'
  BY <1>1, <1>4, <1>5
<1>14. MarksSound'
  <2>1. \A s \in Made' : Chain(val[s])' = Chain(val[s])
    BY <1>10, <1>6 DEF Chain
  <2>2. \A s \in Made' : Chain(val[s])' < sweepstr' => mark'[s] = currentwhite
    <3> SUFFICES ASSUME NEW s \in Made', Chain(val[s]) < sweepstr + 1
                 PROVE  mark'[s] = currentwhite
      BY <2>1, <1>1
    <3>1. s \in Made /\ s \in Str /\ Chain(val[s]) \in 0 .. strmask /\ s \in strhash[Chain(val[s])]
      BY <1>3, <1>4, <1>2, InOneChain
    <3>2. CASE Chain(val[s]) < sweepstr
      BY <3>1, <3>2, <1>1 DEF MarksSound
    <3>3. CASE Chain(val[s]) = sweepstr
      BY <3>1, <3>3, <1>1
    <3> QED BY <3>1, <3>2, <3>3, <1>2
  <2>3. \A s \in held : ~isdead(s)'
    <3>1. otherwhite' = otherwhite /\ otherwhite # currentwhite
      BY <1>1, TwoWhites DEF otherwhite, TypeOK
    <3>2. \A s \in held : s \in Str /\ mark[s] # otherwhite
      BY <1>1 DEF MarksSound, isdead, TypeOK
    <3> QED BY <3>1, <3>2, <1>1 DEF isdead
  <2>4. LastChain => \A s \in Made' : mark'[s] = currentwhite
    <3>1. \A s \in Made' : Chain(val[s])' \in 0 .. strmask
      BY <2>1, <1>4, <1>2, InOneChain
    <3> QED BY <3>1, <2>2, <1>1, <1>2 DEF LastChain
  <2>5. ~LastChain => sweepstr' <= strmask'
    BY <1>1, <1>2, <1>10 DEF LastChain
  <2>6. state' # "sweepstring" <=> LastChain
    BY <1>1
  <2> QED BY <2>2, <2>3, <2>4, <2>5, <2>6, <1>1 DEF MarksSound
<1>15. \A s \in held : val'[s] = val[s]
  BY <1>1, <1>5 DEF TypeOK
<1> QED BY <1>10, <1>11, <1>12, <1>13, <1>14, <1>15

LEMMA SweepEndKeeps ==
  ASSUME IInv, sweep_end
  PROVE  IInv'
<1> USE DEF IInv, TableSound
<1> DEFINE n == (strmask + 1) \div 2
<1>1. /\ state = "sweep" /\ UNCHANGED <<strnum, val, mark, held, currentwhite>>
      /\ state' = "mark" /\ sweepstr' = 0 /\ full' \in {"no", "cycle"}
      /\ strhash' = strhash \/ (Sparse /\ MayResize(n) /\ strhash' = Rehashed(strhash, n))
  BY DEF sweep_end
<1>2. Made' = Made /\ otherwhite' = otherwhite /\ Made \subseteq Str
  BY <1>1 DEF Made, otherwhite
<1>3. strmask \in Nat /\ strmask < MaxTab /\ strhash \in [0 .. strmask -> SUBSET Str]
  BY TableShape
<1>4. ChainsSound' /\ \E k \in 1 .. MaxTab : strhash' \in [0 .. k - 1 -> SUBSET Str]
  <2>1. CASE strhash' = strhash
    BY <2>1, <1>1, <1>2 DEF ChainsSound, TypeOK, Chain, strmask
  <2>2. CASE Sparse /\ MayResize(n) /\ strhash' = Rehashed(strhash, n)
    <3>1. n \in Nat /\ 0 < n /\ n \in 1 .. MaxTab
      BY <2>2, <1>3, TableSizes DEF Sparse
    <3>2. \A s \in Made : \E c \in DOMAIN strhash : s \in strhash[c]
      BY InOneChain
    <3>3. \A c \in DOMAIN strhash : strhash[c] \subseteq Made
      BY DEF ChainsSound
    <3>4. \A s \in Made', t \in Made' : val'[s] = val'[t] => s = t
      BY <1>1, <1>2 DEF ChainsSound
    <3>5. (val \in [Str -> Data \cup {None}])'
      BY <1>1 DEF TypeOK
    <3> HIDE DEF n
    <3>6. /\ Rehashed(strhash, n) \in [0 .. n - 1 -> SUBSET Str]
          /\ \A c \in 0 .. n - 1 : \A s \in Made : s \in Rehashed(strhash, n)[c] <=> Hash[val'[s]] % n = c
          /\ \A c \in 0 .. n - 1 : Rehashed(strhash, n)[c] \subseteq Made
      BY <3>1, <3>2, <3>3, <1>2, RehashedSound
    <3>7. ChainsSound'
      BY <3>1, <3>4, <3>5, <3>6, <2>2, <1>2, TableAfter
    <3> QED BY <3>1, <3>6, <3>7, <2>2
  <2> QED BY <2>1, <2>2, <1>1
<1>5. TypeOK'
  BY <1>1, <1>4, TableSizes DEF TypeOK
<1>6. CountTrue' /\ held' \subseteq Made'
  BY <1>1, <1>2 DEF CountTrue
<1>7. MarksSound'
  BY <1>1, <1>2 DEF MarksSound
<1> QED BY <1>4, <1>5, <1>6, <1>7

LEMMA SweepEndFailsKeeps ==
  ASSUME IInv, sweep_end_fails
  PROVE  IInv'
<1>1. full' = "no" /\ UNCHANGED <<strhash, strnum, val, mark, held, state, currentwhite, sweepstr>>
  BY DEF sweep_end_fails
<1>2. strmask' = strmask /\ Made' = Made /\ otherwhite' = otherwhite /\ (\A e : Chain(e)' = Chain(e))
  BY <1>1 DEF strmask, Made, otherwhite, Chain
<1> QED
  BY <1>1, <1>2 DEF IInv, TableSound, TypeOK, ChainsSound, CountTrue, MarksSound, isdead

(***************************************************************************)
(* The start: the reserved words.                                          *)
(***************************************************************************)
LEMMA InitSound ==
  ASSUME Init
  PROVE  IInv
<1>1. PICK f \in [Keyword -> Str] :
       /\ \A k \in Keyword, l \in Keyword : f[k] = f[l] => k = l
       /\ val = [s \in Str |-> IF \E k \in Keyword : f[k] = s THEN CHOOSE k \in Keyword : f[k] = s
                                                             ELSE None]
       /\ strhash = [h \in 0 .. MinTab - 1 |->
                       {f[k] : k \in {l \in Keyword : Hash[l] % MinTab = h}}]
  BY DEF Init
<1>2. /\ strnum = Cardinality(Keyword) /\ mark = [s \in Str |-> "white0"]
      /\ held = {} /\ state = "mark" /\ currentwhite = "white0" /\ sweepstr = 0 /\ full = "no"
  BY DEF Init
<1>3. \A k \in Keyword : f[k] \in Str /\ val[f[k]] = k
  <2> TAKE k \in Keyword
  <2>1. f[k] \in Str
    BY <1>1
  <2>2. \A l \in Keyword : f[l] = f[k] <=> l = k
    BY <1>1
  <2> QED BY <1>1, <2>1, <2>2
<1>4. \A s \in Str : (\A k \in Keyword : f[k] # s) => val[s] = None
  BY <1>1
<1>5. Made = {f[k] : k \in Keyword}
  BY <1>3, <1>4, NullIsNone, HashIsFunction DEF Made
<1>6. val \in [Str -> Data \cup {None}]
  <2>1. \A s \in Str : val[s] \in Data \cup {None}
    BY <1>3, <1>4, HashIsFunction
  <2> QED BY <1>1, <2>1
<1>7. strmask = MinTab - 1
  BY <1>1, TableSizes, MaskOf DEF strmask
<1>8. \A k \in Keyword : Chain(k) = Hash[k] % MinTab
  BY <1>7, TableSizes DEF Chain
<1>9. ChainsSound
  <2>1. \A c \in DOMAIN strhash : strhash[c] \subseteq Made
    BY <1>1, <1>5
  <2>2. \A s \in Made, t \in Made : val[s] = val[t] => s = t
    BY <1>3, <1>5
  <2>3. \A k \in Keyword : \A c \in DOMAIN strhash : f[k] \in strhash[c] <=> c = Hash[k] % MinTab
    BY <1>1
  <2> QED BY <2>1, <2>2, <2>3, <1>3, <1>5, <1>8 DEF ChainsSound
<1>10. CountTrue /\ strnum \in Nat
  <2>1. f \in Bijection(Keyword, Made)
    BY <1>1, <1>3, <1>5 DEF Bijection, Injection, Surjection, IsInjective
  <2>2. f \in Injection(Keyword, Str)
    BY <1>1 DEF Injection, IsInjective
  <2>3. IsFiniteSet(Keyword)
    BY <2>2, MemoryIsFinite, FS_Injection
  <2>4. Cardinality(Made) = Cardinality(Keyword)
    BY <2>1, <2>3, FS_Bijection DEF ExistsBijection
  <2> QED BY <2>4, <1>2, MadeFinite DEF CountTrue
<1>11. TypeOK
  <2>1. strhash \in [0 .. MinTab - 1 -> SUBSET Str] /\ MinTab \in 1 .. MaxTab
    BY <1>1, <1>3, TableSizes
  <2> QED BY <2>1, <1>2, <1>6, <1>10, TableSizes DEF TypeOK
<1>12. MarksSound
  BY <1>2 DEF MarksSound, Made
<1> QED BY <1>2, <1>9, <1>10, <1>11, <1>12 DEF IInv, TableSound

LEMMA StepSound ==
  ASSUME IInv, [Next]_vars
  PROVE  IInv'
<1>1. CASE UNCHANGED vars
  BY <1>1 DEF vars, gcvars, IInv, TableSound, TypeOK, ChainsSound, CountTrue, MarksSound, Made, Chain,
              strmask, isdead, otherwhite
<1>2. CASE \E d \in Data : lj_str_new(d)
  BY <1>2, FoundKeeps, NewKeeps DEF lj_str_new
<1>3. CASE \E s \in Str : Drop(s)
  BY <1>3, DropKeeps
<1>4. CASE atomic
  BY <1>4, AtomicKeeps
<1>5. CASE sweep_chain
  BY <1>5, SweepKeeps
<1>6. CASE sweep_end
  BY <1>6, SweepEndKeeps
<1>7. CASE sweep_end_fails
  BY <1>7, SweepEndFailsKeeps
<1>8. CASE lj_gc_fullgc
  BY <1>8, FullKeeps
<1> QED BY <1>1, <1>2, <1>3, <1>4, <1>5, <1>6, <1>7, <1>8 DEF Next

\* The inductive invariant of LJStr.
LEMMA Invariance == Spec => []IInv
<1>1. Init => IInv
  BY InitSound
<1>2. IInv /\ [Next]_vars => IInv'
  BY StepSound
<1> QED BY <1>1, <1>2, PTL DEF Spec

(***************************************************************************)
(* The size of the table.                                                  *)
(***************************************************************************)
\* What leaves no rest is a multiple.
LEMMA Divides == ASSUME NEW n \in Nat, NEW d \in Nat, 0 < d, n % d = 0
  PROVE  \E q \in Nat : n = d * q
<1> WITNESS n \div d \in Nat
<1> QED OBVIOUS
\* A multiple leaves no rest.
LEMMA Divided == ASSUME NEW r \in Nat, NEW d \in Nat, 0 < d
  PROVE  (d * r) % d = 0
OBVIOUS
\* Twice a power of two is one: an odd divisor of 2n divides n.
LEMMA Doubled == ASSUME NEW n \in Nat, 0 < n, PowerOf2(n)
  PROVE  PowerOf2(2 * n)
<1> SUFFICES ASSUME NEW d \in 2 .. 2 * n, (2 * n) % d = 0, d % 2 # 0 PROVE FALSE
  BY DEF PowerOf2
<1>1. PICK q \in Nat : 2 * n = d * q
  BY Divides
<1>2. PICK e \in Nat : d = 2 * e + 1
  <2> WITNESS d \div 2 \in Nat
  <2> QED OBVIOUS
<1>3. PICK r \in Nat : q = 2 * r \/ q = 2 * r + 1
  <2> WITNESS q \div 2 \in Nat
  <2> QED OBVIOUS
<1>4. q = 2 * r
  <2> SUFFICES ASSUME q = 2 * r + 1 PROVE FALSE
    BY <1>3
  <2>1. d * q = 2 * (e * (2 * r + 1) + r) + 1
    BY <1>2
  <2>2. e * (2 * r + 1) + r \in Nat
    OBVIOUS
  <2> DEFINE x == e * (2 * r + 1) + r
  <2> HIDE DEF x
  <2> QED BY <1>1, <2>1, <2>2 DEF x
<1>5. n = d * r /\ d \in Nat /\ 0 < d
  <2>1. d * r \in Nat /\ d * (2 * r) = 2 * (d * r)
    OBVIOUS
  <2> QED BY <1>1, <1>4, <2>1
<1>6. n % d = 0
  <2>1. (d * r) % d = 0
    BY <1>5, Divided
  <2> QED BY <1>5, <2>1
<1>7. d <= n
  BY <1>5
<1> QED BY <1>6, <1>7 DEF PowerOf2
\* So is the half of one, which is even.
LEMMA Halved == ASSUME NEW n \in Nat, 1 < n, PowerOf2(n)
  PROVE  n = 2 * (n \div 2) /\ PowerOf2(n \div 2)
<1>1. n % n = 0
  BY Divided
<1>2. n % 2 = 0
  BY <1>1 DEF PowerOf2
<1>3. n = 2 * (n \div 2) /\ n \div 2 \in Nat
  BY <1>2
<1> SUFFICES ASSUME NEW d \in 2 .. (n \div 2), (n \div 2) % d = 0 PROVE d % 2 = 0
  BY <1>3 DEF PowerOf2
<1>4. PICK q \in Nat : n \div 2 = d * q
  BY Divides, <1>3
<1>5. n = d * (2 * q) /\ 2 * q \in Nat
  BY <1>3, <1>4
<1>6. n % d = 0
  BY <1>5, Divided
<1> QED BY <1>6, <1>3 DEF PowerOf2
\* A table of n chains, n a power of two, is masked.
LEMMA MaskedBy ==
  ASSUME NEW n \in Nat, 0 < n, PowerOf2(n), DOMAIN strhash' = 0 .. n - 1
  PROVE  Masked'
<1>1. strmask' = n - 1
  BY MaskOf DEF strmask
<1> QED BY <1>1 DEF Masked

\* The table grows and shrinks by factors of two.
LEMMA MaskedKeeps ==
  ASSUME IInv, Masked, [Next]_vars
  PROVE  Masked'
<1>1. strmask \in Nat /\ DOMAIN strhash = 0 .. strmask /\ PowerOf2(strmask + 1)
  BY TableShape DEF IInv, Masked
<1> DEFINE n == strmask + 1
<1>2. n \in Nat /\ 0 < n /\ PowerOf2(n) /\ strmask = n - 1
  BY <1>1
<1>3. ASSUME DOMAIN strhash' = DOMAIN strhash PROVE Masked'
  BY <1>1, <1>3 DEF Masked, strmask
<1>4. ASSUME NEW d \in Data, NEW s \in Str, New(d, s) PROVE Masked'
  <2> DEFINE T == [strhash EXCEPT ![Chain(d)] = @ \cup {s}]
  <2>1. strhash' = T \/ strhash' = Rehashed(T, 2 * n)
    BY <1>4 DEF New
  <2>2. CASE strhash' = T
    BY <2>2, <1>3
  <2>3. CASE strhash' = Rehashed(T, 2 * n)
    <3>1. DOMAIN strhash' = 0 .. 2 * n - 1
      BY <2>3 DEF Rehashed
    <3> HIDE DEF n
    <3>2. PowerOf2(2 * n) /\ 2 * n \in Nat /\ 0 < 2 * n
      BY <1>2, Doubled
    <3> QED BY <3>1, <3>2, MaskedBy
  <2> QED BY <2>1, <2>2, <2>3
<1>5. ASSUME sweep_end PROVE Masked'
  <2>1. CASE strhash' = strhash
    BY <2>1, <1>3
  <2>2. CASE Sparse /\ strhash' = Rehashed(strhash, n \div 2)
    <3>1. 1 < n
      BY <2>2, <1>1, TableSizes DEF Sparse
    <3>2. DOMAIN strhash' = 0 .. (n \div 2) - 1
      BY <2>2 DEF Rehashed
    <3> HIDE DEF n
    <3>3. n = 2 * (n \div 2) /\ PowerOf2(n \div 2) /\ n \div 2 \in Nat
      BY <1>2, <3>1, Halved
    <3> QED BY <3>1, <3>2, <3>3, MaskedBy
  <2> QED BY <1>5, <2>1, <2>2 DEF sweep_end
<1>6. CASE UNCHANGED strhash
  BY <1>6, <1>3
<1>7. CASE sweep_chain
  BY <1>7, <1>3 DEF sweep_chain
<1>8. ASSUME Next, ~UNCHANGED strhash, ~sweep_chain, ~sweep_end
      PROVE  \E d \in Data, s \in Str : New(d, s)
  BY <1>8 DEF Next, lj_str_new, Found, Drop, atomic, sweep_end_fails, lj_gc_fullgc
<1> QED BY <1>4, <1>5, <1>6, <1>7, <1>8 DEF vars

\* The string table is sound: every string is in the one chain where lookups expect it, no
\* content is there twice, strnum counts them, no sweep leaves a dead string behind or frees
\* one that the program holds, and a hash can be masked, whatever the hash function and however
\* often the table is resized.
THEOREM StringTableSound == Spec => []StringsSound
<1>1. Init => Masked
  <2> SUFFICES ASSUME Init PROVE Masked
    OBVIOUS
  <2>1. DOMAIN strhash = 0 .. MinTab - 1
    BY DEF Init
  <2>2. strmask = MinTab - 1
    BY <2>1, TableSizes, MaskOf DEF strmask
  <2> QED BY <2>2, TableSizes DEF Masked
<1>2. IInv /\ Masked /\ [Next]_vars => Masked'
  BY MaskedKeeps
<1>3. IInv /\ Masked => StringsSound
  BY DEF IInv, TableSound, MarksSound, SweptClean, StringsSound
<1> QED BY <1>1, <1>2, <1>3, Invariance, PTL DEF Spec

(***************************************************************************)
(* The refinement of StrSet.                                               *)
(***************************************************************************)
\* what the program holds of content d, and which string that is
HeldOf(d) == {s \in held : val[s] = d}
OneOf(H) == IF H = {} THEN None ELSE CHOOSE s \in H : TRUE
Has == [d \in Data |-> Held(d)]

\* A set of one string is that string, and an empty set is none.
LEMMA OneOfIs ==
  ASSUME NEW H, \A s \in H, t \in H : s = t
  PROVE  (\A s \in H : OneOf(H) = s) /\ (H = {} => OneOf(H) = None)
<1>1. ASSUME H # {} PROVE \A s \in H : OneOf(H) = s
  <2>1. (CHOOSE s \in H : TRUE) \in H
    BY <1>1
  <2>2. OneOf(H) = CHOOSE s \in H : TRUE
    BY <1>1 DEF OneOf
  <2> QED BY <2>1, <2>2
<1> QED BY <1>1 DEF OneOf

\* Of equal strings one is held at most.
LEMMA HeldIs ==
  ASSUME IInv, NEW d \in Data
  PROVE  /\ \A s \in HeldOf(d) : Held(d) = s
         /\ HeldOf(d) = {} => Held(d) = None
<1>1. \A s \in HeldOf(d), t \in HeldOf(d) : s = t
  BY DEF IInv, TableSound, ChainsSound, HeldOf
<1>2. Held(d) = OneOf(HeldOf(d))
  BY DEF Held, HeldOf, OneOf
<1> HIDE DEF HeldOf
<1> QED BY <1>1, <1>2, OneOfIs

\* An operation that keeps what is held, and its contents, changes nothing for the program.
LEMMA HeldStays ==
  ASSUME held' = held, \A s \in held : val'[s] = val[s]
  PROVE  Has' = Has
<1>1. \A d \in Data : HeldOf(d)' = HeldOf(d)
  BY DEF HeldOf
<1>2. \A d \in Data : Held(d) = OneOf(HeldOf(d)) /\ Held(d)' = OneOf(HeldOf(d)')
  BY DEF Held, HeldOf, OneOf
<1> QED BY <1>1, <1>2 DEF Has

\* A string that the program gets is the one that it has, or it had none of this content.
LEMMA GetsInterns ==
  ASSUME IInv, TableSound', NEW d \in Data, NEW s \in Str, held' = held \cup {s}, val'[s] = d,
         \A t \in held : val'[t] = val[t]
  PROVE  Has' = Has \/ Abs!Intern(d)
<1>1. \A e \in Data : HeldOf(e)' = IF e = d THEN HeldOf(e) \cup {s} ELSE HeldOf(e)
  BY DEF HeldOf
<1>2. \A e \in Data : Held(e) = OneOf(HeldOf(e)) /\ Held(e)' = OneOf(HeldOf(e)')
  BY DEF Held, HeldOf, OneOf
<1>3. CASE HeldOf(d) = {}
  <2>1. Held(d) = None
    BY <1>3, HeldIs
  <2>2. HeldOf(d)' = {s}
    BY <1>1, <1>3
  <2>3. Held(d)' = s
    BY <2>2, <1>2, OneOfIs
  <2>4. \A e \in Data : Held(e) # s
    <3> SUFFICES ASSUME NEW e \in Data, Held(e) = s
                 PROVE  FALSE
      OBVIOUS
    <3>1. HeldOf(e) # {}
      BY HeldIs, NullIsNone
    <3>2. s \in HeldOf(e)
      BY <3>1, HeldIs
    <3> QED BY <3>2, <1>3 DEF HeldOf
  <2>5. Has' = [Has EXCEPT ![d] = s]
    BY <1>1, <1>2, <2>3 DEF Has
  <2>6. Has[d] = None /\ \A e \in Data : Has[e] # s
    BY <2>1, <2>4 DEF Has
  <2> QED BY <2>5, <2>6 DEF Abs!Intern, Has
<1>4. CASE HeldOf(d) # {}
  <2>1. PICK t \in HeldOf(d) : TRUE
    BY <1>4
  <2>2. t \in held' /\ s \in held' /\ val'[t] = val'[s]
    BY <2>1 DEF HeldOf
  <2>3. s = t
    BY <2>2 DEF TableSound, ChainsSound
  <2>4. \A e \in Data : HeldOf(e)' = HeldOf(e)
    BY <1>1, <2>1, <2>3
  <2> QED BY <2>4, <1>2 DEF Has
<1> QED BY <1>3, <1>4

\* A string that the program drops is the one that it has of this content.
LEMMA DropDrops ==
  ASSUME IInv, NEW s \in Str, Drop(s)
  PROVE  \E d \in Data : Abs!Drop(d)
<1>1. s \in held /\ held' = held \ {s} /\ val' = val
  BY DEF Drop
<1>2. PICK d \in Data : val[s] = d
  BY <1>1 DEF IInv, TableSound, TypeOK, Made
<1>3. s \in HeldOf(d)
  BY <1>1, <1>2 DEF HeldOf
<1>4. Held(d) = s
  BY <1>2, <1>3, HeldIs
<1>5. HeldOf(d)' = {}
  BY <1>1, <1>2 DEF HeldOf, IInv, TableSound, ChainsSound
<1>6. \A e \in Data : e # d => HeldOf(e)' = HeldOf(e)
  BY <1>1, <1>2 DEF HeldOf
<1>7. \A e \in Data : Held(e) = OneOf(HeldOf(e)) /\ Held(e)' = OneOf(HeldOf(e)')
  BY DEF Held, HeldOf, OneOf
<1>8. Held(d)' = None
  BY <1>2, <1>5, <1>7 DEF OneOf
<1>9. Has' = [Has EXCEPT ![d] = None]
  BY <1>1, <1>2, <1>6, <1>7, <1>8 DEF Has
<1>10. Has[d] # None
  BY <1>2, <1>4, NullIsNone DEF Has
<1> QED BY <1>2, <1>9, <1>10 DEF Abs!Drop, Has

LEMMA NewInterns ==
  ASSUME IInv, NEW d \in Data, NEW s \in Str, full = "no", New(d, s)
  PROVE  Has' = Has \/ Abs!Intern(d)
<1>1. /\ val[s] = None /\ val' = [val EXCEPT ![s] = d]
      /\ held' = held \/ held' = held \cup {s}
  BY Zenon DEF New
<1>2. TableSound'
  BY NewKeeps DEF IInv
<1>3. val'[s] = d /\ \A t \in held : val'[t] = val[t]
  BY <1>1 DEF IInv, TypeOK, TableSound, Made
<1> QED BY <1>1, <1>2, <1>3, HeldStays, GetsInterns

LEMMA FoundInterns ==
  ASSUME IInv, NEW d \in Data, full = "no", Found(d)
  PROVE  Has' = Has \/ Abs!Intern(d)
<1>1. PICK s \in strhash[Chain(d)] : val[s] = d /\ held' = held \cup {s} /\ val' = val
  BY DEF Found
<1>2. s \in Str
  BY ChainInTable, TableShape DEF IInv
<1>3. TableSound'
  BY FoundKeeps DEF IInv
<1> QED BY <1>1, <1>2, <1>3, GetsInterns

LEMMA StepRefines ==
  ASSUME IInv, [Next]_vars
  PROVE  [Abs!Next]_Has
<1>1. CASE UNCHANGED vars
  BY <1>1, HeldStays DEF vars
<1>2. CASE \E d \in Data : lj_str_new(d)
  <2>1. PICK d \in Data : full = "no" /\ (Found(d) \/ \E s \in Str : New(d, s))
    BY <1>2 DEF lj_str_new
  <2> QED BY <2>1, FoundInterns, NewInterns DEF Abs!Next
<1>3. CASE \E s \in Str : Drop(s)
  BY <1>3, DropDrops DEF Abs!Next
<1>4. CASE sweep_chain
  <2>1. held' = held
    BY <1>4 DEF sweep_chain
  <2> QED BY <2>1, <1>4, SweepKeeps, HeldStays
<1>5. CASE atomic \/ sweep_end \/ sweep_end_fails \/ lj_gc_fullgc
  <2>1. held' = held /\ val' = val
    BY <1>5 DEF atomic, sweep_end, sweep_end_fails, lj_gc_fullgc
  <2> QED BY <2>1, HeldStays
<1> QED BY <1>1, <1>2, <1>3, <1>4, <1>5 DEF Next

\* Interning keeps its promise: to the program, equal strings are one object for as long as one
\* of them is held, through growth and shrinking of the table, marking, sweeping, and the
\* resurrection of strings that a sweep was about to free.
THEOREM StringsAreInterned == Spec => ImplementsStrSet
<1>1. Init => Abs!Init
  <2>1. ASSUME Init PROVE Has = [d \in Data |-> None]
    <3>1. \A d \in Data : HeldOf(d) = {}
      BY <2>1 DEF Init, HeldOf
    <3>2. \A d \in Data : Held(d) = None
      BY <3>1, <2>1, HeldIs, InitSound
    <3> QED BY <3>2 DEF Has
  <2> QED BY <2>1 DEF Abs!Init, Has
<1>2. IInv /\ [Next]_vars => [Abs!Next]_([d \in Data |-> Held(d)])
  BY StepRefines DEF Has
<1> QED BY <1>1, <1>2, Invariance, PTL DEF Spec, ImplementsStrSet, Abs!Spec
=============================================================================
