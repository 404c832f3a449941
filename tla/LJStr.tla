--------------------------------- MODULE LJStr ---------------------------------
(***************************************************************************)
(* Interned strings: lj_str.c, and what the collector (lj_gc.c) does with  *)
(* them.  All strings are in the chains of a hash table, which the         *)
(* collector sweeps chain by chain, which grows when a string is made and  *)
(* shrinks at the end of a cycle.  What the program holds is marked before *)
(* the colours flip (LJGC), and that is all that is said of marking here.  *)
(***************************************************************************)
EXTENDS Naturals, FiniteSets

CONSTANTS
  Data,          \* contents of strings
  Str, None,     \* addresses of string objects, and NULL
  Keyword,       \* contents of the reserved words, which are fixed (lj_lex_init)
  Hash,          \* hash values of contents
  MinTab,        \* LJ_MIN_STRTAB, a power of 2
  MaxTab         \* LJ_MAX_STRTAB, a power of 2

ASSUME HashIsFunction == Hash \in [Data -> Nat] /\ Keyword \subseteq Data
\* All its divisors but 1 are even: hash & (n - 1) is hash % n.
PowerOf2(n) == \A d \in 2 .. n : n % d = 0 => d % 2 = 0
ASSUME TableSizes ==
  MinTab \in Nat \ {0} /\ MaxTab \in Nat /\ MinTab < MaxTab /\ PowerOf2(MinTab)
ASSUME NullIsNone == None \notin Str /\ None \notin Data
ASSUME MemoryIsFinite == IsFiniteSet(Str)

VARIABLES
  strhash,       \* the chains, from 0 to the mask; their order does not matter
  strnum,        \* the number of strings
  val,           \* content of a string, or None when the memory is free
  mark,          \* its colour: "white0", "white1", "black"
  held,          \* strings that the program holds
  state,         \* gc.state: "mark" (pause to atomic), "sweepstring", "sweep"
  currentwhite,
  sweepstr,      \* the chain that is swept next
  full           \* lj_gc_fullgc runs: "no", "sweep" (the rest of a cycle), "cycle"
vars == <<strhash, strnum, val, mark, held, state, currentwhite, sweepstr, full>>
gcvars == <<state, currentwhite, sweepstr, full>>

strmask == Cardinality(DOMAIN strhash) - 1
otherwhite == IF currentwhite = "white0" THEN "white1" ELSE "white0"
fixed(s) == val[s] \in Keyword
isdead(s) == mark[s] = otherwhite
Chain(d) == Hash[d] % (strmask + 1)
Made == {s \in Str : val[s] # None}

(***************************************************************************)
(* The string table.                                                       *)
(***************************************************************************)
\* Wrong: the last chain is not rehashed.
RehashedShort(T, n) ==
  [h \in 0 .. n - 1 |-> {s \in UNION {T[c] : c \in DOMAIN T \ {Cardinality(DOMAIN T) - 1}} :
                           Hash[val'[s]] % n = h}]
\* the strings of table T in a table of n chains
Rehashed(T, n) ==
  [h \in 0 .. n - 1 |-> {s \in UNION {T[c] : c \in DOMAIN T} : Hash[val'[s]] % n = h}]

\* lj_str_resize gives up during the sweep, and beyond the largest size
MayResize(n) == state # "sweepstring" /\ n - 1 < MaxTab - 1

\* Wrong: a string that is found is not looked at, dead or not.
RevivedNot(s) == mark
\* lj_str_new has found s
Revived(s) == IF isdead(s) THEN [mark EXCEPT ![s] = currentwhite] ELSE mark

\* lj_str_new: a string with content d is in the table
Found(d) ==
  \E s \in strhash[Chain(d)] :
    /\ val[s] = d
    /\ mark' = Revived(s)
    /\ held' = held \cup {s}
    /\ UNCHANGED <<strhash, strnum, val, gcvars>>

\* lj_str_new: a new string is made; then the table grows, if it is full; an error in this
\* (no memory) leaves the string in the table, and the program without it
New(d, s) ==
  /\ \A t \in strhash[Chain(d)] : val[t] # d
  /\ val[s] = None
  /\ val' = [val EXCEPT ![s] = d]
  /\ mark' = [mark EXCEPT ![s] = currentwhite]
  /\ LET T == [strhash EXCEPT ![Chain(d)] = @ \cup {s}]
         n == 2 * (strmask + 1)
         grows == strnum > strmask /\ MayResize(n)
     IN  \/ strhash' = (IF grows THEN Rehashed(T, n) ELSE T) /\ held' = held \cup {s}
         \/ grows /\ strhash' = T /\ held' = held
  /\ strnum' = strnum + 1
  /\ UNCHANGED gcvars

lj_str_new(d) == full = "no" /\ (Found(d) \/ \E s \in Str : New(d, s))

\* the program loses its last reference
Drop(s) ==
  /\ full = "no" /\ s \in held
  /\ held' = held \ {s}
  /\ UNCHANGED <<strhash, strnum, val, mark, gcvars>>

(***************************************************************************)
(* The collector.                                                          *)
(***************************************************************************)
\* atomic: all that the program holds has been marked, and some strings that it has dropped
\* since (gc_mark_str); then the colours flip
atomic ==
  /\ state = "mark"
  /\ \E B \in SUBSET Made :
       /\ held \subseteq B
       /\ mark' = [s \in Str |-> IF s \in B THEN "black" ELSE mark[s]]
  /\ currentwhite' = otherwhite
  /\ state' = "sweepstring" /\ sweepstr' = 0
  /\ UNCHANGED <<strhash, strnum, val, held, full>>

\* lj_gc_fullgc: a sweep that preserves all, or the rest of a sweep, and then a whole cycle
lj_gc_fullgc ==
  /\ full = "no"
  /\ IF state = "mark"
       THEN state' = "sweepstring" /\ sweepstr' = 0
       ELSE UNCHANGED <<state, sweepstr>>
  /\ full' = "sweep"
  /\ UNCHANGED <<strhash, strnum, val, mark, held, currentwhite>>

\* the chain that is swept is the last one
LastChain == sweepstr + 1 > strmask

\* gc_sweep: black, of the current white, or fixed
Survives(s) == ~isdead(s) \/ fixed(s)

\* gc_onestep in GCSsweepstring: gc_fullsweep of one chain, with lj_str_free
sweep_chain ==
  /\ state = "sweepstring"
  /\ strhash' = [strhash EXCEPT ![sweepstr] = {s \in @ : Survives(s)}]
  /\ mark' = [s \in Str |-> IF s \in strhash[sweepstr] THEN currentwhite ELSE mark[s]]
  /\ val' = [s \in Str |-> IF s \in strhash[sweepstr] /\ ~Survives(s) THEN None ELSE val[s]]
  /\ strnum' = strnum - Cardinality({s \in strhash[sweepstr] : ~Survives(s)})
  /\ sweepstr' = sweepstr + 1
  /\ state' = IF LastChain THEN "sweep" ELSE state
  /\ UNCHANGED <<held, currentwhite, full>>

\* the end of GCSsweep: the table shrinks when it is mostly empty; an allocation that fails
\* ends a step of the collector, to be tried again, or the full collection
Sparse == strnum <= (strmask \div 4) /\ strmask > 2 * MinTab - 1
sweep_end ==
  /\ state = "sweep"
  /\ UNCHANGED <<strnum, val, mark, held, currentwhite>>
  /\ strhash' = IF Sparse /\ MayResize((strmask + 1) \div 2)
                  THEN Rehashed(strhash, (strmask + 1) \div 2) ELSE strhash
  /\ state' = "mark" /\ sweepstr' = 0
  /\ full' = IF full = "sweep" THEN "cycle" ELSE "no"
sweep_end_fails ==
  /\ state = "sweep" /\ Sparse /\ full # "no"
  /\ full' = "no"
  /\ UNCHANGED <<strhash, strnum, val, mark, held, state, currentwhite, sweepstr>>

\* reserved words have been interned by lj_lex_init
Init ==
  /\ \E f \in [Keyword -> Str] :
       /\ \A k \in Keyword, l \in Keyword : f[k] = f[l] => k = l
       /\ val = [s \in Str |-> IF \E k \in Keyword : f[k] = s THEN CHOOSE k \in Keyword : f[k] = s
                                                             ELSE None]
       /\ strhash = [h \in 0 .. MinTab - 1 |->
                       {f[k] : k \in {l \in Keyword : Hash[l] % MinTab = h}}]
  /\ strnum = Cardinality(Keyword)
  /\ mark = [s \in Str |-> "white0"]
  /\ held = {} /\ state = "mark" /\ currentwhite = "white0" /\ sweepstr = 0 /\ full = "no"

Next == \/ \E d \in Data : lj_str_new(d)
        \/ \E s \in Str : Drop(s)
        \/ atomic \/ sweep_chain \/ sweep_end \/ sweep_end_fails
        \/ lj_gc_fullgc

Spec == Init /\ [][Next]_vars

(***************************************************************************)
(* Properties.                                                             *)
(***************************************************************************)
TypeOK ==
  /\ \E n \in 1 .. MaxTab : strhash \in [0 .. n - 1 -> SUBSET Str]
  /\ strnum \in Nat
  /\ val \in [Str -> Data \cup {None}]
  /\ mark \in [Str -> {"white0", "white1", "black"}]
  /\ held \subseteq Str
  /\ state \in {"mark", "sweepstring", "sweep"}
  /\ currentwhite \in {"white0", "white1"}
  /\ sweepstr \in 0 .. MaxTab
  /\ full \in {"no", "sweep", "cycle"}

\* Every string is in the chain where lookups expect it and nowhere else, memory that is free
\* is in none, and no content is there twice.
ChainsSound ==
  /\ \A s \in Made : \A c \in DOMAIN strhash : s \in strhash[c] <=> c = Chain(val[s])
  /\ \A c \in DOMAIN strhash : strhash[c] \subseteq Made
  /\ \A s \in Made, t \in Made : val[s] = val[t] => s = t

\* The number of chains is a power of 2: a hash is masked, not divided.
Masked == PowerOf2(strmask + 1)

\* The count that decides when the table grows or shrinks is the number of strings.
CountTrue == strnum = Cardinality(Made)

\* When all chains have been swept no dead string is left, and none is black, although strings
\* are made and found between the steps of the sweep.
SweptClean == state = "sweep" => \A s \in Made : mark[s] = currentwhite

\* The table is sound in whatever phase of the collector it has grown or shrunk: lookups find
\* every string, strnum counts them, a sweep misses none, and frees none that the program holds.
StringsSound == TypeOK /\ Masked /\ ChainsSound /\ CountTrue /\ SweptClean /\ held \subseteq Made

\* What the program holds is not doubled: equal strings are the same object, as long as one of
\* them is held.
Held(d) == LET H == {s \in held : val[s] = d} IN IF H = {} THEN None ELSE CHOOSE s \in H : TRUE
Abs == INSTANCE StrSet WITH has <- [d \in Data |-> Held(d)]
ImplementsStrSet == Abs!Spec
=============================================================================
