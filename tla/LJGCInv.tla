------------------------------- MODULE LJGCInv -------------------------------
(* The inductive invariant of LJGC, as a conjunction of named parts.        *)
EXTENDS LJGC

Nonwhite == {o \in Heap : ~iswhite(o)}
Sweeping == gcstate \in {"sweepstring", "sweep"}
Container == Tab \cup Func \cup Thread   \* the kinds that gclist can link

\* memory that is not allocated holds nothing
FreeWiped ==
  \A o \in Obj \ Heap :
    /\ o \in Tab => mt[o] = Nil /\ ent[o] = {} /\ meta[o] = {}
    /\ o \in Udata => mt[o] = Nil /\ env[o] = Nil /\ o \notin fin
    /\ o \in Func => env[o] = Nil /\ fuv[o] = Nil
    /\ o \in Thread => env[o] = Nil /\ top[o] = 0 /\ \A i \in Slots : stk[o][i] = Nil
    /\ o \in Uv => uvth[o] = Closed /\ uval[o] = Nil

\* an open upvalue points below the top of an allocated thread
OpenUvOK ==
  \A u \in Uv : uvth[u] # Closed =>
    /\ uvth[u] \in Heap
    /\ uvix[u] <= top[uvth[u]]

\* closures of one local variable share its upvalue
OneUvPerSlot ==
  \A u, w \in Uv : uvth[u] # Closed /\ uvth[w] = uvth[u] /\ uvix[w] = uvix[u] => w = u
OpenAllocated == \A u \in Uv : uvth[u] # Closed => u \in Heap
UvInv == OneUvPerSlot /\ OpenAllocated

\* which colours an object may have
ColourOK ==
  /\ \A u \in Uv : uvth[u] # Closed => ~isblack(u)
  /\ \A u \in Uv : uvth[u] = Closed => ~isgray(u)
  /\ \A th \in Thread : ~isblack(th)
  /\ \A u \in Udata : ~isgray(u)

PendingLive == mmudata \subseteq Live

\* nothing is condemned before the flip nor after the sweep; what the sweep has
\* passed has the current white
PhaseOK ==
  /\ ~Sweeping => \A o \in Heap : ~isdead(o)
  /\ gcstate \in {"pause", "finalize"} => \A o \in Heap \ mmudata : col[o] = white
  /\ Sweeping => \A o \in Heap \ mmudata :
       col[o] = white \/ o \in unswept
         \/ (o \in Uv /\ uvth[o] # Closed /\ uvth[o] \in unswept)
\* gc_sweep meets no pending userdata and no open upvalue on its own
UnsweptOK ==
  /\ ~Sweeping => unswept = {}
  /\ unswept \subseteq Heap \ mmudata
  /\ \A u \in unswept \cap Uv : uvth[u] = Closed

\* the lists while marking; a mark phase begins when no container is gray,
\* because the sweep before it has passed them all and made them white
ListsWhileMarking ==
  Marking \/ InAtomic =>
    /\ gray \cap grayagain = {} /\ gray \cap weak = {} /\ grayagain \cap weak = {}
    /\ {o \in Container : isgray(o)} = gray \cup grayagain \cup weak
WhiteBetweenCycles ==
  gcstate \in {"pause", "finalize"} => \A o \in Container \cap Heap : col[o] = white
SweptWhite ==
  Sweeping => \A o \in Container \cap Heap : col[o] = white \/ o \in unswept
Lists == ListsWhileMarking /\ WhiteBetweenCycles /\ SweptWhite

\* the wavefront
Wavefront ==
  Marking \/ InAtomic =>
    /\ \A o \in Heap \ mmudata : isblack(o) => Refs(o) \subseteq Nonwhite
    /\ {Main, Reg} \subseteq Nonwhite

\* what the parts of atomic() have established; no machine code is running
NoTrace == InAtomic => jit = Off
AtomicOK ==
  /\ InAtomic =>
       \A u \in Uv : uvth[u] # Closed /\ isgray(u) => Refs(u) \subseteq Nonwhite
  /\ gcstate \in {"atomic_weak", "atomic_again", "atomic_ud"} =>
       /\ Objs({basemt, cur}) \subseteq Nonwhite
       /\ \A t \in weak : Trav(t) \subseteq Nonwhite
  /\ gcstate \in {"atomic_again", "atomic_ud"} =>
       grayagain \subseteq Thread /\ \A th \in grayagain : Refs(th) \subseteq Nonwhite
  /\ gcstate = "atomic_ud" =>
       mmudata \subseteq Nonwhite /\ \A u \in mmudata : Refs(u) \subseteq Nonwhite

IInv ==
  /\ TypeOK /\ UvInv /\ Lists
  /\ ColourOK /\ UnsweptOK /\ NoTrace
  /\ FreeWiped /\ OpenUvOK /\ PendingLive /\ PhaseOK
  /\ NoDangling /\ Wavefront /\ AtomicOK
=============================================================================
