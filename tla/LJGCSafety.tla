----------------------------- MODULE LJGCSafety ------------------------------
(* The collector frees nothing that the program can reach: IInv (LJGCInv) is *)
(* inductive as long as debug.setupvalue is not used (see the run             *)
(* shared_upvalue).  First what a program does, then what the collector does  *)
(* to Safe, the part of IInv that no lemma of LJGCProofs has dealt with; last *)
(* that the collector implements Heap, step by step.                          *)
EXTENDS LJGCProofs

Safe ==
  /\ FreeWiped /\ OpenUvOK /\ PendingLive /\ PhaseOK
  /\ NoDangling /\ Wavefront /\ AtomicOK

LEMMA LiveColours ==
  ASSUME TypeOK
  PROVE  /\ Live = {o \in Obj : col[o] \in {white} \cup Reached}
         /\ Nonwhite = {o \in Obj : col[o] \in Reached}
         /\ Heap = {o \in Obj : col[o] # "free"}
         /\ Live \subseteq Heap /\ Nonwhite \subseteq Live
BY DEF TypeOK, Live, Heap, Nonwhite, isdead, iswhite, otherwhite, Reached

LEMMA LiveColoursAfter ==
  ASSUME TypeOK'
  PROVE  /\ Live' = {o \in Obj : col'[o] \in {white'} \cup Reached}
         /\ Nonwhite' = {o \in Obj : col'[o] \in Reached}
         /\ Heap' = {o \in Obj : col'[o] # "free"}
         /\ Live' \subseteq Heap' /\ Nonwhite' \subseteq Live'
BY DEF TypeOK, Live, Heap, Nonwhite, isdead, iswhite, otherwhite, Reached

\* what each kind refers to
LEMMA RefsOf ==
  /\ \A o \in Tab : Refs(o) = Objs({mt[o]} \cup Keys(o) \cup Vals(o))
  /\ \A o \in Func : Refs(o) = Objs({env[o], fuv[o]})
  /\ \A o \in Thread : Refs(o) = Objs({env[o]} \cup {stk[o][i] : i \in Slots})
  /\ \A o \in Udata : Refs(o) = Objs({mt[o], env[o]})
  /\ \A o \in Uv : Refs(o) = Objs({uvval(o)})
  /\ \A o \in Str : Refs(o) = {}
BY Kinds DEF Refs, Objs

LEMMA RefsOfAfter ==
  /\ \A o \in Tab : Refs(o)' = Objs({mt'[o]} \cup Keys(o)' \cup Vals(o)')
  /\ \A o \in Func : Refs(o)' = Objs({env'[o], fuv'[o]})
  /\ \A o \in Thread : Refs(o)' = Objs({env'[o]} \cup {stk'[o][i] : i \in Slots})
  /\ \A o \in Udata : Refs(o)' = Objs({mt'[o], env'[o]})
  /\ \A o \in Uv : Refs(o)' = Objs({uvval(o)'})
  /\ \A o \in Str : Refs(o)' = {}
BY Kinds DEF Refs, Objs

\* the program can name live objects only
LEMMA AvailLive ==
  ASSUME TypeOK, NoDangling
  PROVE  /\ Held \subseteq Live /\ Avail \subseteq Live
         /\ cur \in Live /\ Main \in Live
         /\ \A i \in Slots : stk[cur][i] \in Obj => stk[cur][i] \in Live
<1>1. /\ Roots \subseteq Live /\ Live \subseteq Obj
      /\ \A o \in Live : Refs(o) \subseteq Live
  BY DEF NoDangling, Live, Heap
<1>2. cur \in Live /\ cur \in Thread /\ Main \in Live
  BY <1>1, Permanent DEF Roots, Objs, TypeOK, Obj
<1>3. Refs(cur) = Objs({env[cur]} \cup {stk[cur][i] : i \in Slots})
  BY <1>2, RefsOf
<1>4. \A i \in Slots : stk[cur][i] \in Obj => stk[cur][i] \in Live
  BY <1>1, <1>2, <1>3 DEF Objs
<1>5. Held \subseteq Live
  BY <1>1, <1>2, <1>3, <1>4 DEF Held, Roots, Objs, LiveSlots
<1>6. ASSUME NEW o \in Held PROVE Loads(o) \subseteq Live
  <2>1. o \in Live /\ Refs(o) \subseteq Live
    BY <1>1, <1>5
  <2>2. CASE o \in Func
    <3>1. Loads(o) = Objs({env[o]} \cup (IF fuv[o] = Nil THEN {} ELSE {uvval(fuv[o])}))
      BY <2>2, Kinds DEF Loads
    <3>2. Objs({env[o], fuv[o]}) \subseteq Live
      BY <2>1, <2>2, RefsOf
    <3>3. fuv[o] # Nil => fuv[o] \in Uv /\ fuv[o] \in Live
      BY <2>2, <3>2 DEF TypeOK, Objs, Obj
    <3>4. fuv[o] # Nil => Objs({uvval(fuv[o])}) \subseteq Live
      BY <1>1, <3>3, RefsOf
    <3>. QED BY <3>1, <3>2, <3>4 DEF Objs
  <2>3. CASE o \in Thread
    <3>1. Loads(o) = Objs({env[o]} \cup LiveSlots(o))
      BY <2>3, Kinds DEF Loads
    <3>. QED BY <2>1, <2>3, <3>1, RefsOf DEF Objs, LiveSlots
  <2>4. CASE o \in Tab
    BY <2>1, <2>4, Kinds DEF Loads, Refs
  <2>5. CASE o \in Udata
    BY <2>1, <2>5, Kinds DEF Loads, Refs
  <2>6. CASE o \in Uv \cup Str
    BY <2>6, Kinds DEF Loads, Objs
  <2>. QED BY <1>1, <2>1, <2>2, <2>3, <2>4, <2>5, <2>6 DEF Obj
<1>. QED BY <1>2, <1>4, <1>5, <1>6 DEF Avail

\* what a step writes are pointers to V
Written(V) ==
  /\ \A o \in Tab \cup Udata : mt'[o] \in {mt[o], Nil} \cup V
  /\ \A o \in Func \cup Udata \cup Thread : env'[o] \in {env[o], Nil} \cup V
  /\ \A f \in Func : fuv'[f] \in {fuv[f], Nil} \cup V
  /\ \A t \in Tab : ent'[t] \subseteq ent[t] \cup ((V \cup {Prim}) \X (V \cup {Prim}))
  /\ \A th \in Thread : \A i \in Slots : stk'[th][i] \in {stk[th][i], Nil} \cup V
  /\ \A u \in Uv : uvval(u)' \in {uvval(u), Nil} \cup V

LEMMA WrittenRefs ==
  ASSUME NEW V, Written(V), NEW o \in Obj
  PROVE  Refs(o)' \subseteq Refs(o) \cup V
<1>. USE RefsOf, RefsOfAfter, Kinds DEF Written, Objs
<1>1. CASE o \in Tab
  <2>1. Keys(o)' \subseteq Keys(o) \cup V \cup {Prim}
    BY <1>1 DEF Keys
  <2>2. Vals(o)' \subseteq Vals(o) \cup V \cup {Prim}
    BY <1>1 DEF Vals
  <2>. QED BY <1>1, <2>1, <2>2
<1>2. CASE o \in Func
  BY <1>2
<1>3. CASE o \in Thread
  BY <1>3
<1>4. CASE o \in Udata
  BY <1>4
<1>5. CASE o \in Uv
  BY <1>5
<1>6. CASE o \in Str
  BY <1>6
<1>. QED BY <1>1, <1>2, <1>3, <1>4, <1>5, <1>6 DEF Obj

\* upvalues see what is written to the stacks
LEMMA WrittenUvvals ==
  ASSUME TypeOK, NEW V, UNCHANGED <<uvth, uvix, uval>>,
         \A th \in Thread : \A i \in Slots : stk'[th][i] \in {stk[th][i], Nil} \cup V
  PROVE  \A u \in Uv : uvval(u)' \in {uvval(u), Nil} \cup V
BY DEF uvval, TypeOK

LEMMA KeptNoDangling ==
  ASSUME NoDangling, Live \subseteq Live', Written(Live'), Roots' \subseteq Live',
         \A o \in Live' \ Live : Refs(o) \subseteq Live'
  PROVE  NoDangling'
<1>1. \A o \in Live' : o \in Obj /\ Refs(o) \subseteq Live'
  BY DEF NoDangling, Live, Heap
<1>. QED BY <1>1, WrittenRefs DEF NoDangling

LEMMA FreeRefs ==
  ASSUME FreeWiped, NEW o \in Obj, col[o] = "free"
  PROVE  Refs(o) = {}
<1>1. o \in Obj \ Heap
  BY DEF Heap
<1>. USE <1>1, RefsOf, Kinds DEF FreeWiped, Objs
<1>2. CASE o \in Tab
  BY <1>2 DEF Keys, Vals
<1>3. CASE o \in Func
  BY <1>3
<1>4. CASE o \in Thread
  BY <1>4
<1>5. CASE o \in Udata
  BY <1>5
<1>6. CASE o \in Uv
  BY <1>6 DEF uvval
<1>7. CASE o \in Str
  BY <1>7
<1>. QED BY <1>2, <1>3, <1>4, <1>5, <1>6, <1>7 DEF Obj

\* a black object is one that was and has not been changed, or was shaded
\* together with what it refers to
LEMMA KeptWavefront ==
  ASSUME TypeOK, TypeOK', Wavefront, Marking \/ InAtomic,
         Kept, mmudata \subseteq mmudata',
         \A o \in Obj \ mmudata' : col'[o] = "black" =>
           \/ col[o] = "black" /\ Refs(o)' \subseteq Refs(o) \cup Nonwhite'
           \/ Refs(o)' \subseteq Nonwhite'
  PROVE  Wavefront'
<1>1. Nonwhite \subseteq Nonwhite'
  BY LiveColours, LiveColoursAfter DEF Kept
<1>2. {Main, Reg} \subseteq Nonwhite'
  BY <1>1 DEF Wavefront
<1>3. ASSUME NEW o \in Heap' \ mmudata', isblack(o)' PROVE Refs(o)' \subseteq Nonwhite'
  <2>1. o \in Obj \ mmudata' /\ col'[o] = "black"
    BY <1>3, LiveColoursAfter DEF isblack
  <2>2. col[o] = "black" => Refs(o) \subseteq Nonwhite
    BY <2>1, LiveColours DEF Wavefront, isblack
  <2>. QED BY <1>1, <2>1, <2>2
<1>. QED BY <1>2, <1>3 DEF Wavefront

\* gc_mark takes what it is asked to mark ...
LEMMA ShadedMarks ==
  ASSUME TypeOK, NEW S, NEW r \in S, r \in Heap
  PROVE  Shaded(S)[r] \in Reached
BY DEF Shaded, Marked, MarkColour, Reached, Heap, iswhite, TypeOK

\* ... and what the objects that are not queued refer to
LEMMA ShadedLeaf ==
  ASSUME TypeOK, NoDangling, NEW S, NEW o \in Live, o \in Udata \cup Uv,
         Shaded(S)[o] # col[o]
  PROVE  \A r \in Refs(o) : Shaded(S)[r] \in Reached
<1>. DEFINE whites == {x \in S : iswhite(x)}
            values == {x \in Objs({uvval(u) : u \in whites \cap Uv}) : iswhite(x)}
            ud == (whites \cup values) \cap Udata
            tabs == {x \in Objs(UNION {{mt[u], env[u]} : u \in ud}) : iswhite(x)}
<1>1. Marked(S) = whites \cup values \cup tabs
  BY DEF Marked
<1>2. /\ \A u \in Uv : uvval(u) \notin Uv
      /\ \A u \in Udata : mt[u] \notin Udata \cup Uv /\ env[u] \notin Udata \cup Uv
  BY UvvalType, Kinds DEF TypeOK, Val, Obj
<1>3. o \in whites \cup values \cup tabs /\ o \in Obj
  BY <1>1 DEF Shaded, Live, Heap
<1>4. ASSUME NEW r \in Refs(o), r \in Marked(S) \/ ~iswhite(r) PROVE Shaded(S)[r] \in Reached
  <2>1. r \in Obj /\ col[r] # "free"
    BY LiveColours DEF NoDangling
  <2>. QED BY <1>4, <2>1 DEF Shaded, MarkColour, Reached, iswhite, TypeOK
<1>5. CASE o \in Udata
  <2>1. o \in ud
    BY <1>2, <1>3, <1>5 DEF Objs
  <2>2. Refs(o) = Objs({mt[o], env[o]})
    BY <1>5, RefsOf
  <2>3. \A r \in Refs(o) : iswhite(r) => r \in tabs
    BY <2>1, <2>2 DEF Objs
  <2>. QED BY <1>1, <1>4, <2>3
<1>6. CASE o \in Uv
  <2>1. o \in whites
    BY <1>2, <1>3, <1>6 DEF Objs
  <2>2. Refs(o) = Objs({uvval(o)})
    BY <1>6, RefsOf
  <2>3. \A r \in Refs(o) : iswhite(r) => r \in values
    BY <1>6, <2>1, <2>2 DEF Objs
  <2>. QED BY <1>1, <1>4, <2>3
<1>. QED BY <1>5, <1>6

\* what turns black at once refers to nothing white
LEMMA ShadedBlack ==
  ASSUME TypeOK, NoDangling, \A o \in Heap : ~isdead(o), NEW S, NEW o \in Obj,
         Shaded(S)[o] = "black", col[o] # "black"
  PROVE  \A r \in Refs(o) : Shaded(S)[r] \in Reached
<1>1. o \in Udata \cup Uv
  BY DEF Shaded, MarkColour
<1>2. col[o] # "free"
  BY ShadedFreesNone
<1>3. o \in Live
  BY <1>2 DEF Live, Heap
<1>. QED BY <1>1, <1>3, ShadedLeaf

(***************************************************************************)
(* The program                                                             *)
(***************************************************************************)

\* the colours a program changes
Coloured ==
  /\ UNCHANGED <<gcstate, white, mmudata, unswept>> /\ ~InAtomic
  /\ \A o \in Obj :
       \/ col'[o] = col[o] \/ col'[o] = white
       \/ col[o] = "black" /\ col'[o] = "gray" /\ o \in Tab
       \/ Marking /\ col[o] # "free" /\ col'[o] \in Reached
       \/ col'[o] = "free" /\ o \in Uv /\ isdead(o)
  /\ \A u \in Uv : \/ uvth'[u] = uvth[u] 
                   \/ col'[u] \in {white, "free"}
                   \/ Marking

LEMMA ColouredPhase ==
  ASSUME TypeOK, TypeOK', PendingLive, PhaseOK, Coloured
  PROVE  PendingLive' /\ PhaseOK' /\ Live \subseteq Live' /\ AtomicOK'
<1>. USE LiveColours, LiveColoursAfter DEF Coloured
<1>1. Live \subseteq Live'
  BY DEF Reached, isdead, otherwhite, TypeOK
<1>2. PendingLive'
  BY <1>1 DEF PendingLive
<1>3. ~Sweeping => \A o \in Heap' : ~isdead(o)'
  <2>1. ~Sweeping => \A o \in Obj : col[o] # otherwhite
    BY DEF PhaseOK, isdead, otherwhite, TypeOK
  <2>2. otherwhite' = otherwhite /\ otherwhite \notin {white, "free", "gray", "black"}
    BY DEF otherwhite, TypeOK
  <2>3. ~Sweeping => \A o \in Obj : col'[o] # otherwhite
    BY <2>1, <2>2 DEF Reached, isdead
  <2>. QED BY <2>2, <2>3 DEF isdead
<1>4. gcstate \in {"pause", "finalize"} => \A o \in Heap' \ mmudata : col'[o] = white
  <2>1. \A o \in Tab : o \notin mmudata
    BY Kinds DEF TypeOK
  <2>2. gcstate \in {"pause", "finalize"} =>
          ~Marking /\ \A o \in Obj \ mmudata : col[o] # "free" => col[o] = white
    BY DEF PhaseOK, Marking
  <2>3. white \in {"w0", "w1"}
    BY DEF TypeOK
  <2>. QED BY <2>1, <2>2, <2>3
<1>5. Sweeping => \A o \in Heap' \ mmudata :
         col'[o] = white \/ o \in unswept \/ (o \in Uv /\ uvth'[o] # Closed /\ uvth'[o] \in unswept)
  <2>1. \A o \in Tab : o \notin mmudata /\ o \notin Uv
    BY Kinds DEF TypeOK
  <2>2. Sweeping => ~Marking /\ \A o \in Obj \ mmudata : col[o] # "free" =>
          \/ col[o] = white \/ o \in unswept
          \/ (o \in Uv /\ uvth[o] # Closed /\ uvth[o] \in unswept)
    BY DEF PhaseOK, Marking, Sweeping
  <2>3. white \in {"w0", "w1"}
    BY DEF TypeOK
  <2>. QED BY <2>1, <2>2, <2>3
<1>6. PhaseOK'
  BY <1>3, <1>4, <1>5 DEF PhaseOK, Sweeping
<1>7. AtomicOK'
  BY DEF AtomicOK, InAtomic
<1>. QED BY <1>1, <1>2, <1>6, <1>7

\* only what is not black is written to
Unwritten ==
  /\ UNCHANGED <<gcstate, mmudata, mt, ent>>
  /\ \A o \in Obj : col'[o] = "black" => col[o] = "black"
  /\ \A o \in Func \cup Udata : col[o] # "free" => env'[o] = env[o]
  /\ \A f \in Func : col[f] # "free" => fuv'[f] = fuv[f]
  /\ \A u \in Uv : col[u] # "free" => uvth'[u] = uvth[u] /\ uval'[u] = uval[u]

LEMMA UnwrittenWavefront ==
  ASSUME TypeOK, TypeOK', ColourOK, Wavefront, Marking \/ InAtomic => Kept, Unwritten
  PROVE  Wavefront'
<1>1. ASSUME NEW o \in Obj, col'[o] = "black" PROVE col[o] = "black" /\ Refs(o)' \subseteq Refs(o)
  <2>1. col[o] = "black"
    BY <1>1 DEF Unwritten
  <2>. USE <2>1, RefsOf, RefsOfAfter DEF Unwritten
  <2>2. CASE o \in Tab
    BY <2>2 DEF Keys, Vals
  <2>3. CASE o \in Func \cup Udata
    <3>1. env'[o] = env[o] /\ (o \in Func => fuv'[o] = fuv[o]) /\ mt'[o] = mt[o]
      BY <2>3
    <3>. QED BY <2>3, <3>1 DEF Objs
  <2>4. CASE o \in Uv
    <3>1. uvth[o] = Closed /\ uvth'[o] = Closed /\ uval'[o] = uval[o]
      BY <2>4 DEF ColourOK, isblack
    <3>2. uvval(o)' = uvval(o)
      BY <3>1 DEF uvval
    <3>. QED BY <2>4, <3>2 DEF Objs
  <2>5. o \notin Thread
    BY DEF ColourOK, isblack
  <2>6. CASE o \in Str
    BY <2>6
  <2>. QED BY <2>2, <2>3, <2>4, <2>5, <2>6 DEF Obj
<1>2. CASE Marking \/ InAtomic
  BY <1>1, <1>2, KeptWavefront DEF Unwritten
<1>3. CASE ~(Marking \/ InAtomic)
  BY <1>3 DEF Wavefront, Marking, InAtomic, Unwritten
<1>. QED BY <1>2, <1>3

\* one of the objects of N, which are new or come back to life, is put into slot i
Allocated(N, i) ==
  /\ UNCHANGED <<gcstate, white, unswept, mmudata, fin, mt, ent, meta, uval>>
  /\ UNCHANGED <<top, basemt, cur, jit>> /\ ~InAtomic
  /\ \E v \in N : SetSlot(i, v)
  /\ \A o \in Obj \ N : col'[o] = col[o]
  /\ \A o \in N : /\ o \in Obj
                  /\ \/ col'[o] = white /\ (col[o] = "free" \/ isdead(o))
                     \/ col'[o] = col[o] /\ o \in Live
                  /\ \/ col[o] = "free" \/ o \in Str
                     \/ o \in Uv /\ uvth[o] = cur
  /\ \A o \in Func \cup Udata \cup Thread :
       env'[o] = env[o] \/ (col[o] = "free" /\ o \in N /\ env'[o] \in Live \cup {Nil})
  /\ \A f \in Func :
       fuv'[f] = fuv[f] \/ (col[f] = "free" /\ f \in N /\ fuv'[f] \in N \cup Live \cup {Nil})
  /\ \A u \in Uv :
       \/ uvth'[u] = uvth[u] /\ uvix'[u] = uvix[u]
       \/ col[u] = "free" /\ u \in N /\ uvth'[u] = cur /\ uvix'[u] <= top[cur]

LEMMA AllocatedSafe ==
  ASSUME TypeOK, TypeOK', Regular, Safe, NEW N, NEW i \in Slots, Allocated(N, i),
         Marking => Kept
  PROVE  Safe'
<1>. USE LiveColours, LiveColoursAfter, AvailLive
<1>1. N \subseteq Live' /\ N \subseteq Obj
  BY DEF Allocated
<1>2. Coloured
  BY DEF Allocated, Coloured
<1>3. PendingLive' /\ PhaseOK' /\ Live \subseteq Live' /\ AtomicOK'
  BY <1>2, ColouredPhase DEF Safe
<1>4. cur \in Live /\ cur \in Thread
  BY DEF Safe, TypeOK
<1>5. FreeWiped'
  <2>1. \A o \in Obj \ Heap' : o \in Obj \ Heap /\ o \notin N /\ o # cur
    BY <1>1, <1>3, <1>4 DEF Allocated
  <2>2. \A th \in Thread : th # cur => stk'[th] = stk[th]
    BY DEF Allocated, SetSlot, TypeOK
  <2>. QED BY <2>1, <2>2 DEF FreeWiped, Allocated, Safe
<1>6. OpenUvOK'
  BY <1>3, <1>4 DEF OpenUvOK, Safe, Allocated, TypeOK
<1>7. Written(Live')
  <2>1. \A th \in Thread : \A j \in Slots : stk'[th][j] \in {stk[th][j], Nil} \cup Live'
    BY <1>1 DEF Allocated, SetSlot, TypeOK
  <2>2. ASSUME NEW u \in Uv PROVE uvval(u)' \in {uvval(u), Nil} \cup Live'
    <3>1. CASE uvth'[u] = uvth[u] /\ uvix'[u] = uvix[u]
      BY <2>1, <3>1 DEF uvval, TypeOK, Allocated
    <3>2. CASE uvth'[u] = cur
      <4>1. cur # Closed /\ uvix'[u] \in Slots
        BY <1>4, Kinds DEF TypeOK, Obj
      <4>2. uvval(u)' = stk'[cur][uvix'[u]]
        BY <3>2, <4>1 DEF uvval, Allocated
      <4>3. stk[cur][uvix'[u]] \in Live \cup {Nil}
        BY <1>4, <4>1 DEF Safe, TypeOK, Val
      <4>. QED BY <1>3, <1>4, <2>1, <4>1, <4>2, <4>3
    <3>. QED BY <3>1, <3>2 DEF Allocated
  <2>. QED BY <1>1, <1>3, <2>1, <2>2 DEF Written, Allocated
<1>8. NoDangling'
  <2>1. Roots' \subseteq Live'
    BY <1>3 DEF Roots, NoDangling, Safe, Allocated
  <2>2. ASSUME NEW o \in Live' \ Live PROVE Refs(o) \subseteq Live'
    <3>1. o \in N /\ o \in Obj
      BY DEF Allocated
    <3>2. CASE col[o] = "free"
      BY <3>1, <3>2, FreeRefs DEF Safe
    <3>3. CASE o \in Str
      BY <3>3, RefsOf
    <3>4. CASE o \in Uv /\ uvth[o] = cur
      <4>1. uvval(o) = stk[cur][uvix[o]] /\ uvix[o] \in Slots
        BY <1>4, <3>4, Kinds DEF uvval, TypeOK, Obj
      <4>. QED BY <1>3, <3>4, <4>1, RefsOf DEF Objs, Safe
    <3>. QED BY <3>1, <3>2, <3>3, <3>4 DEF Allocated
  <2>. QED BY <1>3, <1>7, <2>1, <2>2, KeptNoDangling DEF Safe
<1>9. Wavefront'
  <2>1. Unwritten
    BY DEF Unwritten, Allocated, TypeOK, Obj
  <2>. QED BY <2>1, UnwrittenWavefront DEF Safe, Regular, Allocated
<1>. QED BY <1>3, <1>5, <1>6, <1>8, <1>9 DEF Safe

LEMMA AllocSteps ==
  ASSUME TypeOK, Safe, NEW i \in Slots
  PROVE  /\ \A t \in Tab : lj_tab_new(t, i) => Allocated({t}, i)
         /\ \A u \in Udata, e \in Tab : lj_udata_new(u, e, i) => Allocated({u}, i)
         /\ \A s \in Str : lj_str_new(s, i) => Allocated({s}, i)
         /\ \A th \in Thread : lj_state_new(th, i) => Allocated({th}, i)
         /\ \A f \in Func, u \in Uv, j \in Slots, e \in Tab :
              lj_func_newL_local(f, u, j, e, i) => Allocated({f, u}, i)
         /\ \A f, p \in Func : lj_func_newL_inherit(f, p, i) => Allocated({f}, i)
         /\ \A f \in Func, u \in Uv : lj_func_newL_empty(f, u, i) => Allocated({f, u}, i)
<1>1. /\ NoDangling /\ Live \subseteq Obj /\ Avail \subseteq Live /\ Held \subseteq Live
  BY AvailLive, LiveColours DEF Safe
<1>2. /\ env[cur] \in Live \cup {Nil}
      /\ \A f \in LiveSlots(cur) \cap Func :
           env[f] \in Live \cup {Nil} /\ fuv[f] \in Live \cup {Nil}
  <2>1. env[cur] \in Live \cup {Nil}
    BY <1>1, Kinds DEF Held, Objs, TypeOK, Obj
  <2>2. ASSUME NEW f \in LiveSlots(cur) \cap Func
        PROVE  env[f] \in Live \cup {Nil} /\ fuv[f] \in Live \cup {Nil}
    <3>1. f \in Live
      BY <1>1 DEF Held, Objs, Obj
    <3>2. Objs({env[f], fuv[f]}) \subseteq Live
      BY <1>1, <3>1, RefsOf DEF NoDangling
    <3>. QED BY <3>2 DEF TypeOK, Objs, Obj
  <2>. QED BY <2>1, <2>2
<1>. USE <1>1, <1>2, Kinds
     DEF Fresh, Running, Allocated, allocvars, graph, TypeOK, Obj
<1>3. \A t \in Tab : lj_tab_new(t, i) => Allocated({t}, i)
  BY DEF lj_tab_new
<1>4. ASSUME NEW u \in Udata, NEW e \in Tab, lj_udata_new(u, e, i) PROVE Allocated({u}, i)
  <2>. e \in Live
    BY <1>4 DEF lj_udata_new
  <2>. QED BY <1>4 DEF lj_udata_new
<1>5. \A s \in Str : lj_str_new(s, i) => Allocated({s}, i)
  BY DEF lj_str_new, Reborn, Live, Heap
<1>6. \A th \in Thread : lj_state_new(th, i) => Allocated({th}, i)
  BY DEF lj_state_new
<1>7. ASSUME NEW f \in Func, NEW u \in Uv, NEW j \in Slots, NEW e \in Tab,
             lj_func_newL_local(f, u, j, e, i)
      PROVE  Allocated({f, u}, i)
  <2>1. e \in Live
    BY <1>7 DEF lj_func_newL_local, Objs
  <2>2. /\ \A w \in Uv :
             \/ uvth'[w] = uvth[w] /\ uvix'[w] = uvix[w]
             \/ col[w] = "free" /\ w = u /\ uvth'[w] = cur /\ uvix'[w] <= top[cur]
        /\ col[u] = "free" \/ uvth[u] = cur
    BY <1>7 DEF lj_func_newL_local, func_finduv, OpenUvs
  <2>3. /\ col'[f] = white /\ col[f] = "free"
        /\ \/ col'[u] = white /\ (col[u] = "free" \/ isdead(u))
           \/ col'[u] = col[u] /\ u \in Live
        /\ \A o \in Obj \ {f, u} : col'[o] = col[o]
    BY <1>7 DEF lj_func_newL_local, Reborn, Live, Heap
  <2>4. /\ \A o \in Func \cup Udata \cup Thread : o # f => env'[o] = env[o]
        /\ \A o \in Func : o # f => fuv'[o] = fuv[o]
        /\ env'[f] = e /\ fuv'[f] = u
        /\ SetSlot(i, f) /\ ~InAtomic
        /\ UNCHANGED <<gcstate, white, unswept, mmudata, fin, mt, ent, meta, uval>>
        /\ UNCHANGED <<top, basemt, cur, jit>>
    BY <1>7 DEF lj_func_newL_local
  <2>. QED BY <2>1, <2>2, <2>3, <2>4
<1>8. \A f, p \in Func : lj_func_newL_inherit(f, p, i) => Allocated({f}, i)
  BY DEF lj_func_newL_inherit
<1>9. \A f \in Func, u \in Uv : lj_func_newL_empty(f, u, i) => Allocated({f, u}, i)
  BY DEF lj_func_newL_empty
<1>. QED BY <1>3, <1>4, <1>5, <1>6, <1>7, <1>8, <1>9

LEMMA AllocSafe ==
  ASSUME TypeOK, TypeOK', Regular, Safe, NEW i \in Slots
  PROVE  /\ \A t \in Tab : lj_tab_new(t, i) => Safe'
         /\ \A u \in Udata, e \in Tab : lj_udata_new(u, e, i) => Safe'
         /\ \A s \in Str : lj_str_new(s, i) => Safe'
         /\ \A th \in Thread : lj_state_new(th, i) => Safe'
         /\ \A f \in Func, u \in Uv, j \in Slots, e \in Tab :
              lj_func_newL_local(f, u, j, e, i) => Safe'
         /\ \A f, p \in Func : lj_func_newL_inherit(f, p, i) => Safe'
         /\ \A f \in Func, u \in Uv : lj_func_newL_empty(f, u, i) => Safe'
<1>1. \A N : Allocated(N, i) /\ Kept => Safe'
  BY AllocatedSafe
<1>. QED BY <1>1, AllocKeeps, AllocSteps

\* stacks and roots change, to what the program has at hand
Restacked ==
  /\ UNCHANGED <<gcvars, graph>> /\ ~InAtomic
  /\ \A th \in Thread : \A i \in Slots : stk'[th][i] \in {stk[th][i], Nil} \cup Live
  /\ \A th \in Thread : th \notin Heap => stk'[th] = stk[th] /\ top'[th] = top[th]
  /\ \A u \in Uv : uvth[u] # Closed => uvix[u] <= top'[uvth[u]]
  /\ cur' \in Live
  /\ jit' \in {jit, Nil, Off} \cup Live
  /\ basemt' \in {basemt, Nil} \cup Live

LEMMA RestackedSafe ==
  ASSUME TypeOK, TypeOK', Regular, Safe, Restacked
  PROVE  Safe'
<1>1. UNCHANGED <<gcvars, graph>> /\ Live' = Live /\ Heap' = Heap
  BY DEF Restacked, gcvars, Live, Heap, isdead, otherwhite
<1>2. PendingLive' /\ PhaseOK' /\ AtomicOK'
  <2>. Coloured
    BY DEF Restacked, Coloured, gcvars, graph
  <2>. QED BY ColouredPhase DEF Safe
<1>3. FreeWiped'
  BY <1>1 DEF FreeWiped, Safe, Restacked, gcvars, graph
<1>4. OpenUvOK'
  BY <1>1 DEF OpenUvOK, Safe, Restacked, graph
<1>5. NoDangling'
  <2>1. UNCHANGED <<mt, env, ent, fuv, uvth, uvix, uval>>
    BY <1>1 DEF graph
  <2>2. \A u \in Uv : uvval(u)' \in {uvval(u), Nil} \cup Live
    BY <2>1, WrittenUvvals DEF Restacked
  <2>3. Written(Live')
    BY <1>1, <2>1, <2>2 DEF Written, Restacked
  <2>4. Roots' \subseteq Live'
    BY <1>1, Kinds DEF Restacked, Roots, Objs, NoDangling, Safe
  <2>. QED BY <1>1, <2>3, <2>4, KeptNoDangling DEF Safe
<1>6. Wavefront'
  BY <1>1, UnwrittenWavefront DEF Safe, Regular, Unwritten, Kept, gcvars, graph
<1>. QED BY <1>2, <1>3, <1>4, <1>5, <1>6 DEF Safe

LEMMA StackSteps ==
  ASSUME TypeOK, Safe
  PROVE  /\ \A i \in Slots, v \in Obj \cup {Nil} : Move(i, v) => Restacked
         /\ \A n \in 0 .. NS : SetTop(n) => Restacked
         /\ \A th \in Thread : lua_xmove(th) => Restacked
         /\ \A th \in Thread : lua_resume(th) => Restacked
         /\ lua_yield => Restacked
         /\ TraceEnter => Restacked
         /\ \A v \in Obj : TraceLoad(v) => Restacked
         /\ \A i \in Slots : TraceExit(i) => Restacked
         /\ \A m \in Tab \cup {Nil} : lua_setbasemt(m) => Restacked
<1>1. /\ Avail \subseteq Live /\ Held \subseteq Live /\ cur \in Live /\ Main \in Live
      /\ Live \subseteq Heap
      /\ \A i \in Slots : stk[cur][i] \in Live \cup {Nil}
      /\ jit \in {Nil, Off} \cup Live
  BY AvailLive, LiveColours DEF Safe, TypeOK, Val, Held, Objs
<1>2. \A u \in Uv : uvth[u] # Closed => uvix[u] <= top[uvth[u]]
  BY DEF Safe, OpenUvOK
<1>. USE <1>1, <1>2 DEF Restacked, Running, TypeOK, SetSlot
<1>3. \A i \in Slots, v \in Obj \cup {Nil} : Move(i, v) => Restacked
  BY DEF Move
<1>4. \A n \in 0 .. NS : SetTop(n) => Restacked
  BY DEF SetTop, OpenUvs
<1>5. ASSUME NEW th \in Thread, lua_xmove(th) PROVE Restacked
  <2>1. /\ th \in Live /\ th # cur
        /\ top[cur] \in Slots /\ top[th] + 1 \in Slots
    BY <1>5, Bounds DEF lua_xmove, Slots
  <2>2. /\ stk' = [stk EXCEPT ![th][top[th] + 1] = stk[cur][top[cur]]]
        /\ top' = [top EXCEPT ![th] = top[th] + 1, ![cur] = top[cur] - 1]
        /\ \A u \in Uv : uvth[u] = cur => uvix[u] < top[cur]
        /\ UNCHANGED <<gcvars, graph, basemt, cur, jit>> /\ ~InAtomic
    BY <1>5, <2>1 DEF lua_xmove, OpenUvs
  <2>3. \A t \in Thread : t \notin Heap => stk'[t] = stk[t] /\ top'[t] = top[t]
    BY <2>1, <2>2
  <2>4. \A t \in Thread : \A i \in Slots : stk'[t][i] \in {stk[t][i], Nil} \cup Live
    BY <2>1, <2>2
  <2>5. ASSUME NEW u \in Uv, uvth[u] # Closed PROVE uvix[u] <= top'[uvth[u]]
    <3>1. uvth[u] \in Thread /\ uvix[u] \in Nat /\ uvix[u] <= top[uvth[u]]
      BY <2>5, Bounds DEF Slots
    <3>2. \A t \in Thread : top[t] \in Nat
      BY Bounds
    <3>3. CASE uvth[u] = th
      BY <2>1, <2>2, <3>1, <3>2, <3>3
    <3>4. CASE uvth[u] = cur
      BY <2>1, <2>2, <3>1, <3>2, <3>4
    <3>5. CASE uvth[u] # th /\ uvth[u] # cur
      BY <2>1, <2>2, <3>1, <3>5
    <3>. QED BY <3>3, <3>4, <3>5
  <2>. QED BY <2>2, <2>3, <2>4, <2>5
<1>6. \A th \in Thread : lua_resume(th) => Restacked
  BY DEF lua_resume, Held, Objs, Obj
<1>7. lua_yield => Restacked
  BY DEF lua_yield
<1>8. TraceEnter => Restacked
  BY DEF TraceEnter
<1>9. \A v \in Obj : TraceLoad(v) => Restacked
  BY DEF TraceLoad
<1>10. \A i \in Slots : TraceExit(i) => Restacked
  BY DEF TraceExit
<1>11. \A m \in Tab \cup {Nil} : lua_setbasemt(m) => Restacked
  BY DEF lua_setbasemt
<1>. QED BY <1>3, <1>4, <1>5, <1>6, <1>7, <1>8, <1>9, <1>10, <1>11

LEMMA SameRefs ==
  ASSUME NEW o \in Obj,
         o \in Tab \cup Udata => mt'[o] = mt[o],
         o \in Tab => ent'[o] = ent[o],
         o \in Func \cup Udata \cup Thread => env'[o] = env[o],
         o \in Func => fuv'[o] = fuv[o],
         o \in Thread => stk'[o] = stk[o],
         o \in Uv => uvval(o)' = uvval(o)
  PROVE  Refs(o)' = Refs(o)
<1>. USE RefsOf, RefsOfAfter DEF Objs, Obj
<1>1. CASE o \in Tab
  BY <1>1 DEF Keys, Vals
<1>2. CASE o \in Func
  BY <1>2
<1>3. CASE o \in Thread
  <2>1. env'[o] = env[o] /\ stk'[o] = stk[o]
    BY <1>3
  <2>2. \A r : r \in {stk'[o][i] : i \in Slots} <=> r \in {stk[o][i] : i \in Slots}
    BY <2>1
  <2>3. \A r : r \in Refs(o)' <=> r \in Refs(o)
    BY <1>3, <2>1, <2>2
  <2>4. Refs(o)' \subseteq Refs(o) /\ Refs(o) \subseteq Refs(o)'
    BY <2>3
  <2>. QED BY <2>4
<1>4. CASE o \in Udata
  BY <1>4
<1>5. CASE o \in Uv
  BY <1>5
<1>6. CASE o \in Str
  BY <1>6
<1>. QED BY <1>1, <1>2, <1>3, <1>4, <1>5, <1>6

\* a black object has no reference to a white one that was not there before
Covered ==
  \A o \in Obj \ mmudata : col'[o] = "black" =>
    \/ col[o] = "black" /\ Refs(o)' \subseteq Refs(o) \cup Nonwhite'
    \/ Refs(o)' \subseteq Nonwhite'

\* each of the barriers does what it is there for
LEMMA CoveredBack ==
  ASSUME TypeOK, NEW t \in Tab, barrierback(t), \A o \in Obj \ {t} : Refs(o)' = Refs(o)
  PROVE  Covered
<1>1. t \in Obj
  BY DEF Obj
<1>2. \A o \in Obj : col'[o] = "black" => col[o] = "black" /\ o # t
  BY <1>1 DEF barrierback, isblack, TypeOK
<1>. QED BY <1>2 DEF Covered

LEMMA CoveredNone ==
  ASSUME TypeOK, TypeOK', NEW V, V \cap Obj \subseteq Nonwhite, UNCHANGED col,
         \A o \in Obj : Refs(o)' \subseteq Refs(o) \cup (V \cap Obj)
  PROVE  Covered
BY LiveColours, LiveColoursAfter DEF Covered

LEMMA CoveredForward ==
  ASSUME TypeOK, TypeOK', NoDangling, PhaseOK, Marking,
         NEW o \in Obj, NEW v, barrierf(o, v), v \in Obj => v \in Live,
         \A x \in Obj \ {o} : Refs(x)' = Refs(x), Refs(o)' \subseteq Refs(o) \cup Objs({v})
  PROVE  Covered
<1>. USE LiveColours, LiveColoursAfter DEF Objs
<1>1. CASE ~(isblack(o) /\ v \in Obj /\ iswhite(v))
  <2>1. UNCHANGED col
    BY <1>1 DEF barrierf
  <2>2. isblack(o) => {v} \cap Obj \subseteq Nonwhite'
    BY <1>1, <2>1 DEF iswhite, Reached, TypeOK
  <2>. QED BY <2>1, <2>2 DEF Covered, isblack
<1>2. CASE isblack(o) /\ v \in Obj /\ iswhite(v)
  <2>1. col' = Shaded({v})
    BY <1>2 DEF barrierf
  <2>2. v \in Nonwhite'
    BY <1>2, <2>1, ShadedMarks
  <2>3. \A x \in Heap : ~isdead(x)
    BY DEF PhaseOK, Sweeping, Marking
  <2>4. ASSUME NEW x \in Obj, col'[x] = "black", col[x] # "black" PROVE Refs(x)' \subseteq Nonwhite'
    <3>1. x # o
      BY <1>2, <2>4 DEF isblack
    <3>2. \A r \in Refs(x) : r \in Obj /\ Shaded({v})[r] \in Reached
      BY <2>1, <2>3, <2>4, ShadedBlack DEF Refs
    <3>. QED BY <2>1, <3>1, <3>2
  <2>. QED BY <2>2, <2>4 DEF Covered
<1>. QED BY <1>1, <1>2

\* a live object, or the stack an upvalue points to, is written to
Stored ==
  /\ UNCHANGED <<gcstate, white, unswept, mmudata, fin, uvth, uvix, top, basemt, cur, jit>>
  /\ Coloured /\ (Marking => Covered)
  /\ Live' = Live /\ Heap' = Heap
  /\ Written(Live)
  /\ \A o \in Obj \ Heap :
       /\ o \in Tab \cup Udata => mt'[o] = mt[o]
       /\ o \in Tab => ent'[o] = ent[o] /\ meta'[o] = meta[o]
       /\ o \in Func \cup Udata \cup Thread => env'[o] = env[o]
       /\ o \in Func => fuv'[o] = fuv[o]
       /\ o \in Thread => stk'[o] = stk[o]
       /\ o \in Uv => uval'[o] = uval[o]

LEMMA StoredSafe ==
  ASSUME TypeOK, TypeOK', Regular, Safe, Stored, Marking => Kept
  PROVE  Safe'
<1>1. /\ PendingLive' /\ PhaseOK' /\ Live \subseteq Live' /\ AtomicOK'
      /\ Heap' = Heap
  BY ColouredPhase, LiveColours, LiveColoursAfter DEF Safe, Stored
<1>2. FreeWiped'
  BY <1>1 DEF FreeWiped, Safe, Stored
<1>3. OpenUvOK'
  BY <1>1 DEF OpenUvOK, Safe, Stored
<1>4. NoDangling'
  <2>1. Written(Live')
    BY DEF Stored
  <2>2. Roots' \subseteq Live'
    BY <1>1 DEF Roots, NoDangling, Safe, Stored
  <2>. QED BY <1>1, <2>1, <2>2, KeptNoDangling DEF Safe, Stored
<1>5. Wavefront'
  <2>1. CASE Marking
    BY <2>1, KeptWavefront DEF Safe, Stored, Covered
  <2>2. CASE ~Marking
    BY <2>2 DEF Wavefront, Stored, Coloured, Marking, InAtomic
  <2>. QED BY <2>1, <2>2
<1>. QED BY <1>1, <1>2, <1>3, <1>4, <1>5 DEF Safe

LEMMA BarrierStored ==
  ASSUME TypeOK, PhaseOK, UNCHANGED <<gcstate, white, mmudata, unswept, uvth>>, ~InAtomic
  PROVE  /\ \A t \in Tab : barrierback(t) => Coloured /\ Live' = Live /\ Heap' = Heap
         /\ \A o \in Obj : \A v : barrierf(o, v) => Coloured /\ Live' = Live /\ Heap' = Heap
         /\ UNCHANGED col => Coloured /\ Live' = Live /\ Heap' = Heap
<1>1. /\ Live' = {o \in Obj : col'[o] # "free" /\ col'[o] # otherwhite}
      /\ Live = {o \in Obj : col[o] # "free" /\ col[o] # otherwhite}
      /\ Heap' = {o \in Obj : col'[o] # "free"} /\ Heap = {o \in Obj : col[o] # "free"}
      /\ otherwhite # white /\ white \in {"w0", "w1"} /\ otherwhite \in {"w0", "w1"}
  BY DEF Live, Heap, isdead, otherwhite, TypeOK
<1>2. ASSUME NEW t \in Tab, barrierback(t) PROVE Coloured /\ Live' = Live /\ Heap' = Heap
  <2>1. /\ col' = [col EXCEPT ![t] = IF isblack(t) THEN "gray" ELSE col[t]] /\ t \in Obj
    BY <1>2 DEF barrierback, TypeOK, Obj
  <2>. QED BY <1>1, <2>1 DEF Coloured, isblack, TypeOK
<1>3. ASSUME NEW o \in Obj, NEW v, barrierf(o, v) PROVE Coloured /\ Live' = Live /\ Heap' = Heap
  <2>1. CASE col' = col
    BY <1>1, <2>1 DEF Coloured
  <2>2. CASE Marking /\ col' = Shaded({v})
    <3>1. \A x \in Obj : col'[x] # col[x] => col[x] # "free" /\ col'[x] \in Reached
      BY <2>2, ShadedFreesNone DEF Shaded, MarkColour, Reached
    <3>2. \A x \in Obj : col[x] # otherwhite
      BY <1>1, <2>2 DEF PhaseOK, Marking, Sweeping, isdead
    <3>3. Live' = Live /\ Heap' = Heap
      BY <1>1, <3>1, <3>2 DEF Reached
    <3>. QED BY <2>2, <3>1, <3>3 DEF Coloured
  <2>3. CASE isblack(o) /\ col' = [col EXCEPT ![o] = white]
    BY <1>1, <2>3 DEF Coloured, isblack, TypeOK
  <2>. QED BY <1>3, <2>1, <2>2, <2>3 DEF barrierf
<1>4. UNCHANGED col => Coloured /\ Live' = Live /\ Heap' = Heap
  BY <1>1 DEF Coloured
<1>. QED BY <1>2, <1>3, <1>4

\* stores into tables
LEMMA TableSteps ==
  ASSUME TypeOK, TypeOK', Safe
  PROVE  /\ \A t \in Tab, k \in Obj \cup {Prim}, v \in Obj \cup {Prim, Nil} :
              lua_rawset(t, k, v) => Stored
         /\ \A t \in Tab, v \in Obj \cup {Prim, Nil} : lua_rawseti(t, v) => Stored
         /\ \A t \in Tab, m \in SUBSET MetaFields : SetMetaField(t, m) => Stored
         /\ \A o \in Tab, m \in Tab \cup {Nil} : lua_setmetatable(o, m) => Stored
<1>1. /\ NoDangling /\ PhaseOK /\ Avail \subseteq Live /\ Live \subseteq Heap /\ Live \subseteq Obj
      /\ \A v : v \in Obj /\ v \in Live /\ ~iswhite(v) => v \in Nonwhite
  BY AvailLive, LiveColours DEF Safe, Nonwhite
<1>2. ASSUME NEW t \in Tab, t \in Live, NEW k \in Live \cup {Prim}, NEW v \in Live \cup {Prim, Nil},
             TabSet(t, k, v)
      PROVE  /\ ent'[t] \subseteq ent[t] \cup {<<k, v>>} /\ (v = Nil => ent'[t] \subseteq ent[t])
             /\ \A o \in Tab : o # t => ent'[o] = ent[o]
             /\ \A o \in Tab : ent'[o] \subseteq ent[o] \cup ((Live \cup {Prim}) \X (Live \cup {Prim}))
  <2>1. /\ ent'[t] \subseteq ent[t] \cup {<<k, v>>} /\ (v = Nil => ent'[t] \subseteq ent[t])
        /\ \A o \in Tab : o # t => ent'[o] = ent[o]
    BY <1>2 DEF TabSet, TypeOK
  <2>. QED BY <1>1, <2>1, Kinds
<1>. DEFINE Else == UNCHANGED <<colvars, gray, weak, env, fuv, uvth, uvix, uval, thvars>>
<1>3. ASSUME Else, ~InAtomic, Coloured, Marking => Covered, Live' = Live /\ Heap' = Heap,
             NEW t \in Tab, t \in Live, \A o \in Tab \cup Udata : o # t => mt'[o] = mt[o],
             \A o \in Tab : o # t => ent'[o] = ent[o] /\ meta'[o] = meta[o],
             mt'[t] \in {mt[t], Nil} \cup Live,
             ent'[t] \subseteq ent[t] \cup ((Live \cup {Prim}) \X (Live \cup {Prim}))
      PROVE  Stored
  <2>1. Written(Live)
    <3>1. \A u \in Uv : uvval(u)' = uvval(u)
      BY <1>3 DEF uvval, thvars
    <3>. QED BY <1>3, <3>1 DEF Written, thvars
  <2>2. t \in Heap
    BY <1>1, <1>3
  <2>. QED BY <1>3, <2>1, <2>2 DEF Stored, colvars, thvars
<1>4. ASSUME Else, NEW t \in Tab, \A o \in Tab \cup Udata : o # t => mt'[o] = mt[o],
             \A o \in Tab : o # t => ent'[o] = ent[o]
      PROVE  \A o \in Obj \ {t} : Refs(o)' = Refs(o)
  <2>1. \A u \in Uv : uvval(u)' = uvval(u)
    BY <1>4 DEF uvval, thvars
  <2>. QED BY <1>4, <2>1, SameRefs DEF thvars
<1>. HIDE DEF Else
<1>. USE <1>1 DEF Running, thvars
<1>5. ASSUME NEW t \in Tab, NEW k \in Obj \cup {Prim}, NEW v \in Obj \cup {Prim, Nil},
             lua_rawset(t, k, v)
      PROVE  Stored
  <2>1. /\ Else /\ barrierback(t) /\ UNCHANGED <<mt, meta>> /\ t \in Live /\ ~InAtomic
        /\ k \in Live \cup {Prim} /\ v \in Live \cup {Prim, Nil} /\ TabSet(t, k, v)
    BY <1>5 DEF lua_rawset, Else
  <2>2. /\ \A o \in Tab : o # t => ent'[o] = ent[o]
        /\ ent'[t] \subseteq ent[t] \cup ((Live \cup {Prim}) \X (Live \cup {Prim}))
    BY <1>2, <2>1
  <2>3. Coloured /\ Live' = Live /\ Heap' = Heap
    BY <2>1, BarrierStored DEF Else, colvars
  <2>4. Covered
    BY <1>4, <2>1, <2>2, CoveredBack
  <2>. QED BY <1>3, <2>1, <2>2, <2>3, <2>4
<1>6. ASSUME NEW t \in Tab, NEW v \in Obj \cup {Prim, Nil}, lua_rawseti(t, v) PROVE Stored
  <2>1. /\ Else /\ UNCHANGED <<mt, meta>> /\ t \in Live /\ ~InAtomic
        /\ v \in Live \cup {Prim, Nil} /\ TabSet(t, Prim, v)
    BY <1>6 DEF lua_rawseti, Else
  <2>2. /\ \A o \in Tab : o # t => ent'[o] = ent[o]
        /\ ent'[t] \subseteq ent[t] \cup ((Live \cup {Prim}) \X (Live \cup {Prim}))
        /\ ent'[t] \subseteq ent[t] \cup {<<Prim, v>>} /\ (v = Nil => ent'[t] \subseteq ent[t])
    BY <1>2, <2>1
  <2>3. \A o \in Obj \ {t} : Refs(o)' = Refs(o)
    BY <1>4, <2>1, <2>2
  <2>4. Refs(t)' \subseteq Refs(t) \cup Objs({v})
    <3>1. Keys(t)' \subseteq Keys(t) \cup {Prim} /\ Vals(t)' \subseteq Vals(t) \cup {v}
      BY <2>2 DEF Keys, Vals
    <3>2. Refs(t) = Objs({mt[t]} \cup Keys(t) \cup Vals(t))
      BY RefsOf
    <3>3. Refs(t)' = Objs({mt[t]} \cup Keys(t)' \cup Vals(t)')
      BY <2>1, RefsOfAfter
    <3>. QED BY <3>1, <3>2, <3>3, Kinds DEF Objs
  <2>5. (v \in Obj /\ iswhite(v) /\ barrierback(t)) \/ (~(v \in Obj /\ iswhite(v)) /\ UNCHANGED col)
    BY <1>6 DEF lua_rawseti
  <2>6. Coloured /\ Live' = Live /\ Heap' = Heap
    BY <2>1, <2>5, BarrierStored DEF Else, colvars
  <2>7. Covered
    <3>1. CASE barrierback(t)
      BY <2>3, <3>1, CoveredBack
    <3>2. CASE ~(v \in Obj /\ iswhite(v)) /\ UNCHANGED col
      <4>1. Objs({v}) \subseteq Nonwhite /\ {v} \cap Obj = Objs({v})
        BY <2>1, <3>2, Kinds DEF Objs
      <4>2. \A o \in Obj : Refs(o)' \subseteq Refs(o) \cup ({v} \cap Obj)
        BY <2>3, <2>4, <4>1
      <4>. QED BY <3>2, <4>1, <4>2, CoveredNone
    <3>. QED BY <2>5, <3>1, <3>2
  <2>. QED BY <1>3, <2>1, <2>2, <2>6, <2>7
<1>7. ASSUME NEW t \in Tab, NEW m \in SUBSET MetaFields, SetMetaField(t, m) PROVE Stored
  <2>1. /\ Else /\ barrierback(t) /\ UNCHANGED <<mt, ent>> /\ t \in Live /\ ~InAtomic
        /\ \A o \in Tab : o # t => meta'[o] = meta[o]
    BY <1>7 DEF SetMetaField, Else, TypeOK
  <2>2. Coloured /\ Live' = Live /\ Heap' = Heap
    BY <2>1, BarrierStored DEF Else, colvars
  <2>3. Covered
    BY <1>4, <2>1, CoveredBack
  <2>. QED BY <1>3, <2>1, <2>2, <2>3
<1>8. ASSUME NEW t \in Tab, NEW m \in Tab \cup {Nil}, lua_setmetatable(t, m) PROVE Stored
  <2>1. /\ Else /\ UNCHANGED <<ent, meta>> /\ t \in Live /\ ~InAtomic
        /\ \A o \in Tab \cup Udata : o # t => mt'[o] = mt[o]
        /\ mt'[t] = m /\ m \in Live \cup {Nil}
    BY <1>8 DEF lua_setmetatable, Else, TypeOK
  <2>2. \A o \in Obj \ {t} : Refs(o)' = Refs(o)
    BY <1>4, <2>1
  <2>3. Refs(t)' \subseteq Refs(t) \cup Objs({m})
    <3>1. Keys(t)' = Keys(t) /\ Vals(t)' = Vals(t)
      BY <2>1 DEF Keys, Vals
    <3>2. Refs(t) = Objs({mt[t]} \cup Keys(t) \cup Vals(t))
      BY RefsOf
    <3>3. Refs(t)' = Objs({m} \cup Keys(t) \cup Vals(t))
      BY <2>1, <3>1, RefsOfAfter
    <3>. QED BY <3>2, <3>3 DEF Objs
  <2>4. (m # Nil /\ iswhite(m) /\ barrierback(t)) \/ (~(m # Nil /\ iswhite(m)) /\ UNCHANGED col)
    BY <1>8 DEF lua_setmetatable
  <2>5. Coloured /\ Live' = Live /\ Heap' = Heap
    BY <2>1, <2>4, BarrierStored DEF Else, colvars
  <2>6. Covered
    <3>1. CASE barrierback(t)
      BY <2>2, <3>1, CoveredBack
    <3>2. CASE ~(m # Nil /\ iswhite(m)) /\ UNCHANGED col
      <4>1. Objs({m}) \subseteq Nonwhite /\ {m} \cap Obj = Objs({m})
        BY <2>1, <3>2, Kinds DEF Objs
      <4>2. \A o \in Obj : Refs(o)' \subseteq Refs(o) \cup ({m} \cap Obj)
        BY <2>2, <2>3, <4>1
      <4>. QED BY <3>2, <4>1, <4>2, CoveredNone
    <3>. QED BY <2>4, <3>1, <3>2
  <2>. QED BY <1>3, <2>1, <2>5, <2>6
<1>. QED BY <1>5, <1>6, <1>7, <1>8

\* stores into other objects
LEMMA ObjectSteps ==
  ASSUME TypeOK, TypeOK', Regular, Safe
  PROVE  /\ \A o \in Udata, m \in Tab \cup {Nil} : lua_setmetatable(o, m) => Stored
         /\ \A o \in Func \cup Udata \cup Thread, e \in Tab : lua_setfenv(o, e) => Stored
         /\ \A f \in Func, v \in Obj \cup {Nil} : USET(f, v) => Stored
         /\ \A f, g \in Func : lua_upvaluejoin(f, g) => Stored
<1>1. /\ NoDangling /\ PhaseOK /\ Avail \subseteq Live /\ Live \subseteq Heap /\ Live \subseteq Obj
      /\ \A f \in Func : f \in Avail /\ fuv[f] # Nil => fuv[f] \in Live
  <2>1. /\ NoDangling /\ PhaseOK /\ Avail \subseteq Live /\ Live \subseteq Heap /\ Live \subseteq Obj
    BY AvailLive, LiveColours DEF Safe
  <2>2. ASSUME NEW f \in Func, f \in Avail, fuv[f] # Nil PROVE fuv[f] \in Live
    <3>1. fuv[f] \in Obj
      BY <2>2 DEF TypeOK, Obj
    <3>2. fuv[f] \in Refs(f)
      BY <3>1, RefsOf DEF Objs
    <3>. QED BY <2>1, <2>2, <3>2 DEF NoDangling
  <2>. QED BY <2>1, <2>2
<1>. USE <1>1
<1>. DEFINE Else == UNCHANGED <<colvars, uvth, uvix, top, basemt, cur, jit>> /\ ~InAtomic
<1>2. ASSUME Else, NEW o \in Obj, o \in Heap, NEW v, v \in Obj => v \in Live, barrierf(o, v),
             Written(Live), \A x \in Obj \ {o} : Refs(x)' = Refs(x),
             Refs(o)' \subseteq Refs(o) \cup Objs({v}), UNCHANGED <<ent, meta, stk>>,
             \A x \in Tab \cup Udata : x # o => mt'[x] = mt[x],
             \A x \in Func \cup Udata \cup Thread : x # o => env'[x] = env[x],
             \A x \in Func : x # o => fuv'[x] = fuv[x],
             \A x \in Uv : x # o => uval'[x] = uval[x]
      PROVE  Stored
  <2>1. Coloured /\ Live' = Live /\ Heap' = Heap
    BY <1>2, BarrierStored DEF colvars
  <2>2. Marking => Covered
    BY <1>2, CoveredForward
  <2>. QED BY <1>2, <2>1, <2>2 DEF Stored, colvars
<1>3. ASSUME Else, UNCHANGED <<uval, stk>> PROVE \A u \in Uv : uvval(u)' = uvval(u)
  BY <1>3 DEF uvval
<1>. HIDE DEF Else
<1>. USE DEF Running
<1>4. ASSUME NEW o \in Udata, NEW m \in Tab \cup {Nil}, lua_setmetatable(o, m) PROVE Stored
  <2>1. /\ Else /\ barrierf(o, m) /\ o \in Live /\ o \in Obj /\ m \in Live \cup {Nil}
        /\ mt'[o] = m /\ \A x \in Tab \cup Udata : x # o => mt'[x] = mt[x]
        /\ UNCHANGED <<env, ent, meta, fuv, uval, stk>>
    BY <1>4, Kinds DEF lua_setmetatable, Else, thvars, TypeOK, Obj
  <2>2. /\ \A x \in Obj \ {o} : Refs(x)' = Refs(x)
        /\ Refs(o)' \subseteq Refs(o) \cup Objs({m})
    <3>1. \A x \in Obj \ {o} : Refs(x)' = Refs(x)
      BY <1>3, <2>1, SameRefs
    <3>. QED BY <2>1, <3>1, RefsOf, RefsOfAfter DEF Objs
  <2>3. Written(Live)
    BY <1>3, <2>1 DEF Written
  <2>. QED BY <1>2, <2>1, <2>2, <2>3, Kinds
<1>5. ASSUME NEW o \in Func \cup Udata \cup Thread, NEW e \in Tab, lua_setfenv(o, e) PROVE Stored
  <2>1. /\ Else /\ barrierf(o, e) /\ o \in Live /\ o \in Obj /\ e \in Live
        /\ env'[o] = e /\ \A x \in Func \cup Udata \cup Thread : x # o => env'[x] = env[x]
        /\ UNCHANGED <<mt, ent, meta, fuv, uval, stk>>
    BY <1>5, Kinds DEF lua_setfenv, Else, thvars, TypeOK, Obj
  <2>2. /\ \A x \in Obj \ {o} : Refs(x)' = Refs(x)
        /\ Refs(o)' \subseteq Refs(o) \cup Objs({e})
    <3>1. \A x \in Obj \ {o} : Refs(x)' = Refs(x)
      BY <1>3, <2>1, SameRefs
    <3>. QED BY <2>1, <3>1, RefsOf, RefsOfAfter DEF Objs
  <2>3. Written(Live)
    BY <1>3, <2>1 DEF Written
  <2>. QED BY <1>2, <2>1, <2>2, <2>3
<1>6. ASSUME NEW f \in Func, NEW g \in Func, lua_upvaluejoin(f, g) PROVE Stored
  <2>1. /\ Else /\ barrierf(f, fuv[g]) /\ f \in Live /\ f \in Obj /\ fuv[g] \in Live
        /\ fuv'[f] = fuv[g] /\ \A x \in Func : x # f => fuv'[x] = fuv[x]
        /\ UNCHANGED <<mt, env, ent, meta, uval, stk>>
    BY <1>6, Kinds DEF lua_upvaluejoin, Else, thvars, TypeOK, Obj
  <2>2. /\ \A x \in Obj \ {f} : Refs(x)' = Refs(x)
        /\ Refs(f)' \subseteq Refs(f) \cup Objs({fuv[g]})
    <3>1. \A x \in Obj \ {f} : Refs(x)' = Refs(x)
      BY <1>3, <2>1, SameRefs
    <3>. QED BY <2>1, <3>1, RefsOf, RefsOfAfter DEF Objs
  <2>3. Written(Live)
    BY <1>3, <2>1 DEF Written
  <2>. QED BY <1>2, <2>1, <2>2, <2>3
<1>7. ASSUME NEW f \in Func, NEW v \in Obj \cup {Nil}, USET(f, v) PROVE Stored
  <2>. DEFINE u == fuv[f]
  <2>1. /\ Else /\ u \in Uv /\ u \in Obj /\ u \in Live /\ v \in Live \cup {Nil}
        /\ UNCHANGED <<mt, env, ent, meta, fuv>> /\ UvWrite(u, v)
    <3>1. f \in Avail
      BY <1>7 DEF USET, Avail, Held, Objs, Obj
    <3>. QED BY <1>7, <3>1 DEF USET, Else, TypeOK, Obj
  <2>2. CASE uvth[u] = Closed
    <3>1. /\ barrierf(u, v) /\ UNCHANGED stk
          /\ uval' = [uval EXCEPT ![u] = v]
      BY <1>7, <2>1, <2>2 DEF USET, UvWrite
    <3>2. /\ \A x \in Uv : x # u => uvval(x)' = uvval(x) /\ uval'[x] = uval[x]
          /\ uvval(u)' = v
      BY <2>1, <2>2, <3>1 DEF uvval, Else, TypeOK
    <3>3. /\ \A x \in Obj \ {u} : Refs(x)' = Refs(x)
          /\ Refs(u)' \subseteq Refs(u) \cup Objs({v})
      <4>1. \A x \in Obj \ {u} : Refs(x)' = Refs(x)
        BY <2>1, <3>1, <3>2, SameRefs
      <4>. QED BY <2>1, <3>2, <4>1, RefsOf, RefsOfAfter DEF Objs
    <3>4. Written(Live)
      BY <2>1, <3>1, <3>2 DEF Written
    <3>. QED BY <1>2, <2>1, <3>1, <3>2, <3>3, <3>4, Kinds
  <2>3. CASE uvth[u] # Closed
    <3>1. /\ stk' = [stk EXCEPT ![uvth[u]][uvix[u]] = v] /\ UNCHANGED <<uval, col>>
          /\ uvth[u] \in Thread /\ uvix[u] \in Slots /\ uvth[u] \in Heap
      BY <1>7, <2>1, <2>3 DEF USET, UvWrite, TypeOK, Safe, OpenUvOK
    <3>2. /\ \A th \in Thread : \A i \in Slots : stk'[th][i] \in {stk[th][i], Nil} \cup Live
          /\ \A th \in Thread : th # uvth[u] => stk'[th] = stk[th]
      BY <2>1, <3>1 DEF TypeOK
    <3>3. Written(Live)
      <4>1. \A x \in Uv : uvval(x)' \in {uvval(x), Nil} \cup Live
        BY <2>1, <3>1, <3>2, WrittenUvvals DEF Else
      <4>. QED BY <2>1, <3>2, <4>1 DEF Written
    <3>4. Coloured /\ Live' = Live /\ Heap' = Heap
      BY <2>1, <3>1, BarrierStored DEF Else, colvars
    <3>5. Covered
      <4>1. ASSUME NEW x \in Obj, col[x] = "black" PROVE Refs(x)' = Refs(x)
        <5>1. x \notin Thread /\ (x \in Uv => uvth[x] = Closed)
          BY <4>1 DEF Regular, ColourOK, isblack
        <5>2. x \in Uv => uvval(x)' = uvval(x)
          BY <2>1, <3>1, <5>1 DEF uvval, Else
        <5>. QED BY <2>1, <5>1, <5>2, SameRefs
      <4>. QED BY <3>1, <4>1 DEF Covered
    <3>. QED BY <2>1, <3>1, <3>2, <3>3, <3>4, <3>5 DEF Stored, Else, colvars
  <2>. QED BY <2>2, <2>3
<1>. QED BY <1>4, <1>5, <1>6, <1>7

LEMMA CloseSafe ==
  ASSUME TypeOK, TypeOK', UvInv, Regular, Safe, NEW i \in Slots, lj_func_closeuv(i)
  PROVE  Safe'
<1>. DEFINE above == {u \in OpenUvs(cur) : uvix[u] >= i}
            freed == {u \in above : isdead(u)}
            grays == {u \in above \ freed : isgray(u)}
            values == Objs({uvval(u) : u \in grays})
<1>1. /\ col' = [o \in Obj |-> IF o \in freed THEN "free"
                               ELSE IF o \in grays THEN (IF Marking THEN "black" ELSE white)
                               ELSE IF Marking THEN Shaded(values)[o] ELSE col[o]]
      /\ ~InAtomic
      /\ UNCHANGED <<gcstate, white, mmudata, unswept, fin, mt, env, ent, meta, fuv>>
      /\ UNCHANGED <<stk, top, basemt, cur, jit>>
  BY DEF lj_func_closeuv, colvars, thvars, Running
<1>2. CloseUvs(above \ freed, freed)
  BY DEF lj_func_closeuv
<1>3. /\ above \subseteq Uv /\ freed \subseteq above /\ grays \subseteq above
      /\ \A u \in above : uvth[u] # Closed /\ u \in Obj /\ u \in Heap
      /\ \A u \in freed : isdead(u)
      /\ \A u \in grays : col[u] = "gray" /\ u \notin freed
      /\ \A u \in above \ (grays \cup freed) : col[u] = white
  <2>1. \A u \in above : u \in Uv /\ uvth[u] # Closed /\ u \in Obj /\ u \in Heap
    BY Permanent, Kinds DEF OpenUvs, UvInv, OpenAllocated, TypeOK, Obj
  <2>2. \A u \in above \ (grays \cup freed) : col[u] = white
    BY <2>1 DEF isgray, isdead, otherwhite, Regular, ColourOK, isblack, Heap, TypeOK
  <2>. QED BY <2>1, <2>2 DEF isgray
<1>4. /\ \A u \in Uv \ above : uvth'[u] = uvth[u] /\ uvix'[u] = uvix[u] /\ uval'[u] = uval[u]
      /\ \A u \in above : uvth'[u] = Closed
      /\ \A u \in freed : uval'[u] = Nil
      /\ \A u \in above \ freed : uval'[u] = uvval(u)
  <2>. HIDE DEF above, freed
  <2>. QED BY <1>2, <1>3 DEF CloseUvs
<1>5. /\ values \subseteq Obj \ Uv
      /\ \A u \in grays : uvval(u) \in Obj => uvval(u) \in values
  BY <1>3, UvvalType, Kinds DEF Objs, Val, Obj
<1>. HIDE DEF above, freed, grays, values
<1>6. /\ \A u \in Uv : uvval(u)' = IF u \in freed THEN Nil ELSE uvval(u)
      /\ \A o \in Obj : Refs(o)' \subseteq Refs(o)
      /\ Written({}) /\ Written(Live')
  <2>1. \A u \in Uv : uvval(u)' = IF u \in freed THEN Nil ELSE uvval(u)
    BY <1>1, <1>3, <1>4 DEF uvval
  <2>2. Written({}) /\ Written(Live')
    BY <1>1, <2>1 DEF Written
  <2>. QED BY <2>1, <2>2, WrittenRefs
<1>7. Marking => /\ freed = {}
                 /\ \A o \in Heap : ~isdead(o)
  BY <1>3 DEF Safe, PhaseOK, Sweeping, Marking
<1>8. Coloured /\ Live' = Live /\ \A o \in Obj : col'[o] = "free" <=> col[o] = "free" \/ o \in freed
  <2>1. \A o \in Obj : Shaded(values)[o] # col[o] => col[o] # "free" /\ Shaded(values)[o] \in Reached
    BY ShadedFreesNone DEF Shaded, MarkColour, Reached
  <2>2. \A o \in Obj :
          \/ o \in freed /\ col'[o] = "free"
          \/ o \in grays /\ col[o] = "gray" /\ (IF Marking THEN col'[o] = "black" ELSE col'[o] = white)
             /\ o \notin freed
          \/ Marking /\ col'[o] # col[o] /\ col[o] # "free" /\ col'[o] \in Reached /\ o \notin freed
          \/ col'[o] = col[o] /\ o \notin freed
    BY <1>1, <1>3, <2>1
  <2>3. Coloured
    <3>1. \A u \in Uv : uvth'[u] = uvth[u] \/ col'[u] \in {white, "free"} \/ Marking
      BY <1>1, <1>3, <1>4
    <3>2. \A u \in freed : u \in Uv /\ isdead(u)
      BY <1>3
    <3>. QED BY <1>1, <2>2, <3>1, <3>2 DEF Coloured, Reached
  <2>4. white \in {"w0", "w1"} /\ \A o \in freed : col[o] = otherwhite /\ o \in Heap
    BY <1>3 DEF TypeOK, isdead
  <2>5. Live' = Live
    <3>1. Marking => \A o \in Obj : col[o] # "free" => col[o] \in {white} \cup Reached
      BY <1>7, LiveColours DEF Live, Heap
    <3>. QED BY <1>1, <2>2, <2>4, <3>1, LiveColours, LiveColoursAfter DEF Reached, otherwhite
  <2>. QED BY <2>2, <2>3, <2>4, <2>5 DEF Reached
<1>9. PendingLive' /\ PhaseOK' /\ AtomicOK'
  BY <1>8, ColouredPhase DEF Safe
<1>10. FreeWiped'
  <2>1. \A o \in Obj \ Heap' : o \in Obj /\ (o \in freed \/ o \in Obj \ Heap)
    BY <1>8 DEF Heap
  <2>2. ASSUME NEW u \in Uv, u \in Obj \ Heap' PROVE uvth'[u] = Closed /\ uval'[u] = Nil
    BY <1>3, <1>4, <2>1, <2>2 DEF Safe, FreeWiped
  <2>3. \A o \in freed : o \notin Tab \cup Func \cup Udata \cup Thread
    BY <1>3, Kinds
  <2>. QED BY <1>1, <2>1, <2>2, <2>3 DEF FreeWiped, Safe
<1>11. OpenUvOK'
  <2>1. \A th \in Thread : th \in Heap => th \in Heap'
    BY <1>3, <1>8, Kinds DEF Heap, Obj
  <2>. QED BY <1>1, <1>4, <2>1 DEF OpenUvOK, Safe, TypeOK
<1>12. NoDangling'
  <2>1. Roots' \subseteq Live'
    BY <1>1, <1>8 DEF Roots, NoDangling, Safe
  <2>. QED BY <1>6, <1>8, <2>1, KeptNoDangling DEF Safe
<1>13. Wavefront'
  <2>1. CASE Marking
    <3>1. Kept
      BY <2>1, StoreKeeps
    <3>2. \A o \in Obj : col'[o] = IF o \in grays THEN "black" ELSE Shaded(values)[o]
      BY <1>1, <1>7, <2>1
    <3>3. \A r \in Obj : Shaded(values)[r] \in Reached => r \in Nonwhite'
      BY <3>2, LiveColoursAfter DEF Reached
    <3>4. ASSUME NEW o \in grays PROVE Refs(o) \subseteq Nonwhite'
      <4>1. o \in Live /\ o \in Uv
        BY <1>3, LiveColours DEF Reached
      <4>2. Refs(o) = Objs({uvval(o)}) /\ Refs(o) \subseteq Live
        BY <4>1, RefsOf DEF Safe, NoDangling
      <4>3. Refs(o) \subseteq values
        BY <1>5, <4>2 DEF Objs
      <4>4. Refs(o) \subseteq Heap /\ Refs(o) \subseteq Obj
        BY <4>2, LiveColours
      <4>. QED BY <3>3, <4>3, <4>4, ShadedMarks
    <3>5. ASSUME NEW o \in Obj, Shaded(values)[o] = "black", col[o] # "black"
          PROVE  Refs(o) \subseteq Nonwhite'
      <4>1. Refs(o) \subseteq Obj
        BY DEF Refs, Objs
      <4>2. \A r \in Refs(o) : Shaded(values)[r] \in Reached
        BY <1>7, <2>1, <3>5, ShadedBlack DEF Safe
      <4>. QED BY <3>3, <4>1, <4>2
    <3>6. \A o \in Obj : col'[o] = "black" => col[o] = "black" \/ Refs(o) \subseteq Nonwhite'
      BY <3>2, <3>4, <3>5
    <3>. QED BY <1>1, <1>6, <2>1, <3>1, <3>6, KeptWavefront DEF Safe
  <2>2. CASE ~Marking
    BY <1>1, <2>2 DEF Wavefront, Marking, InAtomic
  <2>. QED BY <2>1, <2>2
<1>. QED BY <1>9, <1>10, <1>11, <1>12, <1>13 DEF Safe

\* steps that only move the collector on
LEMMA SameHeap ==
  ASSUME Safe, UNCHANGED <<white, col, mmudata, fin, graph, thvars>>
  PROVE  /\ FreeWiped' /\ OpenUvOK' /\ PendingLive' /\ NoDangling'
         /\ Heap' = Heap /\ \A o : isdead(o)' = isdead(o)
<1>. USE DEF graph, thvars
<1>1. Heap' = Heap /\ Live' = Live /\ \A o : isdead(o)' = isdead(o)
  BY DEF Heap, Live, isdead, otherwhite
<1>2. FreeWiped' /\ OpenUvOK' /\ PendingLive'
  BY <1>1 DEF Safe, FreeWiped, OpenUvOK, PendingLive
<1>3. Roots' = Roots
  BY DEF Roots
<1>4. \A o \in Obj : Refs(o)' = Refs(o)
  <2>. \A u \in Uv : uvval(u)' = uvval(u)
    BY DEF uvval
  <2>. QED BY SameRefs
<1>5. NoDangling'
  BY <1>1, <1>3, <1>4 DEF NoDangling, Safe, Live, Heap
<1>. QED BY <1>1, <1>2, <1>5

LEMMA FullSafe ==
  ASSUME TypeOK, Safe, lj_gc_fullgc
  PROVE  Safe'
<1>1. UNCHANGED <<white, col, mmudata, fin, graph, thvars>> /\ ~InAtomic
  BY DEF lj_gc_fullgc, Running
<1>2. /\ FreeWiped' /\ OpenUvOK' /\ PendingLive' /\ NoDangling'
      /\ Heap' = Heap /\ \A o : isdead(o)' = isdead(o)
  BY <1>1, SameHeap
<1>3. CASE gcstate \in {"pause", "propagate", "atomic"}
  <2>1. /\ gcstate' = "sweepstring"
        /\ unswept' = Heap \ (mmudata \cup {u \in Uv : uvth[u] # Closed})
    BY <1>3 DEF lj_gc_fullgc
  <2>2. \A u \in Uv : uvth[u] # Closed => uvth[u] \in unswept'
    BY <2>1, Kinds DEF Safe, OpenUvOK, TypeOK, Heap, Obj
  <2>3. PhaseOK'
    BY <1>1, <1>2, <2>1, <2>2 DEF PhaseOK, Sweeping, graph
  <2>. QED BY <1>2, <2>1, <2>3 DEF Safe, Wavefront, AtomicOK, Marking, InAtomic
<1>4. CASE ~(gcstate \in {"pause", "propagate", "atomic"})
  <2>1. UNCHANGED <<gcstate, unswept>> /\ ~Marking
    BY <1>4 DEF lj_gc_fullgc, Marking
  <2>2. PhaseOK'
    BY <1>1, <1>2, <2>1 DEF Safe, PhaseOK, Sweeping, graph
  <2>. QED BY <1>1, <1>2, <2>1, <2>2 DEF Safe, Wavefront, AtomicOK, Marking, InAtomic
<1>. QED BY <1>3, <1>4

LEMMA MutatorSafe ==
  ASSUME TypeOK, TypeOK', UvInv, Regular, Safe,
         NEW p \in Programs, p.setuv = {}, Mutator(p)
  PROVE  Safe'
<1>1. /\ p.objs \subseteq Obj /\ p.data \subseteq Obj \cup {Prim}
      /\ p.keys \subseteq Obj \cup {Prim} /\ p.tabs \subseteq Tab /\ p.metas \subseteq Tab
      /\ p.fields \subseteq SUBSET MetaFields
  BY Bounds
<1>2. Restacked => Safe'
  BY RestackedSafe
<1>3. Stored /\ (Marking => Kept) => Safe'
  BY StoredSafe
<1>4. /\ \A t \in Tab, k \in Obj \cup {Prim}, v \in Obj \cup {Prim, Nil} :
              lua_rawset(t, k, v) \/ lua_rawseti(t, v) => Safe'
      /\ \A t \in Tab, m \in SUBSET MetaFields : SetMetaField(t, m) => Safe'
      /\ \A o \in Tab \cup Udata, m \in Tab \cup {Nil} : lua_setmetatable(o, m) => Safe'
      /\ \A o \in Func \cup Udata \cup Thread, e \in Tab : lua_setfenv(o, e) => Safe'
      /\ \A f \in Func, v \in Obj \cup {Nil} : USET(f, v) => Safe'
      /\ \A f, g \in Func : lua_upvaluejoin(f, g) => Safe'
  BY <1>3, TableSteps, ObjectSteps, StoreKeeps
<1>. QED
  BY <1>1, <1>2, <1>4, AllocSafe, StackSteps, CloseSafe, FullSafe DEF Mutator, Obj

-----------------------------------------------------------------------------
(***************************************************************************)
(* The collector: mark phase                                               *)
(***************************************************************************)

\* nothing is condemned, nothing is freed, and stale stack slots may be cleared
Marks ==
  /\ UNCHANGED <<white, mt, env, ent, meta, fuv, uvth, uvix, uval, top, basemt, cur, jit>>
  /\ ~Sweeping /\ ~Sweeping' /\ gcstate' \notin {"pause", "finalize"}
  /\ \A o \in Obj : col'[o] = col[o] \/ (col[o] # "free" /\ col'[o] \in Reached)
  /\ \A th \in Thread : \A i \in Slots : stk'[th][i] \in {stk[th][i], Nil}
  /\ mmudata' \subseteq Heap /\ fin' \subseteq fin \cup Heap

LEMMA MarksSafe ==
  ASSUME TypeOK, TypeOK', Safe, Marks
  PROVE  /\ FreeWiped' /\ OpenUvOK' /\ PendingLive' /\ PhaseOK' /\ NoDangling'
         /\ Heap' = Heap /\ Live = Heap /\ \A o \in Heap : ~isdead(o)
         /\ \A o \in Obj : Refs(o)' \subseteq Refs(o)
<1>1. /\ \A o \in Heap : ~isdead(o)
      /\ Live = Heap
  BY DEF Marks, Safe, PhaseOK, Live
<1>2. Heap' = Heap
  BY LiveColours, LiveColoursAfter DEF Marks, Reached
<1>3. Live' = Heap
  BY <1>1, <1>2, LiveColours, LiveColoursAfter DEF Marks
<1>4. Written({})
  <2>. \A u \in Uv : uvval(u)' \in {uvval(u), Nil} \cup {}
    BY WrittenUvvals DEF Marks
  <2>. QED BY DEF Written, Marks
<1>5. \A o \in Obj : Refs(o)' \subseteq Refs(o)
  BY <1>4, WrittenRefs
<1>6. FreeWiped'
  BY <1>2 DEF Safe, FreeWiped, Marks
<1>7. OpenUvOK' /\ PendingLive'
  BY <1>2, <1>3 DEF Safe, OpenUvOK, PendingLive, Marks
<1>8. PhaseOK'
  BY <1>2, <1>3 DEF PhaseOK, Marks, Live
<1>9. NoDangling'
  <2>1. Roots' = Roots
    BY DEF Roots, Marks
  <2>2. \A o \in Live' : o \in Obj
    BY <1>3 DEF Heap
  <2>. QED BY <1>1, <1>3, <1>5, <2>1, <2>2 DEF Safe, NoDangling
<1>. QED BY <1>1, <1>2, <1>5, <1>6, <1>7, <1>8, <1>9

\* what a step that shades S leads to; the objects of X turn gray or black
LEMMA ShadingReaches ==
  ASSUME TypeOK, TypeOK', Safe, Marks, NEW S, NEW X,
         \A o \in Obj \ X : col'[o] = Shaded(S)[o],
         \A o \in Obj \cap X : col'[o] \in Reached
  PROVE  /\ S \cap Heap \subseteq Nonwhite'
         /\ \A o \in Obj \ X : col'[o] = "black" /\ col[o] # "black" => Refs(o) \subseteq Nonwhite'
         /\ \A u \in Uv \ X : col'[u] = "gray" /\ col[u] # "gray" => Refs(u) \subseteq Nonwhite'
<1>1. /\ \A o \in Heap : ~isdead(o)
      /\ Live = Heap /\ NoDangling /\ Heap \subseteq Obj
  BY MarksSafe DEF Safe, Heap
<1>2. \A r \in Obj : Shaded(S)[r] \in Reached => r \in Nonwhite'
  BY LiveColoursAfter
<1>3. \A o \in Obj : Refs(o) \subseteq Obj
  BY DEF Refs, Objs
<1>4. S \cap Heap \subseteq Nonwhite'
  BY <1>1, <1>2, ShadedMarks
<1>5. ASSUME NEW o \in Obj \ X, col'[o] = "black", col[o] # "black" PROVE Refs(o) \subseteq Nonwhite'
  <2>1. \A r \in Refs(o) : Shaded(S)[r] \in Reached
    BY <1>1, <1>5, ShadedBlack
  <2>. QED BY <1>2, <1>3, <2>1
<1>6. ASSUME NEW u \in Uv \ X, col'[u] = "gray", col[u] # "gray" PROVE Refs(u) \subseteq Nonwhite'
  <2>1. u \in Live /\ u \in Obj /\ Shaded(S)[u] # col[u]
    BY <1>1, <1>6, LiveColours DEF Marks, Obj
  <2>2. \A r \in Refs(u) : Shaded(S)[r] \in Reached
    BY <1>1, <2>1, ShadedLeaf
  <2>. QED BY <1>2, <1>3, <2>1, <2>2
<1>. QED BY <1>4, <1>5, <1>6

\* weak tables are where they were
LEMMA TravTab ==
  ASSUME UNCHANGED <<mt, ent, meta>>, NEW t \in Tab
  PROVE  Trav(t)' = Trav(t)
BY DEF Trav, Mode, Keys, Vals, Objs

LEMMA TravOf ==
  /\ \A t \in Tab : Mode(t) = {} => Trav(t) = Refs(t)
  /\ \A f \in Func : Trav(f) = Refs(f)
  /\ \A th \in Thread : Trav(th) = Objs({env[th]} \cup LiveSlots(th))
  /\ \A o \in Obj : Trav(o) \subseteq Refs(o)
<1>1. ASSUME NEW t \in Tab PROVE Trav(t) \subseteq Refs(t) /\ (Mode(t) = {} => Trav(t) = Refs(t))
  <2>1. Refs(t) = Objs({mt[t]} \cup Keys(t) \cup Vals(t))
    BY RefsOf
  <2>. DEFINE K == IF "k" \in Mode(t) THEN {} ELSE Keys(t)
              V == IF "v" \in Mode(t) THEN {} ELSE Vals(t)
  <2>2. Trav(t) = Objs({mt[t]} \cup K \cup V)
    BY Kinds DEF Trav
  <2>3. Trav(t) \subseteq Refs(t)
    <3>1. K \subseteq Keys(t) /\ V \subseteq Vals(t)
      OBVIOUS
    <3>. HIDE DEF K, V
    <3>. QED BY <2>1, <2>2, <3>1 DEF Objs
  <2>4. ASSUME Mode(t) = {} PROVE Trav(t) = Refs(t)
    <3>1. Trav(t) = Objs({mt[t]} \cup Keys(t) \cup Vals(t))
      BY <2>2, <2>4
    <3>. QED BY <2>1, <3>1
  <2>. QED BY <2>3, <2>4
<1>2. \A f \in Func : Trav(f) = Refs(f)
  BY RefsOf, Kinds DEF Trav
<1>3. \A th \in Thread : Trav(th) = Objs({env[th]} \cup LiveSlots(th))
  BY Kinds DEF Trav
<1>4. \A th \in Thread : Trav(th) \subseteq Refs(th)
  BY <1>3, RefsOf DEF Objs, LiveSlots
<1>5. \A o \in Uv \cup Udata \cup Str : Trav(o) = {}
  BY Kinds DEF Trav, Objs
<1>. QED BY <1>1, <1>2, <1>3, <1>4, <1>5 DEF Obj


\* what every step of the mark phase does that shades S, and X on its own
Shades(S, X) ==
  /\ Marks /\ Kept /\ (Marking \/ InAtomic) /\ mmudata \subseteq mmudata'
  /\ \A o \in Obj \ X : col'[o] = Shaded(S)[o]
  /\ \A o \in Obj \cap X : col'[o] \in Reached
  /\ X \cap Uv = {}

\* the first part of AtomicOK
OpenUvsMarked ==
  InAtomic => \A u \in Uv : uvth[u] # Closed /\ isgray(u) => Refs(u) \subseteq Nonwhite

LEMMA ShadesSafe ==
  ASSUME TypeOK, TypeOK', Safe, NEW S, NEW X, Shades(S, X)
  PROVE  /\ FreeWiped' /\ OpenUvOK' /\ PendingLive' /\ PhaseOK' /\ NoDangling'
         /\ S \cap Heap \subseteq Nonwhite' /\ Nonwhite \subseteq Nonwhite'
         /\ (\A o \in X \ mmudata' : col'[o] = "black" => Refs(o) \subseteq Nonwhite') => Wavefront'
         /\ InAtomic => OpenUvsMarked'
         /\ (\A u \in Uv : uvth[u] # Closed /\ isgray(u) => Refs(u) \subseteq Nonwhite')
              => OpenUvsMarked'
         /\ \A o \in Obj : Refs(o)' \subseteq Refs(o)
<1>1. /\ FreeWiped' /\ OpenUvOK' /\ PendingLive' /\ PhaseOK' /\ NoDangling'
      /\ \A o \in Obj : Refs(o)' \subseteq Refs(o)
  BY MarksSafe DEF Shades
<1>2. /\ S \cap Heap \subseteq Nonwhite'
      /\ \A o \in Obj \ X : col'[o] = "black" /\ col[o] # "black" => Refs(o) \subseteq Nonwhite'
      /\ \A u \in Uv \ X : col'[u] = "gray" /\ col[u] # "gray" => Refs(u) \subseteq Nonwhite'
  BY ShadingReaches DEF Shades
<1>3. Nonwhite \subseteq Nonwhite'
  BY LiveColours, LiveColoursAfter DEF Shades, Kept
<1>4. ASSUME \A o \in X \ mmudata' : col'[o] = "black" => Refs(o) \subseteq Nonwhite'
      PROVE  Wavefront'
  <2>1. \A o \in Obj \ mmudata' : col'[o] = "black" =>
          \/ col[o] = "black" /\ Refs(o)' \subseteq Refs(o) \cup Nonwhite'
          \/ Refs(o)' \subseteq Nonwhite'
    BY <1>1, <1>2, <1>4
  <2>. QED BY <2>1, KeptWavefront DEF Shades, Safe
<1>5. ASSUME \/ InAtomic
             \/ \A u \in Uv : uvth[u] # Closed /\ isgray(u) => Refs(u) \subseteq Nonwhite'
      PROVE  OpenUvsMarked'
  <2>1. \A u \in Uv : uvth[u] # Closed /\ isgray(u) => Refs(u) \subseteq Nonwhite'
    BY <1>3, <1>5 DEF Safe, AtomicOK
  <2>2. ASSUME NEW u \in Uv, uvth'[u] # Closed, isgray(u)' PROVE Refs(u)' \subseteq Nonwhite'
    <3>1. u \in Obj /\ u \notin X /\ uvth[u] # Closed /\ col'[u] = "gray"
      BY <2>2 DEF Shades, Marks, isgray, Obj
    <3>. QED BY <1>1, <1>2, <2>1, <3>1 DEF isgray
  <2>. QED BY <2>2 DEF OpenUvsMarked
<1>. QED BY <1>1, <1>2, <1>3, <1>4, <1>5

LEMMA ShadedNone == TypeOK => \A o \in Obj : Shaded({})[o] = col[o]
BY DEF Shaded, Marked, Objs

LEMMA MarkStartSafe ==
  ASSUME TypeOK, TypeOK', Safe, gc_mark_start
  PROVE  Safe'
<1>. DEFINE S == Objs({Main, Reg, env[Main], basemt})
<1>1. /\ gcstate = "pause" /\ gcstate' = "propagate"
      /\ col' = Shaded(S)
      /\ UNCHANGED <<white, unswept, mmudata, fin, graph, thvars>>
  BY DEF gc_mark_start, Paused
<1>. HIDE DEF S
<1>2. \A o \in Obj : Shaded(S)[o] = col[o] \/ (col[o] # "free" /\ Shaded(S)[o] \in Reached)
  BY DEF Shaded, Marked, MarkColour, Reached, iswhite
<1>3. Marks
  <2>1. mmudata \subseteq Heap
    BY LiveColours DEF Safe, PendingLive
  <2>. QED BY <1>1, <1>2, <2>1 DEF Marks, graph, thvars, Sweeping
<1>4. /\ FreeWiped' /\ OpenUvOK' /\ PendingLive' /\ PhaseOK' /\ NoDangling'
      /\ \A o \in Obj : Refs(o)' \subseteq Refs(o)
  BY <1>3, MarksSafe
<1>5. /\ S \cap Heap \subseteq Nonwhite'
      /\ \A o \in Obj : col'[o] = "black" /\ col[o] # "black" => Refs(o) \subseteq Nonwhite'
  <2>1. \A o \in Obj \ {} : col'[o] = Shaded(S)[o]
    BY <1>1
  <2>2. \A o \in Obj \cap {} : col'[o] \in Reached
    OBVIOUS
  <2>3. \A o \in Obj \ {} : col'[o] = "black" /\ col[o] # "black" => Refs(o) \subseteq Nonwhite'
    BY <1>3, <2>1, <2>2, ShadingReaches
  <2>4. S \cap Heap \subseteq Nonwhite'
    BY <1>3, <2>1, <2>2, ShadingReaches
  <2>. QED BY <2>3, <2>4
<1>6. {Main, Reg} \subseteq Nonwhite'
  <2>1. {Main, Reg} \subseteq S
    BY Permanent DEF S, Objs, Obj
  <2>2. {Main, Reg} \subseteq Heap
    BY Permanent, LiveColours DEF Safe, NoDangling, Roots, Objs, Obj
  <2>. QED BY <1>5, <2>1, <2>2
<1>7. Wavefront'
  <2>1. \A o \in Obj \ mmudata : col[o] # "black"
    BY <1>1 DEF Safe, PhaseOK, Heap, TypeOK
  <2>2. \A o \in Obj \ mmudata' : isblack(o)' => Refs(o)' \subseteq Nonwhite'
    BY <1>1, <1>4, <1>5, <2>1 DEF isblack
  <2>. QED BY <1>6, <2>2, LiveColoursAfter DEF Wavefront
<1>8. AtomicOK'
  BY <1>1 DEF AtomicOK, InAtomic
<1>. QED BY <1>4, <1>7, <1>8 DEF Safe


\* in a mark phase a program has left no pointer into memory that is not allocated
LEMMA MarkingHeap ==
  ASSUME TypeOK, Safe, Marking \/ InAtomic
  PROVE  /\ Live = Heap /\ \A o \in Heap : Refs(o) \subseteq Heap
         /\ Roots \subseteq Heap /\ mmudata \subseteq Heap
         /\ ~Sweeping /\ gcstate \notin {"pause", "finalize"}
<1>1. ~Sweeping /\ gcstate \notin {"pause", "finalize"}
  BY DEF Sweeping, Marking, InAtomic
<1>2. Live = Heap
  BY <1>1 DEF Safe, PhaseOK, Live
<1>. QED BY <1>1, <1>2 DEF Safe, NoDangling, PendingLive

LEMMA PropagateShades ==
  ASSUME TypeOK, TypeOK', Lists, Safe, NEW o \in Obj, propagatemark(o)
  PROVE  /\ Shades(Trav(o), {o}) /\ o \in gray /\ Trav(o) \subseteq Heap
         /\ o \in Tab \cup Func \cup Thread
         /\ UNCHANGED <<gcstate, mmudata>>
<1>1. o \in gray /\ (Marking \/ InAtomic)
  BY DEF propagatemark, First, Marking
<1>2. o \in Container /\ isgray(o)
  BY <1>1 DEF Lists, ListsWhileMarking
<1>3. Live = Heap /\ o \in Heap /\ Refs(o) \subseteq Heap /\ mmudata \subseteq Heap
  BY <1>1, <1>2, MarkingHeap, LiveColours DEF isgray
<1>4. Trav(o) \subseteq Heap
  BY <1>3, TravOf
<1>. DEFINE S == Trav(o)
<1>5. /\ \A x \in Obj \ {o} : col'[x] = Shaded(S)[x]
      /\ col'[o] \in Reached
      /\ UNCHANGED <<gcstate, mmudata>>
  BY ShadedType DEF propagatemark, Reached, colvars
<1>. HIDE DEF S
<1>6. \A x \in Obj : col'[x] = col[x] \/ (col[x] # "free" /\ col'[x] \in Reached)
  <2>1. \A x \in Obj : Shaded(S)[x] = col[x] \/ (col[x] # "free" /\ Shaded(S)[x] \in Reached)
    BY DEF Shaded, Marked, MarkColour, Reached, iswhite
  <2>. QED BY <1>2, <1>5, <2>1 DEF isgray
<1>7. Marks
  <2>1. \A th \in Thread : \A i \in Slots : stk'[th][i] \in {stk[th][i], Nil}
    BY DEF propagatemark, TypeOK
  <2>2. ~Sweeping /\ ~Sweeping' /\ gcstate' \notin {"pause", "finalize"}
    BY <1>1, <1>5, MarkingHeap DEF Sweeping
  <2>3. UNCHANGED <<white, mt, env, ent, meta, fuv, uvth, uvix, uval, top, basemt, cur, jit, fin>>
    BY DEF propagatemark, colvars, graph
  <2>. QED BY <1>3, <1>5, <1>6, <2>1, <2>2, <2>3 DEF Marks
<1>8. o \notin Uv
  BY <1>2, Kinds DEF Container
<1>9. Shades(S, {o})
  BY <1>1, <1>5, <1>7, <1>8, MarkKeeps DEF Shades
<1>. QED BY <1>1, <1>2, <1>4, <1>5, <1>9 DEF S, Container

LEMMA PropagateSafe ==
  ASSUME TypeOK, TypeOK', Lists, Safe, NEW o \in Obj, propagatemark(o)
  PROVE  Safe'
<1>1. /\ Shades(Trav(o), {o}) /\ o \in gray /\ Trav(o) \subseteq Heap
      /\ o \in Tab \cup Func \cup Thread
      /\ UNCHANGED <<gcstate, mmudata>>
  BY PropagateShades
<1>2. /\ FreeWiped' /\ OpenUvOK' /\ PendingLive' /\ PhaseOK' /\ NoDangling'
      /\ Trav(o) \subseteq Nonwhite' /\ Nonwhite \subseteq Nonwhite'
      /\ \A x \in Obj : Refs(x)' \subseteq Refs(x)
      /\ (col'[o] = "black" => Refs(o) \subseteq Nonwhite') => Wavefront'
      /\ InAtomic => OpenUvsMarked'
  <2>. HIDE DEF OpenUvsMarked
  <2>. QED BY <1>1, ShadesSafe
<1>3. Wavefront'
  <2>1. ASSUME col'[o] = "black" PROVE Refs(o) = Trav(o)
    <3>1. ~((o \in Tab /\ Mode(o) # {}) \/ o \in Thread)
      BY <2>1, ShadedType DEF propagatemark
    <3>. QED BY <1>1, <3>1, TravOf
  <2>. QED BY <1>2, <2>1
<1>4. AtomicOK'
  <2>1. OpenUvsMarked'
    BY <1>1, <1>2 DEF OpenUvsMarked, InAtomic
  <2>2. ASSUME gcstate \in {"atomic_weak", "atomic_again", "atomic_ud"}
        PROVE  Objs({basemt, cur})' \subseteq Nonwhite' /\ \A t \in weak' : Trav(t)' \subseteq Nonwhite'
    <3>1. Objs({basemt, cur})' \subseteq Nonwhite'
      BY <1>2, <2>2 DEF Safe, AtomicOK, Objs, propagatemark
    <3>2. \A t \in weak' : t \in Tab /\ (t \in weak \/ t = o)
      BY DEF propagatemark, TypeOK
    <3>3. \A t \in weak' : Trav(t)' = Trav(t)
      BY <3>2, TravTab DEF propagatemark, graph
    <3>. QED BY <1>2, <2>2, <3>1, <3>2, <3>3 DEF Safe, AtomicOK
  <2>3. ASSUME gcstate \in {"atomic_again", "atomic_ud"}
        PROVE  grayagain' \subseteq Thread /\ \A th \in grayagain' : Refs(th)' \subseteq Nonwhite'
    <3>1. grayagain' = IF o \in Thread THEN grayagain \cup {o} ELSE grayagain
      BY DEF propagatemark
    <3>2. ASSUME o \in Thread PROVE Refs(o)' \subseteq Trav(o)
      <4>1. InAtomic
        BY <2>3 DEF InAtomic
      <4>2. \A i \in Slots : stk'[o][i] = IF i <= top[o] THEN stk[o][i] ELSE Nil
        BY <3>2, <4>1 DEF propagatemark, TypeOK
      <4>3. env' = env
        BY DEF propagatemark, graph
      <4>. QED BY <3>2, <4>2, <4>3, RefsOfAfter, TravOf, Kinds DEF Objs, LiveSlots
    <3>. QED BY <1>2, <2>3, <3>1, <3>2 DEF Safe, AtomicOK, Obj
  <2>4. ASSUME gcstate = "atomic_ud"
        PROVE  mmudata \subseteq Nonwhite' /\ \A u \in mmudata : Refs(u)' \subseteq Nonwhite'
    BY <1>2, <2>4 DEF Safe, AtomicOK, TypeOK, Obj
  <2>. QED BY <1>1, <2>1, <2>2, <2>3, <2>4 DEF AtomicOK, OpenUvsMarked
<1>. QED BY <1>2, <1>3, <1>4 DEF Safe


\* the steps of atomic() that mark on behalf of no object
LEMMA AtomicShades ==
  ASSUME TypeOK, Safe, NEW S, Marking \/ InAtomic, Marking' \/ InAtomic',
         UNCHANGED <<white, mmudata, fin, graph, thvars>>,
         \A o \in Obj : col'[o] = Shaded(S)[o], Kept
  PROVE  Shades(S, {})
<1>1. \A o \in Obj : Shaded(S)[o] = col[o] \/ (col[o] # "free" /\ Shaded(S)[o] \in Reached)
  BY DEF Shaded, Marked, MarkColour, Reached, iswhite
<1>2. /\ ~Sweeping /\ ~Sweeping' /\ gcstate' \notin {"pause", "finalize"}
      /\ mmudata \subseteq Heap
  BY MarkingHeap DEF Sweeping, Marking, InAtomic
<1>3. Marks
  BY <1>1, <1>2 DEF Marks, graph, thvars
<1>. QED BY <1>3 DEF Shades

LEMMA EndSafe ==
  ASSUME TypeOK, TypeOK', Safe, propagate_end
  PROVE  Safe'
<1>1. Shades({}, {})
  BY AtomicShades, ShadedNone, MarkKeeps DEF propagate_end, Marking
<1>2. Wavefront'
  BY <1>1, ShadesSafe
<1>3. AtomicOK'
  BY DEF propagate_end, AtomicOK, InAtomic
<1>. QED BY <1>1, <1>2, <1>3, ShadesSafe DEF Safe

LEMMA AtomicUvSafe ==
  ASSUME TypeOK, TypeOK', Safe, atomic_mark_uv
  PROVE  Safe'
<1>. DEFINE S == Objs({uvval(u) : u \in {w \in Uv : uvth[w] # Closed /\ isgray(w)}})
<1>1. /\ gcstate = "atomic" /\ gcstate' = "atomic_uv" /\ col' = Shaded(S)
      /\ UNCHANGED <<white, mmudata, fin, graph, thvars>>
  BY DEF atomic_mark_uv
<1>2. \A u \in Uv : uvth[u] # Closed /\ isgray(u) => Refs(u) \subseteq S
  BY RefsOf DEF Objs
<1>. HIDE DEF S
<1>3. Shades(S, {})
  BY <1>1, AtomicShades, MarkKeeps DEF Marking, InAtomic
<1>4. /\ FreeWiped' /\ OpenUvOK' /\ PendingLive' /\ PhaseOK' /\ NoDangling' /\ Wavefront'
      /\ S \cap Heap \subseteq Nonwhite'
      /\ (\A u \in Uv : uvth[u] # Closed /\ isgray(u) => Refs(u) \subseteq Nonwhite')
           => OpenUvsMarked'
  <2>. HIDE DEF OpenUvsMarked
  <2>. QED BY <1>3, ShadesSafe
<1>5. \A u \in Uv : uvth[u] # Closed /\ isgray(u) => Refs(u) \subseteq Heap
  BY <1>1, MarkingHeap DEF Marking, isgray, Heap, Obj
<1>6. OpenUvsMarked'
  BY <1>2, <1>4, <1>5
<1>7. AtomicOK'
  BY <1>1, <1>6 DEF AtomicOK, OpenUvsMarked
<1>. QED BY <1>4, <1>7 DEF Safe

LEMMA AtomicWeakSafe ==
  ASSUME TypeOK, TypeOK', Safe, atomic_weak
  PROVE  Safe'
<1>1. /\ gcstate = "atomic_uv" /\ gcstate' = "atomic_weak" /\ col' = Shaded(RootsAgain)
      /\ weak' = {} /\ UNCHANGED <<white, mmudata, fin, graph, thvars>>
  BY DEF atomic_weak
<1>2. Shades(RootsAgain, {})
  <2>. HIDE DEF RootsAgain
  <2>. QED BY <1>1, AtomicShades, MarkKeeps DEF InAtomic
<1>3. /\ FreeWiped' /\ OpenUvOK' /\ PendingLive' /\ PhaseOK' /\ NoDangling' /\ Wavefront'
      /\ RootsAgain \cap Heap \subseteq Nonwhite'
      /\ InAtomic => OpenUvsMarked'
  <2>. HIDE DEF OpenUvsMarked
  <2>. QED BY <1>2, ShadesSafe
<1>4. Objs({basemt, cur})' \subseteq Nonwhite'
  <2>1. RootsAgain \subseteq Heap
    BY <1>1, MarkingHeap DEF InAtomic, RootsAgain, Roots, Objs
  <2>. QED BY <1>1, <1>3, <2>1 DEF RootsAgain, Objs, thvars
<1>5. AtomicOK'
  BY <1>1, <1>3, <1>4 DEF AtomicOK, OpenUvsMarked, InAtomic
<1>. QED BY <1>3, <1>5 DEF Safe

LEMMA AtomicAgainSafe ==
  ASSUME TypeOK, TypeOK', Safe, atomic_grayagain
  PROVE  Safe'
<1>1. /\ gcstate = "atomic_weak" /\ gcstate' = "atomic_again" /\ col' = col
      /\ grayagain' = {} /\ weak' = weak /\ UNCHANGED <<white, mmudata, fin, graph, thvars>>
  BY DEF atomic_grayagain
<1>2. Shades({}, {})
  BY <1>1, AtomicShades, ShadedNone, MarkKeeps DEF InAtomic
<1>3. /\ FreeWiped' /\ OpenUvOK' /\ PendingLive' /\ PhaseOK' /\ NoDangling' /\ Wavefront'
      /\ InAtomic => OpenUvsMarked'
      /\ Nonwhite \subseteq Nonwhite'
  <2>. HIDE DEF OpenUvsMarked
  <2>. QED BY <1>2, ShadesSafe
<1>4. Objs({basemt, cur})' \subseteq Nonwhite' /\ \A t \in weak' : Trav(t)' \subseteq Nonwhite'
  <2>1. \A t \in weak : Trav(t)' = Trav(t)
    BY <1>1, TravTab DEF graph, TypeOK
  <2>. QED BY <1>1, <1>3, <2>1 DEF Safe, AtomicOK, Objs, thvars
<1>5. AtomicOK'
  BY <1>1, <1>3, <1>4 DEF AtomicOK, OpenUvsMarked, InAtomic
<1>. QED BY <1>3, <1>5 DEF Safe

LEMMA SeparateSafe ==
  ASSUME TypeOK, TypeOK', Safe, lj_gc_separateudata
  PROVE  Safe'
<1>1. PICK all, S :
        /\ all = mmudata \cup {u \in {x \in Udata : Separable(x)} : HasGC(u)}
        /\ S = Objs(UNION {{mt[u], env[u]} : u \in all})
        /\ col' = [o \in Obj |-> IF o \in all THEN "black" ELSE Shaded(S)[o]]
        /\ mmudata' = all /\ fin' = fin \cup {x \in Udata : Separable(x)}
  BY Zenon DEF lj_gc_separateudata
<1>2. /\ gcstate = "atomic_again" /\ gcstate' = "atomic_ud"
      /\ UNCHANGED <<white, grayagain, weak, graph, thvars>>
  BY DEF lj_gc_separateudata
<1>3. /\ Live = Heap /\ (\A o \in Heap : Refs(o) \subseteq Heap)
      /\ Roots \subseteq Heap /\ mmudata \subseteq Heap
  BY <1>2, MarkingHeap DEF InAtomic
<1>4. \A x \in Udata : Separable(x) => x \in Heap
  BY DEF Separable, iswhite, Heap, Obj
<1>5. all \subseteq Heap /\ all \subseteq Udata
  BY <1>1, <1>3, <1>4 DEF TypeOK
<1>6. \A u \in all : Refs(u) \subseteq S
  BY <1>1, <1>5, RefsOf DEF Objs
<1>7. Shades(S, all)
  <2>1. \A o \in Obj : Shaded(S)[o] = col[o] \/ (col[o] # "free" /\ Shaded(S)[o] \in Reached)
    BY DEF Shaded, Marked, MarkColour, Reached, iswhite
  <2>2. \A o \in Obj : col'[o] = col[o] \/ (col[o] # "free" /\ col'[o] \in Reached)
    BY <1>1, <1>5, <2>1 DEF Reached, Heap
  <2>3. fin' \subseteq fin \cup Heap
    BY <1>1, <1>4
  <2>4. Marks
    BY <1>1, <1>2, <1>5, <2>2, <2>3 DEF Marks, graph, thvars, Sweeping
  <2>5. all \cap Uv = {} /\ mmudata \subseteq all
    BY <1>1, <1>5, Kinds
  <2>. QED BY <1>1, <1>2, <2>4, <2>5, MarkKeeps DEF Shades, InAtomic, Reached
<1>8. /\ FreeWiped' /\ OpenUvOK' /\ PendingLive' /\ PhaseOK' /\ NoDangling'
      /\ S \cap Heap \subseteq Nonwhite' /\ Nonwhite \subseteq Nonwhite'
      /\ (\A o \in all \ mmudata' : col'[o] = "black" => Refs(o) \subseteq Nonwhite') => Wavefront'
      /\ InAtomic => OpenUvsMarked'
      /\ \A o \in Obj : Refs(o)' \subseteq Refs(o)
  <2>. HIDE DEF OpenUvsMarked
  <2>. QED BY <1>7, ShadesSafe
<1>9. Wavefront'
  BY <1>1, <1>8
<1>10. AtomicOK'
  <2>1. OpenUvsMarked'
    BY <1>2, <1>8 DEF InAtomic
  <2>2. Objs({basemt, cur})' \subseteq Nonwhite' /\ \A t \in weak' : Trav(t)' \subseteq Nonwhite'
    <3>1. \A t \in weak : Trav(t)' = Trav(t)
      BY <1>2, TravTab DEF graph, TypeOK
    <3>. QED BY <1>2, <1>8, <3>1 DEF Safe, AtomicOK, Objs, thvars
  <2>3. grayagain' \subseteq Thread /\ \A th \in grayagain' : Refs(th)' \subseteq Nonwhite'
    BY <1>2, <1>8 DEF Safe, AtomicOK, Obj
  <2>4. all \subseteq Nonwhite'
    BY <1>1, <1>5, LiveColoursAfter DEF Reached, Heap
  <2>5. \A u \in all : Refs(u)' \subseteq Nonwhite'
    <3>. \A u \in all : u \in Obj /\ u \in Heap
      BY <1>5 DEF Heap
    <3>. QED BY <1>3, <1>6, <1>8
  <2>. QED BY <1>1, <1>2, <2>1, <2>2, <2>3, <2>4, <2>5 DEF AtomicOK, OpenUvsMarked
<1>. QED BY <1>8, <1>9, <1>10 DEF Safe


(***************************************************************************)
(* The collector: sweep phase                                              *)
(***************************************************************************)

\* what atomic() leaves in a weak table outlives the flip
LEMMA ClearedEntries ==
  ASSUME TypeOK, NEW t \in weak, \A e \in ent[t] : Objs({e[1], e[2]}) \subseteq Heap,
         NEW e \in ent[t], ~clearable(e)
  PROVE  Objs({e[1], e[2]}) \subseteq Nonwhite \cup (Str \cap weakstrs(t))
<1>1. ~mayclear(e[1], FALSE) /\ ~mayclear(e[2], TRUE)
  BY DEF clearable
<1>2. e[1] \in weakstrs(t) /\ e[2] \in weakstrs(t)
  BY <1>1 DEF weakstrs
<1>3. \A v \in Heap : iswhite(v) \/ v \in Nonwhite
  BY DEF Nonwhite
<1>4. Objs({e[1], e[2]}) \subseteq Heap
  OBVIOUS
<1>. QED BY <1>1, <1>2, <1>3, <1>4 DEF mayclear, Objs

\* the flip condemns what is white, and only that
LEMMA FlipKeepsRefs ==
  ASSUME TypeOK, Lists, Regular, Safe, atomic_end
  PROVE  LET strs == Str \cap UNION {weakstrs(t) : t \in weak}
         IN  \A o \in Nonwhite : Refs(o)' \subseteq Nonwhite \cup strs
<1>. DEFINE strs == Str \cap UNION {weakstrs(t) : t \in weak}
<1>1. /\ gcstate = "atomic_ud" /\ gray = {} /\ InAtomic
      /\ ent' = [t \in Tab |-> IF t \in weak THEN {e \in ent[t] : ~clearable(e)} ELSE ent[t]]
      /\ UNCHANGED <<mt, env, meta, fuv, uvth, uvix, uval, thvars>>
  BY DEF atomic_end, InAtomic
<1>2. /\ Live = Heap /\ \A o \in Heap : Refs(o) \subseteq Heap
  BY <1>1, MarkingHeap
<1>3. \A u \in Uv : uvval(u)' = uvval(u)
  BY <1>1 DEF uvval, thvars
<1>4. \A o \in Obj : Refs(o)' \subseteq Refs(o)
  <2>1. \A t \in Tab : ent'[t] \subseteq ent[t]
    BY <1>1
  <2>2. Written({})
    BY <1>1, <1>3, <2>1 DEF Written, thvars
  <2>. QED BY <2>2, WrittenRefs
<1>5. /\ \A o \in Heap \ mmudata : isblack(o) => Refs(o) \subseteq Nonwhite
      /\ \A u \in mmudata : Refs(u) \subseteq Nonwhite
      /\ \A u \in Uv : uvth[u] # Closed /\ isgray(u) => Refs(u) \subseteq Nonwhite
      /\ \A th \in grayagain : Refs(th) \subseteq Nonwhite
      /\ \A t \in weak : Trav(t) \subseteq Nonwhite
  BY <1>1 DEF Safe, Wavefront, AtomicOK
<1>6. \A o \in Nonwhite : o \in Obj /\ o \in Heap /\ (isblack(o) \/ isgray(o))
  BY DEF Nonwhite, Heap, iswhite, isblack, isgray, TypeOK
<1>7. ASSUME NEW t \in weak, t \in Heap PROVE Refs(t)' \subseteq Nonwhite \cup strs
  <2>1. t \in Tab /\ Refs(t) = Objs({mt[t]} \cup Keys(t) \cup Vals(t)) /\ Refs(t) \subseteq Heap
    BY <1>2, <1>7, RefsOf DEF TypeOK
  <2>2. Objs({mt[t]}) \subseteq Nonwhite
    BY <1>5, <2>1, Kinds DEF Trav, Objs
  <2>3. \A e \in ent[t] : Objs({e[1], e[2]}) \subseteq Heap
    BY <2>1 DEF Keys, Vals, Objs
  <2>4. Str \cap weakstrs(t) \subseteq strs
    OBVIOUS
  <2>. HIDE DEF strs
  <2>5. \A e \in ent'[t] : Objs({e[1], e[2]}) \subseteq Nonwhite \cup strs
    BY <1>1, <2>1, <2>3, <2>4, ClearedEntries
  <2>6. Refs(t)' = Objs({mt[t]} \cup Keys(t)' \cup Vals(t)')
    BY <1>1, <2>1, RefsOfAfter
  <2>. QED BY <2>2, <2>5, <2>6 DEF Keys, Vals, Objs
<1>8. ASSUME NEW o \in Nonwhite PROVE Refs(o)' \subseteq Nonwhite \cup strs
  <2>1. CASE isblack(o)
    BY <1>4, <1>5, <1>6, <2>1
  <2>2. CASE isgray(o) /\ o \in Container
    BY <1>1, <1>4, <1>5, <1>6, <1>7, <2>2 DEF Lists, ListsWhileMarking
  <2>3. CASE isgray(o) /\ o \in Uv
    BY <1>4, <1>5, <1>6, <2>3 DEF Regular, ColourOK
  <2>4. CASE isgray(o) /\ o \in Udata
    BY <2>4 DEF Regular, ColourOK
  <2>5. CASE o \in Str
    BY <2>5, RefsOfAfter
  <2>. QED BY <1>6, <2>1, <2>2, <2>3, <2>4, <2>5 DEF Obj, Container
<1>. QED BY <1>8

LEMMA FlipSafe ==
  ASSUME TypeOK, TypeOK', Lists, Regular, Safe, atomic_end
  PROVE  Safe'
<1>1. PICK strs :
        /\ strs = Str \cap UNION {weakstrs(t) : t \in weak}
        /\ col' = [o \in Obj |-> IF o \in strs THEN "gray" ELSE col[o]]
        /\ \A o \in Nonwhite : Refs(o)' \subseteq Nonwhite \cup strs
  BY FlipKeepsRefs DEF atomic_end
<1>2. /\ gcstate = "atomic_ud" /\ gcstate' = "sweepstring" /\ InAtomic /\ gray = {}
      /\ white' = otherwhite /\ unswept' = Heap \ (mmudata \cup {u \in Uv : uvth[u] # Closed})
      /\ \A t \in Tab : ent'[t] \subseteq ent[t]
      /\ UNCHANGED <<mt, env, meta, fuv, uvth, uvix, uval, thvars, mmudata, fin>>
  BY DEF atomic_end, InAtomic
<1>3. Live = Heap /\ \A o \in Heap : Refs(o) \subseteq Heap
  BY <1>2, MarkingHeap
<1>4. strs \subseteq Heap
  <2>1. \A t \in weak : t \in Heap /\ t \in Tab
    BY <1>2 DEF Lists, ListsWhileMarking, isgray, Heap, TypeOK, Obj
  <2>2. \A t \in weak : Refs(t) = Objs({mt[t]} \cup Keys(t) \cup Vals(t))
    BY <2>1, RefsOf
  <2>3. \A t \in weak : weakstrs(t) \subseteq Keys(t) \cup Vals(t)
    BY DEF weakstrs, Keys, Vals
  <2>4. \A t \in weak : Str \cap weakstrs(t) \subseteq Heap
    BY <1>3, <2>1, <2>2, <2>3 DEF Objs, Obj
  <2>. QED BY <1>1, <2>4
<1>5. Live' = Nonwhite \cup strs /\ Heap' = Heap
  <2>1. \A o \in Obj : col[o] # otherwhite
    BY <1>3 DEF Live, Heap, isdead, otherwhite, TypeOK
  <2>2. \A o \in strs : o \in Obj /\ col[o] # "free"
    BY <1>4 DEF Heap
  <2>3. otherwhite \notin Reached
    BY DEF otherwhite, Reached
  <2>4. \A o \in Obj : col'[o] \in {white'} \cup Reached <=> (col[o] \in Reached \/ o \in strs)
    BY <1>1, <1>2, <2>1, <2>2, <2>3 DEF Reached
  <2>5. \A o \in Obj : col'[o] # "free" <=> col[o] # "free"
    BY <1>1, <2>2
  <2>6. Heap' = Heap
    BY <2>5, LiveColours, LiveColoursAfter
  <2>7. \A o : o \in Live' <=> (o \in Nonwhite \/ o \in strs)
    BY <2>2, <2>4, LiveColours, LiveColoursAfter
  <2>. QED BY <2>6, <2>7
<1>6. FreeWiped' /\ OpenUvOK'
  <2>1. \A t \in Tab : ent[t] = {} => ent'[t] = {}
    BY <1>2
  <2>. QED BY <1>2, <1>5, <2>1 DEF Safe, FreeWiped, OpenUvOK, thvars
<1>7. PendingLive'
  BY <1>2, <1>5 DEF Safe, AtomicOK, PendingLive
<1>8. NoDangling'
  <2>1. Roots' \subseteq Nonwhite
    <3>1. {Main, Reg} \cup Objs({basemt, cur}) \subseteq Nonwhite
      BY <1>2 DEF Safe, Wavefront, AtomicOK
    <3>2. jit = Off /\ Off \notin Obj
      BY <1>2, Kinds DEF Regular, NoTrace
    <3>3. Roots' = Roots
      BY <1>2 DEF Roots, thvars
    <3>. QED BY <3>1, <3>2, <3>3 DEF Roots, Objs
  <2>2. \A o \in strs : Refs(o)' = {}
    BY <1>1, RefsOfAfter
  <2>. QED BY <1>1, <1>5, <2>1, <2>2 DEF NoDangling
<1>9. PhaseOK'
  <2>1. \A u \in Uv : uvth[u] # Closed => uvth[u] \in unswept'
    BY <1>2, Kinds DEF Safe, OpenUvOK, TypeOK, Heap, Obj
  <2>. QED BY <1>2, <1>5, <2>1 DEF PhaseOK, Sweeping
<1>10. Wavefront' /\ AtomicOK'
  BY <1>2 DEF Wavefront, AtomicOK, Marking, InAtomic
<1>. QED BY <1>6, <1>7, <1>8, <1>9, <1>10 DEF Safe


LEMMA SweepStringSafe ==
  ASSUME TypeOK, TypeOK', Regular, Safe, NEW s \in Str, sweepstring(s)
  PROVE  Safe'
<1>1. /\ gcstate = "sweepstring" /\ s \in unswept /\ unswept' = unswept \ {s}
      /\ \A o \in Obj : o # s => col'[o] = col[o]
      /\ col'[s] = IF isdead(s) THEN "free" ELSE white
      /\ UNCHANGED <<gcstate, white, mmudata, fin, graph, thvars>>
  BY DEF sweepstring, TypeOK
<1>2. s \in Heap /\ s \in Obj /\ otherwhite # white
  BY <1>1 DEF Regular, UnsweptOK, otherwhite, TypeOK, Obj
<1>3. \A o \in Obj : col'[o] \in {white} \cup Reached <=> col[o] \in {white} \cup Reached
  BY <1>1, <1>2 DEF isdead, otherwhite, Reached, Heap, TypeOK
<1>4. Live' = Live
  BY <1>1, <1>3, LiveColours, LiveColoursAfter
<1>5. \A o \in Obj : o # s => (o \in Heap' <=> o \in Heap)
  BY <1>1 DEF Heap
<1>6. FreeWiped'
  <2>1. \A o \in Obj \ Heap' : o \notin Str => o \in Obj \ Heap
    BY <1>5
  <2>. QED BY <1>1, <2>1, Kinds DEF Safe, FreeWiped, graph, thvars
<1>7. OpenUvOK'
  <2>1. \A u \in Uv : uvth[u] # Closed => uvth[u] \in Obj /\ uvth[u] # s
    BY Kinds DEF TypeOK, Obj
  <2>. QED BY <1>1, <1>5, <2>1 DEF Safe, OpenUvOK, graph, thvars
<1>8. PendingLive'
  BY <1>1, <1>4 DEF Safe, PendingLive
<1>9. PhaseOK'
  <2>1. ASSUME NEW o \in Heap' \ mmudata
        PROVE  \/ col'[o] = white \/ o \in unswept'
               \/ (o \in Uv /\ uvth[o] # Closed /\ uvth[o] \in unswept')
    <3>1. CASE o = s
      BY <1>1, <3>1 DEF Heap
    <3>2. CASE o # s
      <4>1. o \in Heap \ mmudata /\ col'[o] = col[o]
        BY <1>1, <1>5, <3>2 DEF Heap
      <4>2. o \in Uv => uvth[o] # s
        BY Kinds DEF TypeOK, Obj
      <4>. QED BY <1>1, <3>2, <4>1, <4>2 DEF Safe, PhaseOK, Sweeping
    <3>. QED BY <3>1, <3>2
  <2>. QED BY <1>1, <2>1 DEF PhaseOK, Sweeping, graph
<1>10. NoDangling'
  <2>1. \A o \in Obj : Refs(o)' = Refs(o)
    <3>. \A u \in Uv : uvval(u)' = uvval(u)
      BY <1>1 DEF uvval, graph, thvars
    <3>. QED BY <1>1, SameRefs DEF graph, thvars
  <2>2. Roots' = Roots
    BY <1>1 DEF Roots, thvars
  <2>. QED BY <1>4, <2>1, <2>2 DEF Safe, NoDangling, Live, Heap
<1>11. Wavefront' /\ AtomicOK'
  BY <1>1 DEF Wavefront, AtomicOK, Marking, InAtomic
<1>. QED BY <1>6, <1>7, <1>8, <1>9, <1>10, <1>11 DEF Safe

\* steps between two phases of the sweep
LEMMA SweepEndsSafe ==
  ASSUME TypeOK, TypeOK', Regular, Safe,
         \/ sweepstring_end \/ gc_sweep_end \/ gc_finalize_end \/ fullgc_cycle \/ finalizer_error
  PROVE  Safe'
<1>1. /\ UNCHANGED <<white, col, mmudata, fin, graph, thvars>>
      /\ ~Marking' /\ ~InAtomic'
  BY DEF sweepstring_end, gc_sweep_end, gc_finalize_end, fullgc_cycle, finalizer_error,
         Marking, InAtomic
<1>2. /\ FreeWiped' /\ OpenUvOK' /\ PendingLive' /\ NoDangling'
      /\ Heap' = Heap /\ \A o : isdead(o)' = isdead(o)
  BY <1>1, SameHeap
<1>3. PhaseOK'
  <2>1. CASE sweepstring_end
    BY <1>1, <1>2, <2>1 DEF sweepstring_end, Safe, PhaseOK, Sweeping, graph
  <2>2. CASE gc_sweep_end
    <3>1. \A o \in Heap \ mmudata : col[o] = white
      BY <2>2 DEF gc_sweep_end, Safe, PhaseOK, Sweeping
    <3>2. \A o \in mmudata : ~isdead(o)
      BY DEF Safe, PendingLive, Live
    <3>3. \A o \in Heap : ~isdead(o)
      BY <3>1, <3>2 DEF isdead, otherwhite, TypeOK
    <3>4. ~Sweeping'
      BY <2>2 DEF gc_sweep_end, Sweeping
    <3>. QED BY <1>1, <1>2, <3>1, <3>3, <3>4 DEF PhaseOK
  <2>3. CASE gc_finalize_end \/ fullgc_cycle \/ finalizer_error
    <3>1. gcstate \in {"pause", "finalize"} /\ gcstate' \in {"pause", "finalize"}
      BY <2>3 DEF gc_finalize_end, fullgc_cycle, finalizer_error
    <3>. QED BY <1>1, <1>2, <3>1 DEF Safe, PhaseOK, Sweeping
  <2>. QED BY <2>1, <2>2, <2>3
<1>4. Wavefront' /\ AtomicOK'
  BY <1>1 DEF Wavefront, AtomicOK, InAtomic
<1>. QED BY <1>2, <1>3, <1>4 DEF Safe

LEMMA FinalizeSafe ==
  ASSUME TypeOK, TypeOK', Safe, NEW u \in Udata, gc_finalize(u)
  PROVE  Safe'
<1>1. /\ gcstate = "finalize" /\ u \in mmudata /\ mmudata' = mmudata \ {u}
      /\ \A o \in Obj : o # u => col'[o] = col[o]
      /\ u \in Obj /\ col'[u] = white
      /\ UNCHANGED <<gcstate, white, fin, graph, basemt, cur, jit>>
  BY DEF gc_finalize, TypeOK, Obj
<1>2. u \in Live
  BY <1>1 DEF Safe, PendingLive
<1>3. Live' = Live /\ Heap' = Heap
  BY <1>1, <1>2, LiveColours, LiveColoursAfter DEF Reached
<1>4. /\ \A th \in Thread : \A i \in Slots :
           \/ stk'[th][i] = stk[th][i]
           \/ th = cur /\ stk'[th][i] = u
      /\ \A th \in Thread : top'[th] >= top[th] /\ (th # cur => top'[th] = top[th])
  <2>1. CASE UNCHANGED <<stk, top>>
    BY <2>1 DEF TypeOK
  <2>2. CASE /\ top[cur] < NS
             /\ stk' = [stk EXCEPT ![cur][top[cur] + 1] = u]
             /\ top' = [top EXCEPT ![cur] = @ + 1]
    BY <2>2 DEF TypeOK
  <2>. QED BY <2>1, <2>2 DEF gc_finalize
<1>5. cur \in Live /\ cur \in Thread
  BY AvailLive DEF Safe, TypeOK
<1>6. FreeWiped'
  <2>1. \A o \in Obj \ Heap' : o \in Obj \ Heap /\ o # cur
    BY <1>3, <1>5, LiveColours
  <2>. QED BY <1>1, <1>4, <2>1 DEF Safe, FreeWiped, graph
<1>7. OpenUvOK'
  <2>1. \A w \in Uv : uvth[w] # Closed => uvth[w] \in Thread /\ uvth[w] \in Heap /\ uvix[w] <= top[uvth[w]]
    BY DEF Safe, OpenUvOK, TypeOK
  <2>2. \A w \in Uv : uvth[w] # Closed => uvix[w] <= top'[uvth[w]]
    <3>1. \A th \in Thread : top[th] \in Nat /\ top'[th] \in Nat
      BY Bounds DEF TypeOK
    <3>2. \A w \in Uv : uvix[w] \in Nat
      BY Bounds DEF TypeOK, Slots
    <3>. QED BY <1>4, <2>1, <3>1, <3>2
  <2>. QED BY <1>1, <1>3, <2>1, <2>2 DEF OpenUvOK, graph
<1>8. PendingLive'
  BY <1>1, <1>3 DEF Safe, PendingLive
<1>9. PhaseOK'
  <2>1. \A o \in Heap \ mmudata' : col'[o] = white
    BY <1>1 DEF Safe, PhaseOK, Heap
  <2>2. \A o \in Heap : ~isdead(o)'
    BY <1>3, <1>1 DEF Safe, PhaseOK, Sweeping, isdead, otherwhite, TypeOK, Heap
  <2>. QED BY <1>1, <1>3, <2>1, <2>2 DEF PhaseOK, Sweeping
<1>10. NoDangling'
  <2>1. \A th \in Thread : \A i \in Slots : stk'[th][i] \in {stk[th][i], Nil} \cup Live'
    BY <1>2, <1>3, <1>4
  <2>2. Written(Live')
    <3>1. \A w \in Uv : uvval(w)' \in {uvval(w), Nil} \cup Live'
      BY <1>1, <2>1, WrittenUvvals DEF graph
    <3>. QED BY <1>1, <2>1, <3>1 DEF Written, graph
  <2>3. Roots' = Roots /\ Roots \subseteq Live
    BY <1>1 DEF Roots, Safe, NoDangling
  <2>. QED BY <1>3, <2>2, <2>3, KeptNoDangling DEF Safe
<1>11. Wavefront' /\ AtomicOK'
  BY <1>1 DEF Wavefront, AtomicOK, Marking, InAtomic
<1>. QED BY <1>6, <1>7, <1>8, <1>9, <1>10, <1>11 DEF Safe


\* gc_sweep of one object: what it frees, what it closes
SweptSome(o, uvs, freed) ==
  /\ gcstate = "sweep" /\ o \in unswept /\ unswept' = unswept \ {o}
  /\ uvs = SweptWith(o) /\ freed = {u \in uvs \cup {o} : isdead(u)}
  /\ \A x \in Obj : col'[x] = IF x \in freed THEN "free"
                              ELSE IF x \in uvs \cup {o} THEN white ELSE col[x]
  /\ CloseUvs(IF o \in freed THEN uvs \ freed ELSE {}, freed \cap Uv)
  /\ \A x \in Tab \cup Udata : mt'[x] = IF x \in freed THEN Nil ELSE mt[x]
  /\ \A x \in Func \cup Udata \cup Thread : env'[x] = IF x \in freed THEN Nil ELSE env[x]
  /\ \A t \in Tab : /\ ent'[t] = IF t \in freed THEN {} ELSE ent[t]
                    /\ meta'[t] = IF t \in freed THEN {} ELSE meta[t]
  /\ \A f \in Func : fuv'[f] = IF f \in freed THEN Nil ELSE fuv[f]
  /\ \A th \in Thread : /\ stk'[th] = IF th \in freed THEN [i \in Slots |-> Nil] ELSE stk[th]
                        /\ top'[th] = IF th \in freed THEN 0 ELSE top[th]
  /\ fin' = fin \ freed
  /\ UNCHANGED <<gcstate, white, mmudata, basemt, cur, jit>>

LEMMA SweepSome ==
  ASSUME NEW o \in Obj, gc_sweep(o)
  PROVE  \E uvs, freed : SweptSome(o, uvs, freed)
<1>. DEFINE uvs == SweptWith(o)
            freed == {u \in uvs \cup {o} : isdead(u)}
<1>1. SweptSome(o, uvs, freed)
  BY DEF gc_sweep, First, SweptSome
<1>. QED BY <1>1

\* the upvalues it meets, and who is dead or alive afterwards
LEMMA SweptLive ==
  ASSUME TypeOK, TypeOK', UvInv, Regular, NEW o \in Obj, NEW uvs, NEW freed,
         SweptSome(o, uvs, freed)
  PROVE  /\ uvs \subseteq Uv /\ \A u \in uvs : uvth[u] = o /\ o \in Thread
         /\ \A u \in Uv : uvth[u] = o => u \in uvs
         /\ uvs \cup {o} \subseteq Heap /\ o \notin mmudata
         /\ freed \subseteq uvs \cup {o} /\ freed \cap Live = {}
         /\ Live' = Live /\ Heap' = Heap \ freed
<1>1. /\ uvs \subseteq Uv /\ \A u \in uvs : uvth[u] = o /\ o \in Thread
      /\ \A u \in Uv : uvth[u] = o => u \in uvs
  BY Kinds DEF SweptSome, SweptWith, OpenUvs, TypeOK, Obj
<1>2. uvs \cup {o} \subseteq Heap /\ o \notin mmudata
  <2>1. o \in Heap /\ o \notin mmudata
    BY DEF SweptSome, Regular, UnsweptOK
  <2>2. \A u \in uvs : uvth[u] # Closed
    BY <1>1, Kinds DEF Obj
  <2>. QED BY <1>1, <2>1, <2>2 DEF UvInv, OpenAllocated
<1>3. /\ freed \subseteq uvs \cup {o} /\ \A x \in uvs \cup {o} : x \in freed <=> isdead(x)
      /\ freed \cap Live = {}
  BY DEF SweptSome, Live
<1>4. \A x \in Obj : col'[x] \in {white} \cup Reached <=> col[x] \in {white} \cup Reached
  <2>1. /\ white \notin {otherwhite, "free"} /\ otherwhite \notin Reached /\ otherwhite # "free"
        /\ "free" \notin Reached
    BY DEF otherwhite, TypeOK, Reached
  <2>2. \A x \in uvs \cup {o} : x \in Obj /\ col[x] # "free" /\ (x \in freed <=> col[x] = otherwhite)
    BY <1>2, <1>3 DEF isdead, Heap
  <2>3. \A x \in Obj : col[x] \in {"free", white, otherwhite} \cup Reached
    BY DEF TypeOK, otherwhite, Reached
  <2>. QED BY <1>3, <2>1, <2>2, <2>3 DEF SweptSome
<1>5. Live' = Live
  <2>. white' = white
    BY DEF SweptSome
  <2>. QED BY <1>4, LiveColours, LiveColoursAfter
<1>6. \A x \in Obj : col'[x] # "free" <=> (col[x] # "free" /\ x \notin freed)
  <2>. white # "free" /\ \A x \in uvs \cup {o} : x \in Obj /\ col[x] # "free"
    BY <1>2 DEF TypeOK, Heap
  <2>. QED BY DEF SweptSome
<1>7. Heap' = Heap \ freed
  BY <1>6, LiveColours, LiveColoursAfter
<1>. QED BY <1>1, <1>2, <1>3, <1>5, <1>7


\* upvalues that live on keep their value, however their thread ends
LEMMA SweptUvvals ==
  ASSUME TypeOK, TypeOK', UvInv, Regular, NEW o \in Obj, NEW uvs, NEW freed,
         SweptSome(o, uvs, freed), NEW u \in Uv, u \notin freed
  PROVE  uvval(u)' = uvval(u)
<1>1. /\ uvs \subseteq Uv /\ (\A w \in uvs : uvth[w] = o /\ o \in Thread)
      /\ (\A w \in Uv : uvth[w] = o => w \in uvs)
      /\ freed \subseteq uvs \cup {o}
  BY SweptLive
<1>. DEFINE closing == IF o \in freed THEN uvs \ freed ELSE {}
<1>2. /\ uvth'[u] = IF u \in closing THEN Closed ELSE uvth[u]
      /\ uvix'[u] = IF u \in closing THEN 1 ELSE uvix[u]
      /\ uval'[u] = IF u \in closing THEN uvval(u) ELSE uval[u]
  BY DEF SweptSome, CloseUvs
<1>3. CASE u \in closing
  BY <1>2, <1>3 DEF uvval
<1>4. CASE u \notin closing /\ uvth[u] = Closed
  BY <1>2, <1>4 DEF uvval
<1>5. CASE u \notin closing /\ uvth[u] # Closed
  <2>1. uvth[u] \in Thread
    BY <1>5 DEF TypeOK
  <2>2. uvth[u] \notin freed
    BY <1>1, <1>5, <2>1, Kinds
  <2>3. stk'[uvth[u]] = stk[uvth[u]]
    BY <2>1, <2>2 DEF SweptSome
  <2>. QED BY <1>2, <1>5, <2>3 DEF uvval
<1>. QED BY <1>3, <1>4, <1>5

LEMMA SweptWiped ==
  ASSUME TypeOK, TypeOK', UvInv, Regular, Safe, NEW o \in Obj, NEW uvs, NEW freed,
         SweptSome(o, uvs, freed)
  PROVE  FreeWiped'
<1>1. Heap' = Heap \ freed /\ uvs \subseteq Heap /\ uvs \subseteq Uv
  BY SweptLive
<1>2. ASSUME NEW x \in freed, x \in Obj
      PROVE  /\ x \in Tab => mt'[x] = Nil /\ ent'[x] = {} /\ meta'[x] = {}
             /\ x \in Udata => mt'[x] = Nil /\ env'[x] = Nil /\ x \notin fin'
             /\ x \in Func => env'[x] = Nil /\ fuv'[x] = Nil
             /\ x \in Thread => env'[x] = Nil /\ top'[x] = 0 /\ \A i \in Slots : stk'[x][i] = Nil
             /\ x \in Uv => uvth'[x] = Closed /\ uval'[x] = Nil
  <2>1. x \in Thread => \A i \in Slots : stk'[x][i] = Nil
    BY <1>2 DEF SweptSome
  <2>2. x \in Uv => uvth'[x] = Closed /\ uval'[x] = Nil
    BY <1>2 DEF SweptSome, CloseUvs
  <2>. QED BY <1>2, <2>1, <2>2 DEF SweptSome
<1>3. ASSUME NEW x \in Obj \ Heap, x \notin freed
      PROVE  /\ x \in Tab => mt'[x] = Nil /\ ent'[x] = {} /\ meta'[x] = {}
             /\ x \in Udata => mt'[x] = Nil /\ env'[x] = Nil /\ x \notin fin'
             /\ x \in Func => env'[x] = Nil /\ fuv'[x] = Nil
             /\ x \in Thread => env'[x] = Nil /\ top'[x] = 0 /\ \A i \in Slots : stk'[x][i] = Nil
             /\ x \in Uv => uvth'[x] = Closed /\ uval'[x] = Nil
  <2>1. x \in Uv => uvth'[x] = uvth[x] /\ uval'[x] = uval[x]
    BY <1>1, <1>3 DEF SweptSome, CloseUvs
  <2>2. x \in Thread => stk'[x] = stk[x]
    BY <1>3 DEF SweptSome
  <2>. QED BY <1>3, <2>1, <2>2 DEF SweptSome, Safe, FreeWiped
<1>. QED BY <1>1, <1>2, <1>3 DEF FreeWiped

LEMMA SweptPhase ==
  ASSUME TypeOK, TypeOK', UvInv, Regular, Safe, NEW o \in Obj, NEW uvs, NEW freed,
         SweptSome(o, uvs, freed)
  PROVE  PhaseOK'
<1>1. /\ uvs \subseteq Uv /\ (\A u \in uvs : uvth[u] = o /\ o \in Thread)
      /\ (\A u \in Uv : uvth[u] = o => u \in uvs)
      /\ freed \subseteq uvs \cup {o} /\ Heap' = Heap \ freed /\ Heap \subseteq Obj
  BY SweptLive, LiveColours
<1>2. gcstate = "sweep" /\ gcstate' = "sweep" /\ unswept' = unswept \ {o}
      /\ mmudata' = mmudata /\ white' = white
  BY DEF SweptSome
<1>3. ASSUME NEW x \in Heap' \ mmudata'
      PROVE  \/ col'[x] = white' \/ x \in unswept'
             \/ (x \in Uv /\ uvth'[x] # Closed /\ uvth'[x] \in unswept')
  <2>1. x \in Heap \ mmudata /\ x \notin freed /\ x \in Obj
    BY <1>1, <1>2
  <2>2. CASE x \in uvs \cup {o}
    BY <1>2, <2>1, <2>2 DEF SweptSome
  <2>3. CASE x \notin uvs \cup {o}
    <3>1. col'[x] = col[x] /\ (x \in Uv => uvth'[x] = uvth[x] /\ uvth[x] # o)
      BY <1>1, <2>1, <2>3 DEF SweptSome, CloseUvs
    <3>2. \/ col[x] = white \/ x \in unswept
          \/ (x \in Uv /\ uvth[x] # Closed /\ uvth[x] \in unswept)
      BY <1>2, <2>1 DEF Safe, PhaseOK, Sweeping
    <3>. QED BY <1>2, <2>3, <3>1, <3>2
  <2>. QED BY <2>2, <2>3
<1>. QED BY <1>2, <1>3 DEF PhaseOK, Sweeping

LEMMA SweepSafe ==
  ASSUME TypeOK, TypeOK', UvInv, Regular, Safe, NEW o \in Obj, gc_sweep(o)
  PROVE  Safe'
<1>1. PICK uvs, freed : SweptSome(o, uvs, freed)
  BY SweepSome
<1>2. /\ uvs \subseteq Uv /\ (\A u \in uvs : uvth[u] = o /\ o \in Thread)
      /\ (\A u \in Uv : uvth[u] = o => u \in uvs)
      /\ freed \subseteq uvs \cup {o} /\ freed \cap Live = {}
      /\ Live' = Live /\ Heap' = Heap \ freed
  BY <1>1, SweptLive
<1>3. FreeWiped' /\ PhaseOK'
  BY <1>1, SweptWiped, SweptPhase
<1>4. OpenUvOK'
  <2>1. ASSUME NEW u \in Uv, uvth'[u] # Closed
        PROVE  uvth'[u] \in Heap' /\ uvix'[u] <= top'[uvth'[u]]
    <3>1. /\ uvth'[u] = uvth[u] /\ uvix'[u] = uvix[u] /\ u \notin freed
          /\ ~(o \in freed /\ u \in uvs)
      BY <1>1, <2>1 DEF SweptSome, CloseUvs
    <3>2. uvth[u] \in Thread /\ uvth[u] \in Heap /\ uvix[u] <= top[uvth[u]]
      BY <2>1, <3>1 DEF Safe, OpenUvOK, TypeOK
    <3>3. uvth[u] \notin freed
      BY <1>2, <3>1, <3>2, Kinds
    <3>. QED BY <1>1, <1>2, <3>1, <3>2, <3>3 DEF SweptSome
  <2>. QED BY <2>1 DEF OpenUvOK
<1>5. PendingLive'
  BY <1>1, <1>2 DEF Safe, PendingLive, SweptSome
<1>6. NoDangling'
  <2>1. ASSUME NEW x \in Live PROVE Refs(x)' = Refs(x)
    <3>1. x \in Obj /\ x \notin freed
      BY <1>2, LiveColours
    <3>2. x \in Uv => uvval(x)' = uvval(x)
      BY <1>1, <3>1, SweptUvvals
    <3>. QED BY <1>1, <3>1, <3>2, SameRefs DEF SweptSome
  <2>2. Roots' = Roots
    BY <1>1 DEF Roots, SweptSome
  <2>. QED BY <1>2, <2>1, <2>2 DEF Safe, NoDangling
<1>7. Wavefront' /\ AtomicOK'
  BY <1>1 DEF SweptSome, Wavefront, AtomicOK, Marking, InAtomic
<1>. QED BY <1>3, <1>4, <1>5, <1>6, <1>7 DEF Safe

(***************************************************************************)
(* The theorem                                                             *)
(***************************************************************************)

LEMMA SafeInit == Init => Safe
<1>. SUFFICES ASSUME Init PROVE Safe
  OBVIOUS
<1>1. /\ TypeOK /\ Heap = {Main, Reg, Glob} /\ Live = Heap
  BY InitType, Permanent DEF Init, Heap, Live, isdead, otherwhite, Obj
<1>2. FreeWiped
  BY <1>1 DEF Init, FreeWiped, Obj
<1>3. OpenUvOK /\ PendingLive
  BY DEF Init, OpenUvOK, PendingLive
<1>4. PhaseOK
  BY <1>1 DEF Init, PhaseOK, Sweeping, isdead, otherwhite, Heap
<1>5. NoDangling
  <2>1. Main \in Thread /\ Reg \in Tab /\ Glob \in Tab
    BY Permanent
  <2>2. Nil \notin Obj /\ Off \notin Obj
    BY Kinds
  <2>3. Refs(Main) \subseteq {Glob}
    BY <2>1, <2>2, RefsOf DEF Init, Objs
  <2>4. Refs(Reg) = {} /\ Refs(Glob) = {}
    BY <2>1, <2>2, RefsOf DEF Init, Objs, Keys, Vals
  <2>5. Roots = {Main, Reg}
    BY <2>1, <2>2 DEF Init, Roots, Objs, Obj
  <2>. QED BY <1>1, <2>3, <2>4, <2>5 DEF NoDangling
<1>6. Wavefront /\ AtomicOK
  BY DEF Init, Wavefront, AtomicOK, Marking, InAtomic
<1>. QED BY <1>2, <1>3, <1>4, <1>5, <1>6 DEF Safe

LEMMA CollectorSafe ==
  ASSUME TypeOK, TypeOK', UvInv, Lists, Regular, Safe, Collector \/ finalizer_error
  PROVE  Safe'
<1>1. CASE gc_mark_start
  BY <1>1, MarkStartSafe
<1>2. CASE \E o \in Obj : propagatemark(o)
  BY <1>2, PropagateSafe
<1>3. CASE propagate_end
  BY <1>3, EndSafe
<1>4. CASE atomic_mark_uv \/ atomic_weak \/ atomic_grayagain
  BY <1>4, AtomicUvSafe, AtomicWeakSafe, AtomicAgainSafe
<1>5. CASE lj_gc_separateudata
  BY <1>5, SeparateSafe
<1>6. CASE atomic_end
  BY <1>6, FlipSafe
<1>7. CASE \E s \in Str : sweepstring(s)
  BY <1>7, SweepStringSafe
<1>8. CASE \E o \in Obj : gc_sweep(o)
  BY <1>8, SweepSafe
<1>9. CASE sweepstring_end \/ gc_sweep_end \/ gc_finalize_end \/ fullgc_cycle \/ finalizer_error
  BY <1>9, SweepEndsSafe
<1>10. CASE \E u \in Udata : gc_finalize(u)
  BY <1>10, FinalizeSafe
<1>. QED
  BY <1>1, <1>2, <1>3, <1>4, <1>5, <1>6, <1>7, <1>8, <1>9, <1>10 DEF Collector

\* no program uses debug.setupvalue
NoSetUpvalue == \A p \in Programs : p.setuv = {}

LEMMA SafeNext ==
  ASSUME NoSetUpvalue, TypeOK, TypeOK', UvInv, Lists, Regular, Safe, [Next]_vars
  PROVE  Safe'
<1>1. CASE \E p \in Programs : Mutator(p)
  BY <1>1, MutatorSafe DEF NoSetUpvalue
<1>2. CASE Collector \/ finalizer_error
  BY <1>2, CollectorSafe
<1>3. CASE UNCHANGED vars
  <2>1. /\ UNCHANGED <<white, col, mmudata, fin, graph, thvars>>
        /\ UNCHANGED <<gcstate, unswept, grayagain, weak>>
    BY <1>3 DEF vars, gcvars, gclists
  <2>2. /\ FreeWiped' /\ OpenUvOK' /\ PendingLive' /\ NoDangling'
    BY <2>1, SameHeap
  <2>3. \A o : Refs(o)' = Refs(o) /\ Trav(o)' = Trav(o)
    BY <2>1 DEF Refs, Trav, Keys, Vals, Mode, LiveSlots, uvval, graph, thvars
  <2>4. PhaseOK' /\ Wavefront' /\ AtomicOK'
    BY <2>1, <2>3
    DEF Safe, PhaseOK, Wavefront, AtomicOK, Sweeping, Marking, InAtomic, Heap, Nonwhite, Objs,
        isdead, isblack, isgray, iswhite, otherwhite, graph, thvars
  <2>. QED BY <2>2, <2>4 DEF Safe
<1>. QED BY <1>1, <1>2, <1>3 DEF Next


\* IInv holds in every reachable state of every heap, whatever programs do
\* except debug.setupvalue: the strengthening from which the others follow.
THEOREM CollectorInvariant ==
  ASSUME NoSetUpvalue
  PROVE  Spec => []IInv
<1>1. IInv <=> TypeOK /\ UvInv /\ Lists /\ Regular /\ Safe
  BY DEF IInv, Regular, Safe
<1>2. Init => IInv
  BY <1>1, InitType, UvInvInit, ListsInit, RegularInit, SafeInit
<1>3. IInv /\ [Next]_vars => IInv'
  <2>. SUFFICES ASSUME IInv, [Next]_vars PROVE IInv'
    OBVIOUS
  <2>1. TypeOK /\ UvInv /\ Lists /\ Regular /\ Safe /\ PendingLive
    BY <1>1 DEF Safe
  <2>2. TypeOK' /\ UvInv' /\ Lists' /\ Regular'
    BY <2>1, NextType, UvInvNext, ListsNext, RegularNext
  <2>3. Safe'
    BY <2>1, <2>2, SafeNext
  <2>. QED BY <2>2, <2>3 DEF IInv, Regular, Safe
<1>. QED BY <1>2, <1>3, PTL DEF Spec

\* The collector never frees what the program can still reach: no root and no
\* object that is not condemned points to an object that is freed or condemned,
\* through weak entries and stale stack slots included, at any point of a cycle.
THEOREM NothingReachableIsFreed ==
  ASSUME NoSetUpvalue
  PROVE  Spec => []NoDangling
BY CollectorInvariant, PTL DEF IInv

\* The barriers keep the invariant of lj_obj.h: whenever a program runs during a
\* mark phase, no black object points to a white one.
THEOREM BarriersKeepTriColour ==
  ASSUME NoSetUpvalue
  PROVE  Spec => []TriColour
<1>1. IInv => TriColour
  <2>. SUFFICES ASSUME IInv, Marking, NEW o \in Heap \ mmudata, isblack(o), NEW r \in Refs(o)
                PROVE  ~iswhite(r)
    BY DEF TriColour
  <2>. QED BY DEF IInv, Wavefront, Nonwhite
<1>. QED BY <1>1, CollectorInvariant, PTL

\* Closures of one local variable share its upvalue, and an open upvalue points
\* into the stack of a thread that is allocated.
THEOREM LocalsSharedSafely ==
  ASSUME NoSetUpvalue
  PROVE  Spec => []OpenUvsShared
<1>1. IInv => OpenUvsShared
  BY DEF IInv, UvInv, OneUvPerSlot, OpenAllocated, OpenUvOK, OpenUvsShared, OpenUvs
<1>. QED BY <1>1, CollectorInvariant, PTL

\* When a sweep ends it has passed everything: what is left has the current
\* white, pending userdata aside, and lj_func_closeuv never meets a black upvalue.
THEOREM SweepsAreComplete ==
  ASSUME NoSetUpvalue
  PROVE  Spec => []SweepComplete
<1>1. IInv => SweepComplete
  BY DEF IInv, ColourOK, PhaseOK, SweepComplete, Sweeping
<1>. QED BY <1>1, CollectorInvariant, PTL


(***************************************************************************)
(* What is strong and what is loose                                        *)
(***************************************************************************)

StrongShapes ==
  /\ \A t \in Tab : StrongRefs(t) = Trav(t) \cup StrongStrs(t)
  /\ \A th \in Thread : StrongRefs(th) = Objs({env[th]} \cup LiveSlots(th))
  /\ \A o \in Func \cup Udata \cup Uv \cup Str : StrongRefs(o) = Refs(o)
LooseShapes ==
  /\ \A t \in Tab : Loose(t) = Objs((IF "k" \in Mode(t) THEN Keys(t) ELSE {})
                                      \cup (IF "v" \in Mode(t) THEN Vals(t) ELSE {})
                                      \cup (IF Mode(t) # {} THEN Vals(t) \cap fin ELSE {}))
  /\ \A th \in Thread : Loose(th) = Objs({stk[th][i] : i \in {j \in Slots : j > top[th]}})
  /\ \A o \in Func \cup Udata \cup Uv \cup Str : Loose(o) = {}
Divided == TypeOK => \A o \in Obj : StrongRefs(o) \cup Loose(o) = Refs(o)

LEMMA StrongOf == StrongShapes
<1>1. \A o \in Func \cup Thread : StrongRefs(o) = Trav(o)
  BY Kinds DEF StrongRefs
<1>. QED BY <1>1, TravOf, Kinds DEF StrongRefs, StrongShapes

LEMMA LooseOf == LooseShapes
BY Kinds DEF Loose, Objs, LooseShapes

LEMMA StringsHeld == \A t : StrongStrs(t) \subseteq Str \cap (Keys(t) \cup Vals(t))
<1>. SUFFICES ASSUME NEW t, NEW s \in StrongStrs(t) PROVE s \in Str \cap (Keys(t) \cup Vals(t))
  OBVIOUS
<1>1. s \in Str /\ (s \in Keys(t) \/ \E d \in ent[t] : s = d[2])
  BY DEF StrongStrs
<1>. QED BY <1>1 DEF Vals

LEMMA DividedRefs == Divided
<1>. SUFFICES ASSUME TypeOK, NEW o \in Obj PROVE StrongRefs(o) \cup Loose(o) = Refs(o)
  BY DEF Divided
<1>. USE RefsOf, StrongOf, LooseOf DEF StrongShapes, LooseShapes
<1>1. CASE o \in Tab
  <2>1. Trav(o) = Objs({mt[o]} \cup (IF "k" \in Mode(o) THEN {} ELSE Keys(o))
                               \cup (IF "v" \in Mode(o) THEN {} ELSE Vals(o)))
    BY <1>1, Kinds DEF Trav
  <2>2. StrongStrs(o) \subseteq Objs(Keys(o) \cup Vals(o))
    BY StringsHeld DEF Objs, Obj
  <2>. QED BY <1>1, <2>1, <2>2 DEF Objs
<1>2. CASE o \in Thread
  <2>1. top[o] \in Nat /\ \A j \in Slots : j \in Nat
    BY <1>2, Bounds DEF TypeOK, Slots
  <2>2. {stk[o][i] : i \in Slots} = LiveSlots(o) \cup {stk[o][i] : i \in {j \in Slots : j > top[o]}}
    BY <2>1 DEF LiveSlots
  <2>. QED BY <1>2, <2>2 DEF Objs
<1>3. CASE o \in Func \cup Udata \cup Uv \cup Str
  BY <1>3
<1>. QED BY <1>1, <1>2, <1>3 DEF Obj

LEMMA After == StrongShapes' /\ LooseShapes' /\ Divided'
BY StrongOf, LooseOf, DividedRefs, PTL

(***************************************************************************)
(* The abstract heap                                                       *)
(***************************************************************************)

\* references lead to what is there
LEMMA SoundAfter ==
  ASSUME TypeOK', NoDangling'
  PROVE  H!Sound
<1>1. /\ Live' \subseteq Obj /\ Roots' \subseteq Live'
      /\ \A o \in Live' : StrongRefs(o)' \cup Loose(o)' \subseteq Live'
  BY After, LiveColoursAfter DEF Divided, NoDangling
<1>. QED BY <1>1 DEF H!Sound

\* what a program does: nothing disappears, no userdata comes back
Grown ==
  /\ UNCHANGED <<mmudata, fin>> /\ ~InAtomic'
  /\ Live \subseteq Live'
  /\ Udata \cap Heap \subseteq Heap'
  /\ Udata \cap (Heap \ Live) = Udata \cap (Heap \ Live)'

LEMMA GrownMutates ==
  ASSUME TypeOK, TypeOK', FreeWiped, NoDangling', Grown
  PROVE  H!Mutate
<1>1. fin \cap Live' = fin \cap Live
  <2>1. ASSUME NEW u \in fin \cap Live' PROVE u \in Live
    <3>1. u \in Udata /\ u \in Heap'
      BY LiveColoursAfter DEF TypeOK
    <3>2. u \in Heap
      BY <3>1 DEF FreeWiped, Obj
    <3>. QED BY <3>1, <3>2 DEF Grown
  <2>. QED BY <2>1 DEF Grown
<1>2. H!Sound
  BY SoundAfter
<1>. QED BY <1>1, <1>2 DEF H!Mutate, Grown

\* what the collector does between two flips: it forgets loose references
Weakened ==
  /\ Live' = Live /\ UNCHANGED <<Roots, mmudata>> /\ fin' \cap Live = fin \cap Live
  /\ \A o \in Live : StrongRefs(o)' = StrongRefs(o) /\ Loose(o)' \subseteq Loose(o)

LEMMA WeakenedForgets ==
  ASSUME TypeOK, Weakened
  PROVE  H!Forget
<1>1. Live \subseteq Obj
  BY LiveColours
<1>. QED BY <1>1 DEF H!Forget, Weakened

(***************************************************************************)
(* The program                                                             *)
(***************************************************************************)

LEMMA SameGrown ==
  ASSUME UNCHANGED <<mmudata, fin>>, ~InAtomic', Live' = Live, Heap' = Heap
  PROVE  Grown
BY DEF Grown

LEMMA AllocatedGrown ==
  ASSUME TypeOK, TypeOK', NEW N, NEW i \in Slots, Allocated(N, i)
  PROVE  Grown
<1>. USE LiveColours, LiveColoursAfter
<1>1. UNCHANGED <<white, mmudata, fin>> /\ ~InAtomic'
  BY DEF Allocated, InAtomic
<1>2. ASSUME NEW o \in Obj PROVE /\ o \in Live => o \in Live'
                                 /\ o \in Heap => o \in Heap'
                                 /\ o \in Udata => (o \in Heap \ Live <=> o \in Heap' \ Live')
  <2>1. CASE o \notin N
    BY <1>1, <2>1 DEF Allocated
  <2>2. CASE o \in N
    <3>1. \/ col'[o] = white /\ (col[o] = "free" \/ isdead(o))
          \/ col'[o] = col[o] /\ o \in Live
      BY <2>2 DEF Allocated
    <3>2. o \in Udata => col[o] = "free"
      BY <2>2, Kinds DEF Allocated
    <3>. QED BY <1>1, <3>1, <3>2 DEF TypeOK, Reached
  <2>. QED BY <2>1, <2>2
<1>3. Live \subseteq Obj /\ Udata \subseteq Obj
  BY DEF Obj
<1>. QED BY <1>1, <1>2, <1>3 DEF Grown

LEMMA CloseGrown ==
  ASSUME TypeOK, TypeOK', PhaseOK, NEW i \in Slots, lj_func_closeuv(i)
  PROVE  Grown
<1>. DEFINE above == {u \in OpenUvs(cur) : uvix[u] >= i}
<1>. DEFINE freed == {u \in above : isdead(u)}
<1>. DEFINE grays == {u \in above \ freed : isgray(u)}
<1>. DEFINE S == Objs({uvval(u) : u \in grays})
<1>1. /\ UNCHANGED <<white, mmudata, fin>> /\ ~InAtomic'
      /\ \A o \in Obj : col'[o] = IF o \in freed THEN "free"
                                  ELSE IF o \in grays THEN (IF Marking THEN "black" ELSE white)
                                  ELSE IF Marking THEN Shaded(S)[o] ELSE col[o]
  BY DEF lj_func_closeuv, colvars, Running, InAtomic
<1>2. \A o : (o \in freed => o \in Uv /\ isdead(o)) /\ (o \in grays => o \in Uv /\ isgray(o))
  BY DEF OpenUvs
<1>3. \A o \in Obj : Shaded(S)[o] = col[o] \/ (iswhite(o) /\ Shaded(S)[o] \in Reached)
  BY DEF Shaded, Marked, MarkColour, Reached, iswhite
<1>4. Marking => \A o \in Obj : col[o] # "free" => o \in Live
  BY DEF PhaseOK, Marking, Sweeping, Live, Heap
<1>. HIDE DEF freed, grays, S
<1>. USE LiveColours, LiveColoursAfter DEF Reached
<1>5. ASSUME NEW o \in Live PROVE o \in Live'
  <2>1. o \in Obj /\ col[o] \in {white, "gray", "black"} /\ o \notin freed
    BY <1>2 DEF isdead, TypeOK, otherwhite
  <2>2. col'[o] \in {white, "gray", "black"}
    BY <1>1, <1>3, <2>1
  <2>. QED BY <1>1, <2>1, <2>2
<1>6. \A o \in Udata : o \in Obj /\ o \notin Uv
  BY Kinds DEF Obj
<1>7. \A o \in Udata : /\ o \in Heap <=> o \in Heap'
                       /\ o \in Heap \ Live => o \notin Live'
  BY <1>1, <1>2, <1>3, <1>4, <1>6 DEF iswhite, TypeOK
<1>. QED BY <1>1, <1>5, <1>6, <1>7 DEF Grown

LEMMA MutatorGrown ==
  ASSUME TypeOK, TypeOK', UvInv, Regular, Safe,
         NEW p \in Programs, p.setuv = {}, Mutator(p)
  PROVE  Grown
<1>1. /\ p.objs \subseteq Obj /\ p.data \subseteq Obj \cup {Prim}
      /\ p.keys \subseteq Obj \cup {Prim} /\ p.tabs \subseteq Tab /\ p.metas \subseteq Tab
      /\ p.fields \subseteq SUBSET MetaFields
  BY Bounds
<1>2. Restacked => Grown
  BY SameGrown DEF Restacked, gcvars, Live, Heap, isdead, otherwhite, InAtomic
<1>3. Stored => Grown
  BY SameGrown DEF Stored, Coloured, InAtomic
<1>4. \A N : \A i \in Slots : Allocated(N, i) => Grown
  BY AllocatedGrown
<1>5. \A i \in Slots : lj_func_closeuv(i) => Grown
  BY CloseGrown DEF Safe
<1>6. lj_gc_fullgc => Grown
  <2>1. lj_gc_fullgc => UNCHANGED <<white, col, mmudata, fin>> /\ ~InAtomic'
    BY DEF lj_gc_fullgc, Running, InAtomic
  <2>2. UNCHANGED <<white, col>> => Live' = Live /\ Heap' = Heap
    BY DEF Live, Heap, isdead, otherwhite
  <2>. QED BY <2>1, <2>2, SameGrown
<1>7. \A i \in Slots :
        /\ \A t \in Tab : lj_tab_new(t, i) => Grown
        /\ \A u \in Udata, e \in Tab : lj_udata_new(u, e, i) => Grown
        /\ \A s \in Str : lj_str_new(s, i) => Grown
        /\ \A th \in Thread : lj_state_new(th, i) => Grown
        /\ \A f \in Func, u \in Uv, j \in Slots, e \in Tab :
             lj_func_newL_local(f, u, j, e, i) => Grown
        /\ \A f, g \in Func : lj_func_newL_inherit(f, g, i) => Grown
        /\ \A f \in Func, u \in Uv : lj_func_newL_empty(f, u, i) => Grown
  BY <1>4, AllocSteps
<1>8. /\ \A t \in Tab, k \in Obj \cup {Prim}, v \in Obj \cup {Prim, Nil} :
              lua_rawset(t, k, v) \/ lua_rawseti(t, v) => Grown
      /\ \A t \in Tab, m \in SUBSET MetaFields : SetMetaField(t, m) => Grown
      /\ \A o \in Tab \cup Udata, m \in Tab \cup {Nil} : lua_setmetatable(o, m) => Grown
      /\ \A o \in Func \cup Udata \cup Thread, e \in Tab : lua_setfenv(o, e) => Grown
      /\ \A f \in Func, v \in Obj \cup {Nil} : USET(f, v) => Grown
      /\ \A f, g \in Func : lua_upvaluejoin(f, g) => Grown
  BY <1>3, TableSteps, ObjectSteps
<1>. QED
  BY <1>1, <1>2, <1>5, <1>6, <1>7, <1>8, StackSteps DEF Mutator, Obj

(***************************************************************************)
(* The collector, between two flips                                        *)
(***************************************************************************)

LEMMA SameGraph ==
  ASSUME UNCHANGED <<graph, thvars, fin, mmudata>>, Live' = Live
  PROVE  Weakened
<1>1. UNCHANGED <<mt, env, ent, meta, fuv, uvth, uvix, uval, stk, top, basemt, cur, jit, fin>>
  BY DEF graph, thvars
<1>2. \A o : Refs(o)' = Refs(o) /\ Trav(o)' = Trav(o)
  BY <1>1 DEF Refs, Trav, Keys, Vals, Mode, LiveSlots, uvval
<1>3. \A o : StrongStrs(o)' = StrongStrs(o) /\ Loose(o)' = Loose(o)
  BY <1>1 DEF StrongStrs, Loose, Keys, Vals, Mode, Objs
<1>4. \A o : StrongRefs(o)' = StrongRefs(o)
  BY <1>2, <1>3 DEF StrongRefs
<1>5. UNCHANGED Roots
  BY <1>1 DEF Roots, Objs
<1>. QED BY <1>1, <1>3, <1>4, <1>5 DEF Weakened

\* while marking nothing is condemned
LEMMA MarkedLive ==
  ASSUME PhaseOK, PhaseOK', ~Sweeping, ~Sweeping'
  PROVE  Live = Heap /\ Live' = Heap'
BY DEF PhaseOK, Live

LEMMA MarkWeakens ==
  ASSUME TypeOK, TypeOK', PhaseOK, PhaseOK',
         \/ gc_mark_start \/ propagate_end
         \/ atomic_mark_uv \/ atomic_weak \/ atomic_grayagain
  PROVE  Weakened /\ Live' = Heap' /\ Heap' = Heap
<1>1. /\ UNCHANGED <<graph, thvars, fin, mmudata>> /\ ~Sweeping /\ ~Sweeping'
      /\ col' = col \/ \E S : col' = Shaded(S)
  BY DEF gc_mark_start, propagate_end, atomic_mark_uv, atomic_weak, atomic_grayagain,
         Paused, Sweeping, gclists
<1>2. Heap' = Heap
  BY <1>1, ShadedFreesNone DEF Heap
<1>. QED BY <1>1, <1>2, MarkedLive, SameGraph

LEMMA SameTable ==
  ASSUME NEW t \in Tab, mt'[t] = mt[t], ent'[t] = ent[t], Mode(t)' = Mode(t),
         \A v \in Vals(t) \cap Obj : v \in fin' <=> v \in fin
  PROVE  StrongRefs(t)' = StrongRefs(t) /\ Loose(t)' = Loose(t)
<1>1. Keys(t)' = Keys(t) /\ Vals(t)' = Vals(t)
  BY DEF Keys, Vals
<1>2. Trav(t)' = Trav(t)
  BY <1>1, Kinds DEF Trav, Objs
<1>3. StrongStrs(t)' = StrongStrs(t)
  BY <1>1 DEF StrongStrs
<1>4. (Objs(Vals(t) \cap fin))' = Objs(Vals(t) \cap fin)
  BY <1>1 DEF Objs
<1>5. Loose(t)' = Loose(t)
  <2>1. (Objs((IF "k" \in Mode(t) THEN Keys(t) ELSE {})
              \cup (IF "v" \in Mode(t) THEN Vals(t) ELSE {})
              \cup (IF Mode(t) # {} THEN Vals(t) \cap fin ELSE {})))'
        = Objs((IF "k" \in Mode(t) THEN Keys(t) ELSE {})
              \cup (IF "v" \in Mode(t) THEN Vals(t) ELSE {})
              \cup (IF Mode(t) # {} THEN Vals(t) \cap fin ELSE {}))
    BY <1>1, <1>4 DEF Objs
  <2>. QED BY <2>1, After, LooseOf DEF LooseShapes
<1>. QED BY <1>2, <1>3, <1>5, After, StrongOf DEF StrongShapes

LEMMA PropagateWeakens ==
  ASSUME TypeOK, TypeOK', Lists, Safe, PhaseOK', NEW o \in Obj, propagatemark(o)
  PROVE  Weakened /\ Live' = Heap' /\ Heap' = Heap
<1>1. /\ UNCHANGED <<mt, env, ent, meta, fuv, uvth, uvix, uval, top, basemt, cur, jit>>
      /\ UNCHANGED <<fin, mmudata, gcstate>> /\ ~Sweeping
      /\ \/ stk' = stk
         \/ o \in Thread /\ stk' = [stk EXCEPT ![o] = [i \in Slots |-> IF i <= top[o] THEN @[i] ELSE Nil]]
  BY DEF propagatemark, graph, colvars, Sweeping, InAtomic
<1>2. Heap' = Heap /\ Live' = Live /\ Live' = Heap'
  <2>1. Heap' = Heap
    BY PropagateShades, MarksSafe DEF Shades
  <2>. QED BY <1>1, <2>1, MarkedLive DEF Sweeping, Safe
<1>3. \A th \in Thread, i \in Slots :
        /\ i <= top[th] => stk'[th][i] = stk[th][i]
        /\ stk'[th][i] \in {stk[th][i], Nil}
  BY <1>1 DEF TypeOK
<1>4. UNCHANGED Roots
  BY <1>1 DEF Roots, Objs
<1>5. ASSUME NEW x \in Obj PROVE StrongRefs(x)' = StrongRefs(x) /\ Loose(x)' \subseteq Loose(x)
  <2>. USE StrongOf, LooseOf, After DEF StrongShapes, LooseShapes
  <2>1. CASE x \in Tab
    <3>1. Mode(x)' = Mode(x)
      BY <1>1 DEF Mode
    <3>. QED BY <1>1, <2>1, <3>1, SameTable
  <2>2. CASE x \in Thread
    <3>1. LiveSlots(x)' = LiveSlots(x)
      BY <1>1, <1>3, <2>2 DEF LiveSlots
    <3>2. (Objs({stk[x][i] : i \in {j \in Slots : j > top[x]}}))'
            \subseteq Objs({stk[x][i] : i \in {j \in Slots : j > top[x]}})
      BY <1>1, <1>3, <2>2, Kinds DEF Objs
    <3>3. (Objs({env[x]} \cup LiveSlots(x)))' = Objs({env[x]} \cup LiveSlots(x))
      BY <1>1, <3>1 DEF Objs
    <3>. QED BY <2>2, <3>2, <3>3
  <2>3. CASE x \in Uv
    <3>1. uvval(x)' = uvval(x)
      BY <1>1, <1>3, <2>3 DEF uvval, TypeOK, Safe, OpenUvOK
    <3>. QED BY <2>3, <3>1, RefsOf, RefsOfAfter DEF Objs
  <2>4. CASE x \in Func \cup Udata \cup Str
    <3>1. Refs(x)' = Refs(x)
      BY <1>1, <2>4, SameRefs, Kinds
    <3>. QED BY <2>4, <3>1
  <2>. QED BY <2>1, <2>2, <2>3, <2>4 DEF Obj
<1>6. Live \subseteq Obj
  BY LiveColours
<1>. QED BY <1>1, <1>2, <1>4, <1>5, <1>6 DEF Weakened

LEMMA SweptWeakens ==
  ASSUME TypeOK, TypeOK', UvInv, Regular, Safe, NEW o \in Obj, gc_sweep(o)
  PROVE  /\ Weakened /\ Heap \ Live \subseteq (Heap' \ Live') \cup (Heap \ Heap')
         /\ Heap' \subseteq Heap /\ fin \cap Heap' \subseteq fin'
<1>1. PICK uvs, freed : SweptSome(o, uvs, freed)
  BY SweepSome
<1>2. freed \cap Live = {} /\ Live' = Live /\ Heap' = Heap \ freed
  BY <1>1, SweptLive
<1>3. /\ UNCHANGED <<mmudata, basemt, cur, jit>> /\ fin' = fin \ freed
  BY <1>1 DEF SweptSome
<1>4. \A x \in Live : x \in Obj /\ x \notin freed /\ Refs(x) \subseteq Live
  BY <1>2, LiveColours DEF Safe, NoDangling
<1>5. ASSUME NEW x \in Live PROVE StrongRefs(x)' = StrongRefs(x) /\ Loose(x)' \subseteq Loose(x)
  <2>. USE <1>4, StrongOf, LooseOf, After DEF StrongShapes, LooseShapes
  <2>1. CASE x \in Tab
    <3>1. mt'[x] = mt[x] /\ ent'[x] = ent[x]
      BY <1>1, <2>1 DEF SweptSome
    <3>2. mt[x] = Nil \/ (mt[x] \in Tab /\ mt[x] \in Live)
      BY <2>1, RefsOf DEF TypeOK, Objs, Obj
    <3>3. Mode(x)' = Mode(x)
      <4>1. CASE mt[x] = Nil
        BY <3>1, <4>1 DEF Mode
      <4>2. CASE mt[x] \in Tab /\ mt[x] \in Live
        <5>1. PICK m : m = mt[x]
          OBVIOUS
        <5>2. meta'[m] = meta[m]
          BY <1>1, <4>2, <5>1 DEF SweptSome
        <5>3. m # Nil
          BY <4>2, <5>1, Kinds DEF Obj
        <5>. QED BY <3>1, <5>1, <5>2, <5>3 DEF Mode
      <4>. QED BY <3>2, <4>1, <4>2
    <3>4. \A v \in Vals(x) \cap Obj : v \in fin' <=> v \in fin
      <4>1. \A v \in Vals(x) \cap Obj : v \in Live
        BY <2>1, RefsOf DEF Objs
      <4>. QED BY <1>3, <4>1
    <3>. QED BY <2>1, <3>1, <3>3, <3>4, SameTable
  <2>2. CASE x \in Thread
    <3>1. env'[x] = env[x] /\ stk'[x] = stk[x] /\ top'[x] = top[x]
      BY <1>1, <2>2 DEF SweptSome
    <3>. QED BY <2>2, <3>1 DEF Objs, LiveSlots
  <2>3. CASE x \in Func \cup Udata \cup Uv \cup Str
    <3>1. x \in Uv => uvval(x)' = uvval(x)
      BY <1>1, SweptUvvals
    <3>2. Refs(x)' = Refs(x)
      BY <1>1, <3>1, SameRefs DEF SweptSome
    <3>. QED BY <2>3, <3>2
  <2>. QED BY <2>1, <2>2, <2>3 DEF Obj
<1>6. UNCHANGED Roots
  BY <1>3 DEF Roots, Objs
<1>7. fin' \cap Live = fin \cap Live
  BY <1>2, <1>3
<1>8. Weakened
  BY <1>2, <1>3, <1>5, <1>6, <1>7 DEF Weakened
<1>. QED BY <1>2, <1>3, <1>8

LEMMA SweptStringWeakens ==
  ASSUME TypeOK, TypeOK', Regular, NEW s \in Str, sweepstring(s)
  PROVE  /\ Weakened /\ UNCHANGED fin
         /\ \E freed \in SUBSET Str : Heap' = Heap \ freed /\ freed \cap Live = {}
<1>1. /\ s \in unswept /\ \A o \in Obj : o # s => col'[o] = col[o]
      /\ col'[s] = IF isdead(s) THEN "free" ELSE white
      /\ UNCHANGED <<white, graph, thvars, fin, mmudata>>
  BY DEF sweepstring, TypeOK
<1>2. s \in Heap /\ s \in Obj /\ otherwhite # white
  BY <1>1 DEF Regular, UnsweptOK, otherwhite, TypeOK, Obj
<1>3. \A o \in Obj : col'[o] \in {white} \cup Reached <=> col[o] \in {white} \cup Reached
  BY <1>1, <1>2 DEF isdead, otherwhite, Reached, Heap, TypeOK
<1>4. Live' = Live
  BY <1>1, <1>3, LiveColours, LiveColoursAfter
<1>5. \E freed \in SUBSET Str : Heap' = Heap \ freed /\ freed \cap Live = {}
  <2>1. \A o \in Obj : o # s => (o \in Heap' <=> o \in Heap)
    BY <1>1 DEF Heap
  <2>2. CASE isdead(s)
    <3>1. Heap' = Heap \ {s}
      BY <1>1, <1>2, <2>1, <2>2 DEF Heap
    <3>2. {s} \in SUBSET Str /\ {s} \cap Live = {}
      BY <2>2 DEF Live
    <3>. QED BY <3>1, <3>2
  <2>3. CASE ~isdead(s)
    <3>1. Heap' = Heap \ {}
      BY <1>1, <1>2, <2>1, <2>3, LiveColours, LiveColoursAfter DEF TypeOK
    <3>2. {} \in SUBSET Str /\ {} \cap Live = {}
      OBVIOUS
    <3>. QED BY <3>1, <3>2
  <2>. QED BY <2>2, <2>3
<1>. QED BY <1>1, <1>4, <1>5, SameGraph

LEMMA EndWeakens ==
  ASSUME \/ sweepstring_end \/ gc_sweep_end \/ gc_finalize_end \/ fullgc_cycle \/ finalizer_error
  PROVE  Weakened /\ UNCHANGED fin /\ Heap' = Heap /\ ~InAtomic'
<1>1. UNCHANGED <<white, col, graph, thvars, fin, mmudata>> /\ ~InAtomic'
  BY DEF sweepstring_end, gc_sweep_end, gc_finalize_end, fullgc_cycle, finalizer_error, InAtomic
<1>2. Live' = Live /\ Heap' = Heap
  BY <1>1 DEF Live, Heap, isdead, otherwhite
<1>. QED BY <1>1, <1>2, SameGraph

(***************************************************************************)
(* Separating, flipping, finalizing                                        *)
(***************************************************************************)

\* when the last lists are empty, all that marked objects keep alive is marked,
\* but for the strings of weak tables
Traced(o) ==
  \/ Refs(o) \subseteq Nonwhite
  \/ o \in weak /\ Trav(o) \subseteq Nonwhite
LEMMA AllTraced ==
  ASSUME TypeOK, Lists, Regular, Safe, gray = {},
         gcstate \in {"atomic_again", "atomic_ud"}
  PROVE  /\ \A o \in Nonwhite \ mmudata : Traced(o)
         /\ gcstate = "atomic_ud" => \A o \in mmudata : Traced(o)
         /\ Roots \subseteq Nonwhite
<1>1. InAtomic /\ jit = Off
  BY DEF InAtomic, Regular, NoTrace
<1>2. ASSUME NEW o \in Nonwhite \ mmudata PROVE Traced(o)
  <2>1. o \in Obj /\ o \in Heap /\ (isblack(o) \/ isgray(o))
    BY LiveColours DEF isblack, isgray, Reached
  <2>2. CASE isblack(o)
    BY <1>1, <2>1, <2>2 DEF Safe, Wavefront, Traced
  <2>3. CASE isgray(o) /\ o \in Container
    <3>1. o \in grayagain \cup weak
      BY <1>1, <2>3 DEF Lists, ListsWhileMarking
    <3>. QED BY <3>1 DEF Safe, AtomicOK, Traced
  <2>4. CASE isgray(o) /\ o \in Uv
    BY <1>1, <2>4 DEF Safe, AtomicOK, Regular, ColourOK, Traced
  <2>5. CASE o \in Str
    BY <2>5, RefsOf DEF Traced
  <2>6. CASE isgray(o) /\ o \in Udata
    BY <2>6 DEF Regular, ColourOK
  <2>. QED BY <2>1, <2>2, <2>3, <2>4, <2>5, <2>6 DEF Obj, Container
<1>3. Roots \subseteq Nonwhite
  <2>1. {Main, Reg} \subseteq Nonwhite /\ Objs({basemt, cur}) \subseteq Nonwhite
    BY <1>1 DEF Safe, Wavefront, AtomicOK
  <2>2. jit \notin Obj
    BY <1>1, Kinds
  <2>. QED BY <2>1, <2>2 DEF Roots, Objs
<1>4. gcstate = "atomic_ud" => \A o \in mmudata : Traced(o)
  BY DEF Safe, AtomicOK, Traced
<1>. QED BY <1>2, <1>3, <1>4

LEMMA SeparateCondemns ==
  ASSUME TypeOK, TypeOK', Lists, Regular, Safe, PhaseOK', lj_gc_separateudata
  PROVE  /\ \E F \in SUBSET Udata : \E P \in SUBSET F : H!Condemn(F, P)
         /\ Heap' = Heap /\ Live' = Heap'
         /\ \A u \in Udata : iswhite(u)' => u \in fin'
<1>0. PICK sep, P : sep = {u \in Udata : Separable(u)} /\ P = {u \in sep : HasGC(u)}
  OBVIOUS
<1>. DEFINE T == Objs(UNION {{mt[u], env[u]} : u \in mmudata \cup P})
<1>1. /\ gcstate = "atomic_again" /\ gcstate' = "atomic_ud" /\ gray = {}
      /\ fin' = fin \cup sep /\ mmudata' = mmudata \cup P
      /\ \A o \in Obj : col'[o] = IF o \in mmudata' THEN "black" ELSE Shaded(T)[o]
      /\ UNCHANGED <<white, graph, thvars>>
  BY <1>0 DEF lj_gc_separateudata
<1>2. ~Sweeping /\ ~Sweeping' /\ Live = Heap /\ mmudata \subseteq Heap
  BY <1>1, MarkedLive DEF Sweeping, Safe, PendingLive
<1>3. \A u \in sep : u \in Udata /\ u \in Obj /\ iswhite(u) /\ u \in Heap /\ u \notin fin
  BY <1>0 DEF Separable, iswhite, Heap, Obj
<1>. HIDE DEF T
<1>4. Heap' = Heap /\ Live' = Heap'
  <2>1. \A o \in Obj : o \in mmudata' => o \in Heap
    BY <1>0, <1>1, <1>2, <1>3
  <2>2. Heap' = Heap
    BY <1>1, <2>1, ShadedFreesNone DEF Heap
  <2>. QED BY <1>2, <2>2, MarkedLive DEF Safe
<1>5. H!Unreachable(sep, mmudata)
  <2>. DEFINE S == Nonwhite \cup (Live \cap Str)
  <2>1. S \subseteq Live /\ Live \subseteq Obj
    BY LiveColours
  <2>2. Roots \subseteq S
    BY <1>1, AllTraced
  <2>3. S \cap sep = {}
    BY <1>3, Kinds DEF Nonwhite
  <2>4. ASSUME NEW o \in S \ mmudata PROVE StrongRefs(o) \subseteq S
    <3>. USE StrongOf DEF StrongShapes
    <3>1. o \in Live /\ o \in Obj /\ StrongRefs(o) \subseteq Refs(o) /\ Refs(o) \subseteq Live
      BY <2>1, DividedRefs DEF Divided, Safe, NoDangling
    <3>2. CASE o \in Str
      BY <3>2, RefsOf
    <3>3. CASE Refs(o) \subseteq Nonwhite
      BY <3>1, <3>3
    <3>4. CASE o \in weak /\ Trav(o) \subseteq Nonwhite
      <4>1. StrongStrs(o) \subseteq Str /\ o \in Tab
        BY <3>4, StringsHeld DEF TypeOK
      <4>. QED BY <3>1, <3>4, <4>1
    <3>. QED BY <1>1, <3>2, <3>3, <3>4, AllTraced DEF Traced
  <2>. HIDE DEF S
  <2>. QED BY <2>1, <2>2, <2>3, <2>4 DEF H!Unreachable
<1>6. \A o \in Live : StrongRefs(o)' \cup Loose(o)' = StrongRefs(o) \cup Loose(o)
  <2>1. \A o : Refs(o)' = Refs(o)
    BY <1>1 DEF Refs, Keys, Vals, uvval, graph, thvars
  <2>. QED BY <2>1, LiveColours, DividedRefs, After DEF Divided
<1>7. UNCHANGED Roots
  BY <1>1 DEF Roots, Objs, thvars
<1>8. H!Condemn(sep, P)
  <2>1. fin' \cap Live' = (fin \cap Live) \cup sep
    BY <1>1, <1>2, <1>3, <1>4
  <2>2. sep \cap (fin \cap Live) = {}
    BY <1>3
  <2>. QED BY <1>1, <1>2, <1>4, <1>5, <1>6, <1>7, <2>1, <2>2, LiveColours DEF H!Condemn
<1>9. ASSUME NEW u \in Udata, iswhite(u)' PROVE u \in fin'
  <2>1. u \in Obj /\ iswhite(u) /\ u \notin mmudata'
    BY <1>1, <1>9, ShadedColours DEF iswhite, MarkColour, Obj
  <2>. QED BY <1>0, <1>1, <2>1 DEF Separable
<1>10. sep \in SUBSET Udata /\ P \in SUBSET sep
  BY <1>0
<1>. QED BY <1>4, <1>8, <1>9, <1>10

\* the strings that weak tables keep are those that gc_mayclear meets
LEMMA KeptStrings ==
  ASSUME TypeOK, NEW t \in Tab, Trav(t) \subseteq Nonwhite
  PROVE  StrongStrs(t) \subseteq weakstrs(t)
<1>1. ASSUME NEW d \in ent[t], "k" \in Mode(t) => d[1] \notin Obj \ Str PROVE ~mayclear(d[1], FALSE)
  <2>1. CASE "k" \in Mode(t)
    BY <1>1, <2>1 DEF mayclear
  <2>2. CASE "k" \notin Mode(t)
    <3>1. d[1] \in Obj => d[1] \in Trav(t)
      BY <2>2, Kinds DEF Trav, Keys, Objs
    <3>. QED BY <3>1 DEF mayclear, Nonwhite
  <2>. QED BY <2>1, <2>2
<1>2. ASSUME NEW s \in StrongStrs(t) PROVE s \in weakstrs(t)
  <2>1. CASE s \in Keys(t)
    BY <2>1 DEF Keys, weakstrs
  <2>2. CASE \E d \in ent[t] : s = d[2] /\ ("k" \in Mode(t) => d[1] \notin Obj \ Str)
    BY <1>1, <2>2 DEF weakstrs
  <2>. QED BY <2>1, <2>2 DEF StrongStrs
<1>. QED BY <1>2

\* a weak table loses entries only along with loose references
LEMMA ClearedTables ==
  ASSUME TypeOK, NEW t \in Tab, Trav(t) \subseteq Nonwhite, Mode(t) # {},
         UNCHANGED <<mt, meta, fin>>, ent'[t] = {e \in ent[t] : ~clearable(e)}
  PROVE  /\ StrongRefs(t)' \subseteq StrongRefs(t) /\ Loose(t)' \subseteq Loose(t)
         /\ Loose(t) = {} => StrongRefs(t)' = StrongRefs(t)
<1>. USE StrongOf, LooseOf, After DEF StrongShapes, LooseShapes
<1>1. Mode(t)' = Mode(t)
  BY DEF Mode
<1>2. Keys(t)' \subseteq Keys(t) /\ Vals(t)' \subseteq Vals(t)
  BY DEF Keys, Vals
<1>3. Trav(t)' \subseteq Trav(t)
  BY <1>1, <1>2, Kinds DEF Trav, Objs
<1>4. StrongStrs(t)' \subseteq StrongStrs(t)
  BY <1>1, <1>2 DEF StrongStrs
<1>5. Loose(t)' \subseteq Loose(t)
  BY <1>1, <1>2 DEF Objs
<1>6. ASSUME Loose(t) = {} PROVE ent'[t] = ent[t]
  <2>. SUFFICES ASSUME NEW e \in ent[t] PROVE ~clearable(e)
    OBVIOUS
  <2>1. ~mayclear(e[1], FALSE)
    <3>1. e[1] \in Obj => "k" \notin Mode(t)
      BY <1>6 DEF Keys, Objs
    <3>2. e[1] \in Obj => e[1] \in Trav(t)
      BY <3>1, Kinds DEF Trav, Keys, Objs
    <3>. QED BY <3>2 DEF mayclear, Nonwhite
  <2>2. ~mayclear(e[2], TRUE)
    <3>1. e[2] \in Obj => "v" \notin Mode(t) /\ e[2] \notin fin
      BY <1>6 DEF Vals, Objs
    <3>2. e[2] \in Obj => e[2] \in Trav(t)
      BY <3>1, Kinds DEF Trav, Vals, Objs
    <3>. QED BY <3>1, <3>2 DEF mayclear, Nonwhite
  <2>. QED BY <2>1, <2>2 DEF clearable
<1>7. Loose(t) = {} => StrongRefs(t)' = StrongRefs(t)
  BY <1>1, <1>6, SameTable
<1>. QED BY <1>3, <1>4, <1>5, <1>7

\* the lists of atomic() hold no table that has lost its mode
WeakModes ==
  gcstate \in {"atomic_weak", "atomic_again", "atomic_ud"} => \A t \in weak : Mode(t) # {}

LEMMA FlipCollects ==
  ASSUME TypeOK, TypeOK', Lists, Regular, Safe, Safe', WeakModes, atomic_end
  PROVE  /\ \E G \in SUBSET Live : H!Collect(G)
         /\ Heap' = Heap /\ UNCHANGED fin
         /\ \A u \in Udata : u \in Heap' \ Live' => iswhite(u)
<1>1. PICK strs : strs = Str \cap UNION {weakstrs(t) : t \in weak}
  OBVIOUS
<1>2. /\ gcstate = "atomic_ud" /\ gray = {} /\ ~InAtomic'
      /\ \A t \in Tab : ent'[t] = IF t \in weak THEN {e \in ent[t] : ~clearable(e)} ELSE ent[t]
      /\ \A o \in Obj : col'[o] = IF o \in strs THEN "gray" ELSE col[o]
      /\ white' = otherwhite
      /\ UNCHANGED <<weak, mmudata, fin, mt, env, meta, fuv, uvth, uvix, uval, thvars>>
  BY <1>1 DEF atomic_end, InAtomic, gclists
<1>3. /\ Live = Heap /\ \A t \in weak : t \in Tab /\ t \in Live /\ Refs(t) \subseteq Live
  <2>1. InAtomic
    BY <1>2 DEF InAtomic
  <2>2. Live = Heap /\ \A o \in Heap : Refs(o) \subseteq Heap
    BY <2>1, MarkingHeap
  <2>3. \A t \in weak : t \in Tab /\ isgray(t)
    BY <2>1 DEF Lists, ListsWhileMarking, TypeOK
  <2>. QED BY <2>2, <2>3 DEF isgray, Heap, Obj
<1>4. strs \subseteq Str /\ strs \subseteq Live
  <2>1. ASSUME NEW t \in weak, NEW s \in Str, s \in weakstrs(t) PROVE s \in Live
    <3>1. s \in Keys(t) \cup Vals(t)
      BY <2>1 DEF weakstrs, Keys, Vals
    <3>. QED BY <1>3, <2>1, <3>1, RefsOf DEF Objs, Obj
  <2>. QED BY <1>1, <2>1
<1>5. Live' = Nonwhite \cup strs /\ Heap' = Heap /\ Live' \subseteq Live
  <2>1. \A o \in Obj : o \in Live => col[o] # otherwhite
    BY DEF Live, isdead
  <2>2. \A o \in Obj : o \in Live' <=> o \in Nonwhite \cup strs
    BY <1>2, <1>3, <1>4, <2>1, LiveColours, LiveColoursAfter DEF Reached, TypeOK, otherwhite
  <2>3. \A o \in Obj : o \in Heap' <=> o \in Heap
    BY <1>2, <1>4, LiveColours, LiveColoursAfter
  <2>4. strs \subseteq Obj /\ Nonwhite \subseteq Obj /\ Heap \subseteq Obj /\ Heap' \subseteq Obj /\ Live' \subseteq Obj
    BY <1>4, LiveColours, LiveColoursAfter DEF Obj
  <2>5. Nonwhite \subseteq Live
    BY LiveColours
  <2>. QED BY <1>4, <2>2, <2>3, <2>4, <2>5
<1>6. ASSUME NEW o \in Live' PROVE StrongRefs(o) \subseteq Live'
  <2>. USE StrongOf DEF StrongShapes
  <2>1. o \in Obj /\ StrongRefs(o) \subseteq Refs(o)
    BY LiveColoursAfter, DividedRefs DEF Divided
  <2>2. CASE o \in Str
    BY <2>2, RefsOf
  <2>3. CASE Refs(o) \subseteq Nonwhite
    BY <1>5, <2>1, <2>3
  <2>4. CASE o \in weak /\ Trav(o) \subseteq Nonwhite
    <3>1. StrongStrs(o) \subseteq strs
      BY <1>1, <1>3, <2>4, KeptStrings, StringsHeld
    <3>. QED BY <1>3, <1>5, <2>4, <3>1
  <2>. QED BY <1>2, <1>4, <1>5, <2>2, <2>3, <2>4, AllTraced DEF Traced
<1>7. ASSUME NEW o \in Live'
      PROVE  /\ StrongRefs(o)' \subseteq StrongRefs(o) /\ Loose(o)' \subseteq Loose(o)
             /\ Loose(o) = {} => StrongRefs(o)' = StrongRefs(o)
  <2>. USE StrongOf, LooseOf, After DEF StrongShapes, LooseShapes
  <2>1. o \in Obj
    BY LiveColoursAfter
  <2>2. CASE o \in weak
    <3>1. o \in Tab /\ Trav(o) \subseteq Nonwhite /\ Mode(o) # {}
      BY <1>2, <1>3, <2>2 DEF Safe, AtomicOK, WeakModes
    <3>. QED BY <1>2, <2>2, <3>1, ClearedTables
  <2>3. CASE o \in Tab \ weak
    <3>1. mt'[o] = mt[o] /\ ent'[o] = ent[o] /\ Mode(o)' = Mode(o)
      BY <1>2, <2>3 DEF Mode
    <3>. QED BY <1>2, <2>3, <3>1, SameTable
  <2>4. CASE o \in Thread
    <3>1. env'[o] = env[o] /\ stk'[o] = stk[o] /\ top'[o] = top[o]
      BY <1>2 DEF thvars
    <3>2. LiveSlots(o)' = LiveSlots(o)
      BY <3>1 DEF LiveSlots
    <3>3. (Objs({env[o]} \cup LiveSlots(o)))' = Objs({env[o]} \cup LiveSlots(o))
      BY <3>1, <3>2 DEF Objs
    <3>4. (Objs({stk[o][i] : i \in {j \in Slots : j > top[o]}}))'
          = Objs({stk[o][i] : i \in {j \in Slots : j > top[o]}})
      BY <3>1 DEF Objs
    <3>. QED BY <2>4, <3>3, <3>4
  <2>5. CASE o \in Func \cup Udata \cup Uv \cup Str
    <3>1. o \in Uv => uvval(o)' = uvval(o)
      BY <1>2 DEF uvval, thvars
    <3>2. Refs(o)' = Refs(o)
      BY <1>2, <2>1, <2>5, <3>1, SameRefs, Kinds DEF thvars
    <3>. QED BY <2>5, <3>2
  <2>. QED BY <1>3, <2>1, <2>2, <2>3, <2>4, <2>5 DEF Obj
<1>8. PICK G : G = Live \ Live'
  OBVIOUS
<1>9. H!Collect(G)
  <2>1. fin' \cap Live' = (fin \cap Live) \ G
    BY <1>2, <1>5, <1>8
  <2>2. Live' = Live \ G /\ Live \subseteq Obj
    BY <1>5, <1>8, LiveColours
  <2>3. Roots' = Roots
    BY <1>2 DEF Roots, Objs, thvars
  <2>4. Roots \cup mmudata \subseteq Live'
    BY <1>2, <2>3 DEF Safe, NoDangling, PendingLive
  <2>5. \A o \in Live' : Loose(o)' \cap G = {}
    BY <1>8, LiveColoursAfter, After DEF Divided, Safe, NoDangling
  <2>. QED BY <1>2, <1>6, <1>7, <2>1, <2>2, <2>3, <2>4, <2>5 DEF H!Collect
<1>10. ASSUME NEW u \in Udata, u \in Heap' \ Live' PROVE iswhite(u)
  BY <1>5, <1>10 DEF Nonwhite
<1>. QED BY <1>2, <1>5, <1>8, <1>9, <1>10

LEMMA FinalizerCalled ==
  ASSUME TypeOK, TypeOK', Safe, Safe', NEW u \in Udata, gc_finalize(u)
  PROVE  H!Finalize(u) /\ Live' = Live /\ Heap' = Heap /\ UNCHANGED fin /\ ~InAtomic'
<1>1. /\ u \in mmudata /\ mmudata' = mmudata \ {u} /\ col' = [col EXCEPT ![u] = white]
      /\ UNCHANGED <<white, fin, basemt, cur, jit>> /\ ~InAtomic'
  BY DEF gc_finalize, InAtomic
<1>2. u \in Live /\ u \in Obj
  BY <1>1 DEF Safe, PendingLive, Obj
<1>3. Live' = Live /\ Heap' = Heap
  <2>1. \A o \in Obj : (o \in Live' <=> o \in Live) /\ (o \in Heap' <=> o \in Heap)
    BY <1>1, <1>2, LiveColours, LiveColoursAfter DEF TypeOK
  <2>. QED BY <2>1, LiveColours, LiveColoursAfter
<1>4. Roots' = Roots
  BY <1>1 DEF Roots, Objs
<1>5. H!Sound
  BY SoundAfter DEF Safe
<1>. QED BY <1>1, <1>3, <1>4, <1>5 DEF H!Finalize

(***************************************************************************)
(* The theorems                                                            *)
(***************************************************************************)

\* userdata are condemned only after lj_gc_separateudata has flagged them
Finalized ==
  /\ Udata \cap (Heap \ Live) \subseteq fin
  /\ gcstate = "atomic_ud" => \A u \in Udata : iswhite(u) => u \in fin
\* userdata that a step frees were condemned before it
UdataKept == \A u \in Udata : u \in Heap => u \in Heap' \/ u \notin Live

\* outside atomic() and with the heap as it was, nothing is left to show
LEMMA SameFinalized ==
  ASSUME Finalized, UNCHANGED fin, Live' = Live, Heap' = Heap, ~InAtomic'
  PROVE  Finalized' /\ WeakModes' /\ UdataKept
BY DEF Finalized, WeakModes, UdataKept, InAtomic

LEMMA MarksRefine ==
  ASSUME TypeOK, TypeOK', Lists, Regular, Safe, Safe', WeakModes, Finalized,
         \/ gc_mark_start \/ propagate_end
         \/ atomic_mark_uv \/ atomic_weak \/ atomic_grayagain
  PROVE  H!Next /\ Finalized' /\ WeakModes' /\ UdataKept
<1>1. Weakened /\ Live' = Heap' /\ Heap' = Heap
  BY MarkWeakens DEF Safe
<1>2. gcstate' # "atomic_ud"
  BY DEF gc_mark_start, propagate_end, atomic_mark_uv, atomic_weak, atomic_grayagain
<1>3. WeakModes'
  <2>1. gcstate' \in {"atomic_weak", "atomic_again"} =>
          weak' = {} \/ (gcstate = "atomic_weak" /\ UNCHANGED <<weak, mt, meta>>)
    BY DEF gc_mark_start, propagate_end, atomic_mark_uv, atomic_weak, atomic_grayagain, graph
  <2>. QED BY <1>2, <2>1 DEF WeakModes, Mode
<1>4. H!Next
  BY <1>1, WeakenedForgets DEF H!Next
<1>. QED BY <1>1, <1>2, <1>3, <1>4 DEF Finalized, UdataKept

LEMMA PropagateRefines ==
  ASSUME TypeOK, TypeOK', Lists, Regular, Safe, Safe', WeakModes, Finalized,
         NEW o \in Obj, propagatemark(o)
  PROVE  H!Next /\ Finalized' /\ WeakModes' /\ UdataKept
<1>1. Weakened /\ Live' = Heap' /\ Heap' = Heap
  BY PropagateWeakens DEF Safe
<1>2. /\ UNCHANGED <<gcstate, fin, mt, meta>>
      /\ weak' = weak \/ (weak' = weak \cup {o} /\ Mode(o) # {})
      /\ \A x \in Obj : iswhite(x)' => iswhite(x)
  <2>1. \A x \in Obj : iswhite(x)' => iswhite(x)
    BY ShadedColours DEF propagatemark, iswhite, MarkColour
  <2>. QED BY <2>1 DEF propagatemark, colvars, graph
<1>3. Finalized'
  BY <1>1, <1>2 DEF Finalized, Obj
<1>4. WeakModes'
  BY <1>2 DEF WeakModes, Mode
<1>5. H!Next
  BY <1>1, WeakenedForgets DEF H!Next
<1>. QED BY <1>1, <1>3, <1>4, <1>5 DEF UdataKept

LEMMA AtomicRefines ==
  ASSUME TypeOK, TypeOK', Lists, Regular, Safe, Safe', WeakModes, Finalized,
         lj_gc_separateudata \/ atomic_end
  PROVE  H!Next /\ Finalized' /\ WeakModes' /\ UdataKept
<1>1. CASE lj_gc_separateudata
  <2>1. /\ \E F \in SUBSET Udata : \E P \in SUBSET F : H!Condemn(F, P)
        /\ Heap' = Heap /\ Live' = Heap'
        /\ \A u \in Udata : iswhite(u)' => u \in fin'
    BY <1>1, SeparateCondemns DEF Safe
  <2>2. gcstate = "atomic_again" /\ UNCHANGED <<weak, mt, meta>>
    BY <1>1 DEF lj_gc_separateudata, graph
  <2>3. WeakModes'
    BY <2>2 DEF WeakModes, Mode
  <2>. QED BY <2>1, <2>3 DEF H!Next, Finalized, UdataKept
<1>2. CASE atomic_end
  <2>1. /\ \E G \in SUBSET Live : H!Collect(G)
        /\ Heap' = Heap /\ UNCHANGED fin
        /\ \A u \in Udata : u \in Heap' \ Live' => iswhite(u)
    BY <1>2, FlipCollects
  <2>2. gcstate = "atomic_ud" /\ gcstate' = "sweepstring"
    BY <1>2 DEF atomic_end
  <2>3. Finalized' /\ WeakModes'
    BY <2>1, <2>2 DEF Finalized, WeakModes
  <2>. QED BY <2>1, <2>3 DEF H!Next, UdataKept
<1>. QED BY <1>1, <1>2

LEMMA SweepsRefine ==
  ASSUME TypeOK, TypeOK', UvInv, Regular, Safe, Safe', WeakModes, Finalized,
         \/ \E s \in Str : sweepstring(s)
         \/ \E o \in Obj : gc_sweep(o)
         \/ sweepstring_end \/ gc_sweep_end \/ gc_finalize_end \/ fullgc_cycle \/ finalizer_error
         \/ \E u \in Udata : gc_finalize(u)
  PROVE  H!Next /\ Finalized' /\ WeakModes' /\ UdataKept
<1>1. CASE \E s \in Str : sweepstring(s)
  <2>1. PICK s \in Str : sweepstring(s)
    BY <1>1
  <2>2. gcstate' = "sweepstring"
    BY <2>1 DEF sweepstring
  <2>3. PICK freed \in SUBSET Str : Heap' = Heap \ freed /\ freed \cap Live = {}
    BY <2>1, SweptStringWeakens
  <2>4. Weakened /\ UNCHANGED fin
    BY <2>1, SweptStringWeakens
  <2>5. \A u \in Udata : (u \in Heap' <=> u \in Heap) /\ (u \in Live' <=> u \in Live)
    BY <2>3, <2>4, Kinds DEF Weakened
  <2>6. H!Next
    BY <2>4, WeakenedForgets DEF H!Next
  <2>. QED BY <2>2, <2>4, <2>5, <2>6 DEF Finalized, WeakModes, UdataKept
<1>2. CASE \E o \in Obj : gc_sweep(o)
  <2>1. PICK o \in Obj : gc_sweep(o)
    BY <1>2
  <2>2. gcstate' = "sweep"
    BY <2>1 DEF gc_sweep
  <2>3. /\ Weakened /\ Heap \ Live \subseteq (Heap' \ Live') \cup (Heap \ Heap')
        /\ Heap' \subseteq Heap /\ fin \cap Heap' \subseteq fin'
    BY <2>1, SweptWeakens
  <2>4. Live' = Live /\ Live' \subseteq Heap'
    BY <2>3 DEF Weakened, Live
  <2>5. H!Next
    BY <2>3, WeakenedForgets DEF H!Next
  <2>. QED BY <2>2, <2>3, <2>4, <2>5 DEF Finalized, WeakModes, UdataKept
<1>3. CASE sweepstring_end \/ gc_sweep_end \/ gc_finalize_end \/ fullgc_cycle \/ finalizer_error
  <2>1. Weakened /\ UNCHANGED fin /\ Heap' = Heap /\ ~InAtomic'
    BY <1>3, EndWeakens
  <2>2. Live' = Live
    BY <2>1 DEF Weakened
  <2>. QED BY <2>1, <2>2, SameFinalized, WeakenedForgets DEF H!Next
<1>4. CASE \E u \in Udata : gc_finalize(u)
  <2>1. PICK u \in Udata : gc_finalize(u)
    BY <1>4
  <2>2. H!Finalize(u) /\ Live' = Live /\ Heap' = Heap /\ UNCHANGED fin /\ ~InAtomic'
    BY <2>1, FinalizerCalled
  <2>. QED BY <2>1, <2>2, SameFinalized DEF H!Next
<1>. QED BY <1>1, <1>2, <1>3, <1>4

LEMMA StepRefines ==
  ASSUME NoSetUpvalue, IInv, IInv', WeakModes, Finalized, [Next]_vars
  PROVE  [H!Next]_(H!vars) /\ Finalized' /\ WeakModes' /\ UdataKept
<1>1. TypeOK /\ TypeOK' /\ UvInv /\ Lists /\ Regular /\ Safe /\ Safe'
  BY DEF IInv, Regular, Safe
<1>2. CASE \E p \in Programs : Mutator(p)
  <2>1. Grown
    BY <1>1, <1>2, MutatorGrown DEF NoSetUpvalue
  <2>2. H!Next
    BY <1>1, <2>1, GrownMutates DEF Safe, H!Next
  <2>3. Udata \cap (Heap \ Live) = Udata \cap (Heap \ Live)'
    BY <2>1 DEF Grown
  <2>4. Finalized' /\ WeakModes' /\ UdataKept
    BY <2>1, <2>3 DEF Grown, Finalized, WeakModes, UdataKept, InAtomic
  <2>. QED BY <2>2, <2>4
<1>3. CASE Collector \/ finalizer_error
  BY <1>1, <1>3, MarksRefine, PropagateRefines, AtomicRefines, SweepsRefine DEF Collector
<1>4. CASE UNCHANGED vars
  <2>1. UNCHANGED <<gcstate, white, col, weak, graph, thvars, fin, mmudata>>
    BY <1>4 DEF vars, gcvars, gclists
  <2>2. Live' = Live /\ Heap' = Heap
    BY <2>1 DEF Live, Heap, isdead, otherwhite
  <2>3. H!Next
    BY <1>1, <2>1, <2>2, SameGraph, WeakenedForgets DEF H!Next
  <2>4. Finalized' /\ WeakModes' /\ UdataKept
    BY <2>1, <2>2 DEF Finalized, WeakModes, UdataKept, iswhite, Mode, graph
  <2>. QED BY <2>3, <2>4
<1>. QED BY <1>2, <1>3, <1>4 DEF Next

LEMMA StartRefines == Init => H!Init /\ Finalized /\ WeakModes
<1>. SUFFICES ASSUME Init PROVE H!Init /\ Finalized /\ WeakModes
  OBVIOUS
<1>1. TypeOK /\ Safe /\ Heap = {Main, Reg, Glob} /\ Live = Heap
  BY InitType, SafeInit, Permanent DEF Init, Heap, Live, isdead, otherwhite, Obj
<1>2. Finalized /\ WeakModes
  BY <1>1 DEF Init, Finalized, WeakModes
<1>3. Live \subseteq Obj /\ Roots \subseteq Live
  BY <1>1, LiveColours DEF Safe, NoDangling
<1>4. \A o \in Live : StrongRefs(o) \subseteq Live
  BY <1>1, <1>3, DividedRefs DEF Divided, Safe, NoDangling
<1>5. \A o \in Live : Loose(o) = {}
  <2>1. \A t \in Tab : Keys(t) = {} /\ Vals(t) = {}
    BY DEF Init, Keys, Vals
  <2>2. \A t \in Tab : Loose(t) = {}
    BY <2>1, LooseOf DEF LooseShapes, Objs
  <2>3. \A th \in Thread : Loose(th) = {}
    BY LooseOf, Kinds DEF LooseShapes, Objs, Init
  <2>. QED BY <1>1, <2>2, <2>3, Permanent
<1>6. mmudata = {} /\ fin \cap Live = {}
  BY DEF Init
<1>. QED BY <1>2, <1>3, <1>4, <1>5, <1>6 DEF H!Init

\* Userdata are freed only after lj_gc_separateudata has flagged them, and
\* never while their finalizer is still due: whatever the program does, except
\* debug.setupvalue, gc_sweep frees no userdata that it has not looked at.
THEOREM FreedOnlyFinalized ==
  ASSUME NoSetUpvalue
  PROVE  Spec => FreedUdataFinalized
<1>. DEFINE A == \A u \in Udata : u \in Heap /\ u \notin Heap' => u \in fin /\ u \notin mmudata
<1>1. IInv /\ IInv' /\ WeakModes /\ Finalized /\ [Next]_vars => A /\ Finalized' /\ WeakModes'
  <2>. SUFFICES ASSUME IInv, IInv', WeakModes, Finalized, [Next]_vars
                PROVE  A /\ Finalized' /\ WeakModes'
    OBVIOUS
  <2>1. UdataKept /\ Finalized' /\ WeakModes'
    BY StepRefines
  <2>2. A
    BY <2>1 DEF UdataKept, Finalized, IInv, PendingLive
  <2>. QED BY <2>1, <2>2
<1>2. Init => Finalized /\ WeakModes
  BY StartRefines
<1>. QED BY <1>1, <1>2, CollectorInvariant, PTL DEF Spec, FreedUdataFinalized

\* The collector keeps the promises of Heap to every program that does not use
\* debug.setupvalue: it takes away only what no path of strong references
\* reaches, drops weak references no later than their target, and calls
\* finalizers at most once, on userdata that are still there.
THEOREM CollectorImplementsHeap ==
  ASSUME NoSetUpvalue
  PROVE  Spec => ImplementsHeap
<1>1. IInv /\ IInv' /\ WeakModes /\ Finalized /\ [Next]_vars
        => [H!Next]_(H!vars) /\ Finalized' /\ WeakModes'
  BY StepRefines
<1>2. Init => H!Init /\ Finalized /\ WeakModes
  BY StartRefines
<1>. QED BY <1>1, <1>2, CollectorInvariant, PTL DEF Spec, ImplementsHeap, H!Spec
=============================================================================
