---------------------------- MODULE LJMCodeProofs ----------------------------
(* Memory for machine code is safe for any number of areas and traces and for   *)
(* areas of any size: an inductive invariant of LJMCode, and what follows.      *)
EXTENDS LJMCode, TLAPS, FiniteSetTheorems

Compiling == pc \notin {"idle", "event"}

\* where things are in the current area, and that areas are whole
Geometry ==
  /\ mc.mcarea # NoArea => /\ Link <= mc.mcbot /\ mc.mcbot <= mc.mctop /\ mc.mctop <= mc.szmcarea
                           /\ mem[mc.mcarea].size = mc.szmcarea
  /\ \A g \in Group : stubs[g].area # NoArea /\ stubs[g].area = mc.mcarea => stubs[g].hi <= mc.mcbot
  /\ \A t \in Trace : code[t].area # NoArea /\ code[t].area = mc.mcarea => mc.mctop <= code[t].lo
  /\ \A g \in Group : stubs[g] # Nowhere => Inside(stubs[g])
  /\ \A t \in Trace : code[t] # NoCode => Inside(code[t])
  /\ \A t \in Trace : code[t] # NoCode => code[t].groups <= NGroups

\* the trace that is assembled, and its parent
Assigned ==
  /\ job.trace \in Trace /\ 0 < job.len /\ job.groups <= NGroups
  /\ job.parent # NoTrace => job.parent \in Trace /\ code[job.parent] # NoCode

\* what the assembler knows about the current area
Assembling ==
  /\ Compiling => Assigned
  /\ pc \in {"stubs", "emit", "patch", "patching", "commit"} =>
       /\ mc.mcarea # NoArea /\ asm.mcbot = mc.mcbot /\ asm.mclim = mc.mcbot + RedZone
       /\ asm.mctop <= mc.mctop
  /\ pc = "stubs" => asm.mctop = mc.mctop
  /\ pc = "emit" => /\ asm.mcp <= asm.mctop - TailRoom
                    /\ asm.left <= job.len
                    /\ asm.left < job.len => mc.mcbot <= asm.mcp /\ mc.mcbot + RedZone <= asm.mctop
                    /\ asm.realign = "set" => mc.mcbot <= asm.mctop
  /\ pc \in {"patch", "patching", "commit"} => mc.mcbot <= asm.mcp /\ asm.mcp <= asm.mctop
  /\ pc \in {"patch", "patching"} => job.parent # NoTrace
  /\ pc \in {"emit", "patch", "patching", "commit"} =>
       \A g \in 0 .. job.groups - 1 : stubs[g] # Nowhere

\* who may be writable, and when
Protection ==
  /\ mc.mcarea # NoArea => mem[mc.mcarea].prot = mc.mcprot /\ mc.mcprot \in {RW, RX}
  /\ \A a \in Area : /\ a # mc.mcarea /\ a # patching /\ mem[a] # Unmapped => mem[a].prot = RX
                     /\ mem[a] # Unmapped => mem[a].prot # "none"
  /\ mc.mcarea # NoArea => mem[mc.mcarea] # Unmapped
  /\ ~Compiling /\ mc.mcarea # NoArea => mc.mcprot = RX
  /\ pc \in {"stubs", "emit", "patch"} => mc.mcprot = RW
  /\ pc = "patching" => mem[patching].prot = RW /\ mem[patching] # Unmapped
  /\ pc = "patching" <=> patching # NoArea

\* what has been written once is apart from all else
Spans ==
  /\ \A g \in Group, h \in Group : g # h /\ stubs[g] # Nowhere /\ stubs[h] # Nowhere =>
       Apart(stubs[g], stubs[h])
  /\ \A t \in Trace, u \in Trace : t # u /\ code[t] # NoCode /\ code[u] # NoCode =>
       Apart(code[t], code[u])
  /\ \A g \in Group, t \in Trace : stubs[g] # Nowhere /\ code[t] # NoCode =>
       Apart(stubs[g], code[t])

IInv == TypeOK /\ Geometry /\ Assembling /\ Protection /\ Spans /\ ExitsLead

LEMMA Positions ==
  /\ Link \in Int /\ RedZone \in Int /\ MaxIns \in Int /\ TailRoom \in Int /\ GroupSize \in Int
  /\ 0 < Link /\ 1 <= MaxIns /\ MaxIns <= RedZone /\ 0 <= TailRoom /\ TailRoom <= MaxIns
  /\ 0 < GroupSize
BY Layout, RedZoneCovers

LEMMA AreasFit == \A sz \in Sizes : sz \in Nat /\ Link <= sz
<1>1. NGroups * GroupSize \in Nat
  BY Layout
<1>. QED BY <1>1, Layout, RedZoneCovers, AreasLargeEnough

-------------------------------------------------------------------------------
(* Type correctness.                                                            *)

LEMMA ProtectType ==
  ASSUME TypeOK, NEW prot \in {RW, RX}, Protect(prot)
  PROVE  /\ mc' = [mc EXCEPT !.mcprot = prot]
         /\ mc' \in JitState
         /\ mem' \in [Area -> AreaState]
BY DEF Protect, SetProt, TypeOK, JitState, AreaState, RW, RX

LEMMA SetProtType ==
  ASSUME NEW m \in [Area -> AreaState], NEW a, NEW prot \in {RW, RX}, NEW n \in SetProt(m, a, prot)
  PROVE  n \in [Area -> AreaState]
BY DEF SetProt, AreaState, RW, RX

LEMMA AllocType ==
  ASSUME TypeOK, NEW m \in [Area -> AreaState], AllocArea(m)
  PROVE  /\ mc' \in JitState
         /\ mem' \in [Area -> AreaState]
<1>1. mc \in JitState /\ param \in Nat
  BY AreasFit DEF TypeOK
<1>2. PICK a \in Area : /\ mem' = [m EXCEPT ![a] = [prot |-> RW, size |-> param, next |-> mc.mcarea]]
                        /\ mc' = AllocatedAt(mc, a)
  BY DEF AllocArea
<1>3. [prot |-> RW, size |-> param, next |-> mc.mcarea] \in AreaState
  BY <1>1 DEF JitState, AreaState, RW
<1>. QED BY <1>1, <1>2, <1>3, Positions DEF AllocatedAt, JitState, RW

LEMMA RaiseType ==
  ASSUME NEW e \in {"MCODEAL", "MCODEOV", "MCODELM", "other"}, Raise(e)
  PROVE  err' \in Errors /\ pc' \in Phase
BY DEF Raise, Errors, Phase

LEMMA FlushedType ==
  ASSUME TypeOK, Flushed
  PROVE  /\ mc' \in JitState /\ mem' \in [Area -> AreaState]
         /\ stubs' \in [Group -> Span] /\ code' \in [Trace -> TraceCode]
<1>1. mc' \in JitState
  BY DEF Flushed, TypeOK, JitState
<1>2. mem' \in [Area -> AreaState]
  BY DEF Flushed, AreaState, Unmapped
<1>3. stubs' \in [Group -> Span] /\ code' \in [Trace -> TraceCode]
  BY DEF Flushed, TraceCode, Span, NoCode, Nowhere
<1>. QED BY <1>1, <1>2, <1>3

LEMMA IdleType == IdleAs \in ASMState /\ NoJob \in Job
BY DEF IdleAs, ASMState, NoJob, Job

LEMMA TypeStep ==
  ASSUME TypeOK, Assembling, [Next]_vars
  PROVE  TypeOK'
<1>0. /\ asm \in ASMState /\ job \in Job /\ mc \in JitState /\ err \in Errors
      /\ Pad \in Nat /\ TailRoom \in Nat
  BY Positions, Layout DEF TypeOK
<1>1. CASE Reserve
  <2>1. mc' \in JitState /\ mem' \in [Area -> AreaState]
    BY <1>1, AllocType, ProtectType DEF Reserve, ReserveArea, TypeOK
  <2>2. asm' \in ASMState
    BY <1>0, <1>1, <2>1, Positions DEF Reserve, JitState, ASMState
  <2>. QED BY <1>1, <2>1, <2>2 DEF Reserve, TypeOK, Phase, Errors
<1>2. CASE ReserveFails
  BY <1>2, RaiseType DEF ReserveFails, TypeOK
<1>3. CASE ExitStubGen
  <2>1. mc' \in JitState
    <3>1. asm.mcbot = mc.mcbot
      BY <1>3 DEF ExitStubGen, Assembling
    <3>2. mc.mcbot + GroupSize \in Nat
      BY <1>0, Positions DEF JitState
    <3>. QED BY <1>0, <1>3, <3>1, <3>2 DEF ExitStubGen, JitState
  <2>2. asm' \in ASMState
    <3>1. asm.mcbot + GroupSize \in Int /\ asm.mcbot + GroupSize + RedZone \in Int
      BY <1>0, Positions DEF ASMState
    <3>. QED BY <1>0, <1>3, <3>1 DEF ExitStubGen, ASMState
  <2>3. [area |-> mc.mcarea, lo |-> asm.mcbot, hi |-> asm.mcbot + GroupSize] \in Span
    BY <1>0, Positions DEF JitState, ASMState, Span
  <2>4. stubs' \in [Group -> Span]
    BY <1>3, <2>3 DEF ExitStubGen, TypeOK
  <2>. QED BY <1>3, <2>1, <2>2, <2>4 DEF ExitStubGen, TypeOK
<1>4. CASE TailPrep
  <2>1. asm' \in ASMState
    <3>1. asm.mctop - TailRoom \in Int /\ job.len \in Int
      BY <1>0, Positions DEF ASMState, Job
    <3>. QED BY <1>0, <1>4, <3>1 DEF TailPrep, ASMState
  <2>. QED BY <1>4, <2>1 DEF TailPrep, TypeOK, Phase
<1>5. CASE LimitErr
  <2>1. CASE Need > param \/ mc.szall + param > MaxMCode
    BY <1>5, <2>1, ProtectType, RaiseType DEF LimitErr, TypeOK
  <2>2. CASE ~(Need > param \/ mc.szall + param > MaxMCode)
    <3>1. PICK m \in AfterAbort : AllocArea(m) /\ Raise("MCODELM")
      BY <1>5, <2>2 DEF LimitErr
    <3>2. m \in [Area -> AreaState]
      BY <3>1, SetProtType DEF AfterAbort, TypeOK
    <3>. QED BY <1>5, <3>1, <3>2, AllocType, RaiseType DEF LimitErr, TypeOK
  <2>. QED BY <2>1, <2>2
<1>6. CASE LimitErrNoMemory
  BY <1>6, ProtectType, RaiseType DEF LimitErrNoMemory, TypeOK
<1>7. CASE AsmError
  BY <1>7, RaiseType DEF AsmError, TypeOK
<1>8. CASE \E n \in 0 .. Pad : Realign(n)
  <2>0. PICK n \in 0 .. Pad : Realign(n)
    BY <1>8
  <2>1. asm' \in ASMState
    <3>1. asm.mctop - n \in Int /\ asm.mctop - n - TailRoom \in Int /\ job.len \in Int
      BY <1>0, Positions DEF ASMState, Job
    <3>. QED BY <1>0, <2>0, <3>1 DEF Realign, ASMState
  <2>. QED BY <1>8, <2>1 DEF Realign, TypeOK
<1>9. CASE \E n \in 0 .. TailRoom : Finish(n)
  <2>0. PICK n \in 0 .. TailRoom : Finish(n)
    BY <1>9
  <2>1. asm' \in ASMState
    BY <1>0, <2>0, Positions DEF Finish, ASMState
  <2>. QED BY <1>9, <2>1 DEF Finish, TypeOK, Phase
<1>10. CASE \E n \in 1 .. MaxIns : n <= asm.left /\ Emit(n)
  <2>0. PICK n \in 1 .. MaxIns : n <= asm.left /\ Emit(n)
    BY <1>10
  <2>1. asm' \in ASMState
    <3>1. asm.mcp - n \in Int /\ asm.left - n \in Int
      BY <1>0, Positions DEF ASMState
    <3>. QED BY <1>0, <2>0, <3>1 DEF Emit, ASMState
  <2>. QED BY <1>10, <2>1 DEF Emit, TypeOK
<1>11. CASE PatchStart
  <2>1. mc' \in JitState /\ mem' \in [Area -> AreaState]
    <3>1. CASE code[job.parent].area = mc.mcarea
      BY <1>11, <3>1, ProtectType DEF PatchStart, TypeOK
    <3>2. CASE code[job.parent].area # mc.mcarea
      BY <1>11, <3>2, SetProtType DEF PatchStart, TypeOK
    <3>. QED BY <3>1, <3>2
  <2>2. patching' \in Area \cup {NoArea}
    <3>1. job.parent \in Trace
      BY <1>0, <1>11 DEF PatchStart, Assembling, Job
    <3>2. code[job.parent] \in TraceCode
      BY <3>1 DEF TypeOK
    <3>. QED BY <1>11, <3>2 DEF PatchStart, TraceCode
  <2>. QED BY <1>11, <2>1, <2>2 DEF PatchStart, TypeOK, Phase
<1>12. CASE PatchFinish
  <2>1. mc' \in JitState /\ mem' \in [Area -> AreaState]
    BY <1>12, ProtectType, SetProtType DEF PatchFinish, TypeOK
  <2>. QED BY <1>12, <2>1 DEF PatchFinish, TypeOK, Phase
<1>13. CASE Commit
  <2>1. mc' \in JitState
    <3>1. mc.mcbot <= asm.mcp
      BY <1>13 DEF Commit, Assembling
    <3>2. asm.mcp \in Nat
      BY <1>0, <3>1 DEF JitState, ASMState
    <3>. QED BY <1>0, <1>13, <3>2 DEF Commit, CommitTop, JitState, RX
  <2>2. mem' \in [Area -> AreaState]
    BY <1>13, SetProtType DEF Commit, TypeOK
  <2>3. [area |-> mc.mcarea, lo |-> asm.mcp, hi |-> asm.mctop, groups |-> job.groups] \in TraceCode
    BY <1>0 DEF JitState, ASMState, Job, TraceCode
  <2>4. code' \in [Trace -> TraceCode]
    BY <1>13, <2>3 DEF Commit, TypeOK
  <2>. QED BY <1>13, <2>1, <2>2, <2>4 DEF Commit, TypeOK, Phase
<1>14. CASE Abort
  <2>1. mc' \in JitState /\ mem' \in [Area -> AreaState]
    <3>1. CASE mc.mcarea = NoArea
      BY <1>14, <3>1 DEF Abort, McodeAbort, TypeOK
    <3>2. CASE mc.mcarea # NoArea
      BY <1>14, <3>2, ProtectType DEF Abort, McodeAbort
    <3>. QED BY <3>1, <3>2
  <2>2. retries' \in Nat
    BY <1>14 DEF Abort, TypeOK
  <2>. QED BY <1>14, <2>1, <2>2 DEF Abort, TypeOK, Phase
<1>15. CASE EventDone
  BY <1>15, FlushedType, IdleType DEF EventDone, TypeOK, Phase, Errors
<1>16. CASE FlushAll
  BY <1>16, FlushedType DEF FlushAll, TypeOK
<1>17. CASE \E t \in Trace, p \in Parents, len \in Lengths, g \in 0 .. NGroups : Start(t, p, len, g)
  <2>1. PICK t \in Trace, p \in Parents, len \in Lengths, g \in 0 .. NGroups : Start(t, p, len, g)
    BY <1>17
  <2>2. job' \in Job
    BY <1>0, <2>1, LengthsPositive, Positions DEF Start, Parents, Job
  <2>. QED BY <2>1, <2>2 DEF Start, TypeOK, Phase
<1>18. CASE \E t \in Trace : Drop(t)
  <2>1. NoCode \in TraceCode
    BY <1>0 DEF NoCode, TraceCode
  <2>. QED BY <1>18, <2>1 DEF Drop, TypeOK
<1>19. CASE \E sz \in Sizes : SetParam(sz)
  BY <1>19 DEF SetParam, TypeOK
<1>20. CASE UNCHANGED vars
  BY <1>20 DEF vars, TypeOK
<1>. QED
  BY <1>1, <1>2, <1>3, <1>4, <1>5, <1>6, <1>7, <1>8, <1>9, <1>10, <1>11, <1>12, <1>13, <1>14,
     <1>15, <1>16, <1>17, <1>18, <1>19, <1>20 DEF Next, Compile

-------------------------------------------------------------------------------
(* Where things are.                                                            *)

\* areas are neither lost nor resized
Kept == \A a \in Area : mem[a] # Unmapped => mem'[a] # Unmapped /\ mem'[a].size = mem[a].size
\* the current area is the same, and what is free in it
SameArea == /\ mc'.mcarea = mc.mcarea /\ mc'.mctop = mc.mctop /\ mc'.mcbot = mc.mcbot
            /\ mc'.szmcarea = mc.szmcarea

LEMMA InsideKept ==
  ASSUME Kept, NEW x, Inside(x)
  PROVE  x.area \in Area /\ mem'[x.area] # Unmapped /\ Link <= x.lo /\ x.lo <= x.hi /\ x.hi <= mem'[x.area].size
BY DEF Kept, Inside

\* a step that writes no code and no stub
LEMMA Framed ==
  ASSUME IInv, Kept, SameArea, UNCHANGED <<stubs, code>>,
         mc.mcarea # NoArea => mem[mc.mcarea] # Unmapped
  PROVE  Geometry' /\ Spans' /\ ExitsLead'
<1>1. Spans'
  BY DEF IInv, Spans, Apart
<1>2. ExitsLead'
  BY InsideKept DEF IInv, ExitsLead, Inside
<1>3. mc.mcarea # NoArea => mc.mcarea \in Area /\ mem'[mc.mcarea].size = mem[mc.mcarea].size
  BY DEF IInv, TypeOK, JitState, Kept
<1>4. Geometry'
  BY <1>3, InsideKept DEF IInv, Geometry, SameArea, Inside
<1>. QED BY <1>1, <1>2, <1>4

\* a new area
LEMMA Opened ==
  ASSUME IInv, NEW m \in [Area -> AreaState], AllocArea(m), UNCHANGED <<stubs, code>>,
         \A a \in Area : (m[a] = Unmapped <=> mem[a] = Unmapped) /\ m[a].size = mem[a].size
  PROVE  /\ Geometry' /\ Spans' /\ ExitsLead'
         /\ mc'.mcarea \in Area /\ mc'.mcprot = RW
         /\ mem'[mc'.mcarea].prot = RW /\ mem'[mc'.mcarea] # Unmapped
         /\ mem[mc'.mcarea] = Unmapped
         /\ \A b \in Area : b # mc'.mcarea => mem'[b] = m[b]
<1>1. PICK a \in Area : /\ m[a] = Unmapped
                        /\ mem' = [m EXCEPT ![a] = [prot |-> RW, size |-> param, next |-> mc.mcarea]]
                        /\ mc' = AllocatedAt(mc, a)
  BY DEF AllocArea
<1>2. mem[a] = Unmapped /\ a # NoArea
  BY <1>1, Identities
<1>3. \A b \in Area \ {a} : mem'[b] = m[b]
  BY <1>1
<1>4. Kept
  BY <1>2, <1>3 DEF Kept
<1>5. /\ mc'.mcarea = a /\ mc'.mctop = param /\ mc'.mcbot = Link /\ mc'.szmcarea = param
      /\ mem'[a].size = param
  BY <1>1 DEF AllocatedAt
<1>6. /\ \A g \in Group : stubs[g].area # a
      /\ \A t \in Trace : code[t].area # a
  BY <1>2 DEF IInv, Geometry, Inside, Nowhere, NoCode
<1>7. Spans'
  BY DEF IInv, Spans, Apart
<1>8. ExitsLead'
  BY <1>4, InsideKept DEF IInv, ExitsLead, Inside
<1>9. Link <= param
  BY AreasFit DEF IInv, TypeOK
<1>10. param <= param /\ param \in Int /\ Link \in Int
  BY AreasFit, Positions DEF IInv, TypeOK
<1>11. mc'.mcarea # NoArea => /\ Link <= mc'.mcbot /\ mc'.mcbot <= mc'.mctop /\ mc'.mctop <= mc'.szmcarea
                              /\ mem'[mc'.mcarea].size = mc'.szmcarea
  BY <1>5, <1>9, <1>10
<1>12. /\ \A g \in Group : stubs'[g] # Nowhere => Inside(stubs[g])'
       /\ \A t \in Trace : code'[t] # NoCode => Inside(code[t])'
  BY <1>4, InsideKept DEF IInv, Geometry, Inside
<1>13. Geometry'
  BY <1>5, <1>6, <1>11, <1>12 DEF IInv, Geometry
<1>14. /\ mc'.mcprot = RW /\ mem'[a].prot = RW
  BY <1>1 DEF AllocatedAt
<1>15. mem'[a] # Unmapped
  BY <1>14 DEF Unmapped, RW
<1>. QED BY <1>2, <1>3, <1>5, <1>7, <1>8, <1>13, <1>14, <1>15

\* everything is given back
LEMMA Emptied ==
  ASSUME IInv, Flushed
  PROVE  Geometry' /\ Spans' /\ ExitsLead'
<1>1. \A g \in Group : stubs'[g] = Nowhere
  BY DEF Flushed
<1>2. \A t \in Trace : code'[t] = NoCode
  BY DEF Flushed
<1>3. mc'.mcarea = NoArea
  <2>1. mc \in JitState
    BY DEF IInv, TypeOK
  <2>2. mc' = [mc EXCEPT !.mcarea = NoArea, !.szall = 0]
    BY DEF Flushed
  <2>. QED BY <2>1, <2>2 DEF JitState
<1>4. Geometry'
  BY <1>1, <1>2, <1>3 DEF Geometry, Nowhere, NoCode
<1>5. Spans'
  BY <1>1, <1>2 DEF Spans
<1>6. ExitsLead'
  BY <1>2 DEF ExitsLead
<1>. QED BY <1>4, <1>5, <1>6

\* mcode_protect keeps to what the cache says
LEMMA ProtectDoes ==
  ASSUME ProtFails = FALSE, IInv, mc.mcarea # NoArea, NEW prot \in {RW, RX}, Protect(prot)
  PROVE  /\ Kept /\ SameArea /\ mc'.mcprot = prot
         /\ mem'[mc.mcarea].prot = prot /\ mem'[mc.mcarea] # Unmapped
         /\ \A b \in Area \ {mc.mcarea} : mem'[b] = mem[b]
         /\ mc.mcarea \in Area
<1>1. /\ mc \in JitState /\ mem \in [Area -> AreaState]
      /\ mem[mc.mcarea].prot = mc.mcprot /\ mem[mc.mcarea] # Unmapped
  BY DEF IInv, TypeOK, Protection
<1>2. mc.mcarea \in Area
  BY <1>1 DEF JitState
<1>3. CASE mc.mcprot = prot
  BY <1>1, <1>2, <1>3 DEF Protect, Kept, SameArea
<1>4. CASE mc.mcprot # prot
  <2>1. mem' \in SetProt(mem, mc.mcarea, prot) /\ mc' = [mc EXCEPT !.mcprot = prot]
    BY <1>4 DEF Protect
  <2>2. SameArea /\ mc'.mcprot = prot
    BY <1>1, <2>1 DEF SameArea, JitState
  <2>3. /\ mem'[mc.mcarea].prot = prot /\ mem'[mc.mcarea].size = mem[mc.mcarea].size
        /\ mem'[mc.mcarea] # Unmapped
        /\ \A b \in Area \ {mc.mcarea} : mem'[b] = mem[b]
    <3>1. mem' = [mem EXCEPT ![mc.mcarea].prot = prot]
      BY <2>1 DEF SetProt
    <3>2. mem'[mc.mcarea] = [mem[mc.mcarea] EXCEPT !.prot = prot]
      BY <1>1, <1>2, <3>1
    <3>3. mem'[mc.mcarea].prot = prot /\ mem'[mc.mcarea].size = mem[mc.mcarea].size
      BY <1>1, <1>2, <3>2 DEF AreaState
    <3>4. mem'[mc.mcarea] # Unmapped
      BY <3>3 DEF Unmapped, RW, RX
    <3>. QED BY <3>1, <3>3, <3>4
  <2>4. Kept
    BY <2>3 DEF Kept
  <2>. QED BY <1>2, <2>2, <2>3, <2>4
<1>. QED BY <1>3, <1>4

-------------------------------------------------------------------------------
(* Every step, when mprotect does not fail.                                     *)

Where == Geometry /\ Spans /\ ExitsLead
Rest == Where /\ Assembling /\ Protection

LEMMA Unmoved ==
  ASSUME IInv, UNCHANGED <<mc, mem, stubs, code>>
  PROVE  Where'
<1>1. Kept /\ SameArea
  BY DEF Kept, SameArea
<1>2. mc.mcarea # NoArea => mem[mc.mcarea] # Unmapped
  BY DEF IInv, Protection
<1>. QED BY <1>1, <1>2, Framed DEF Where

\* what the type invariant says, for the steps below
LEMMA Numbers ==
  ASSUME TypeOK
  PROVE  /\ mc \in JitState /\ mem \in [Area -> AreaState] /\ asm \in ASMState /\ job \in Job
         /\ mc.mcbot \in Int /\ mc.mctop \in Int /\ mc.szmcarea \in Int
         /\ asm.mctop \in Int /\ asm.mcp \in Int /\ asm.mcbot \in Int /\ asm.mclim \in Int
         /\ asm.left \in Int /\ job.len \in Int /\ job.groups \in Int
<1>1. mc \in JitState /\ mem \in [Area -> AreaState] /\ asm \in ASMState /\ job \in Job
  BY DEF TypeOK
<1>. QED BY <1>1 DEF JitState, ASMState, Job

\* areas other than the current one are executable, unless one is being patched
LEMMA Closed ==
  ASSUME IInv, patching = NoArea
  PROVE  \A a \in Area : a # mc.mcarea /\ mem[a] # Unmapped => mem[a].prot = RX
BY Identities DEF IInv, Protection

LEMMA JobKnown ==
  ASSUME IInv, Compiling
  PROVE  0 < job.len /\ (job.parent # NoTrace => job.parent \in Trace /\ code[job.parent] # NoCode)
<1>1. Assigned
  BY DEF IInv, Assembling
<1>. QED BY <1>1 DEF Assigned

LEMMA StartStep ==
  ASSUME IInv, NEW t \in Trace, NEW p \in Parents, NEW len \in Lengths, NEW g \in 0 .. NGroups,
         Start(t, p, len, g)
  PROVE  Rest'
<1>1. Where'
  BY Unmoved DEF Start
<1>2. Assembling'
  BY LengthsPositive, Layout DEF Start, Parents, Assembling, Assigned, Compiling
<1>3. Protection'
  BY DEF IInv, Start, Protection, Compiling
<1>. QED BY <1>1, <1>2, <1>3 DEF Rest

LEMMA ReserveStep ==
  ASSUME ProtFails = FALSE, IInv, Reserve
  PROVE  Rest'
<1>0. mc \in JitState /\ mem \in [Area -> AreaState]
  BY Numbers DEF IInv
<1>1. patching = NoArea /\ pc = "reserve"
  BY DEF IInv, Reserve, Protection
<1>2. /\ Where' /\ mc'.mcarea # NoArea /\ mc'.mcprot = RW
      /\ mem'[mc'.mcarea].prot = RW /\ mem'[mc'.mcarea] # Unmapped
      /\ \A a \in Area : a # mc'.mcarea /\ mem'[a] # Unmapped => mem'[a].prot = RX
  <2>1. CASE mc.mcarea = NoArea
    <3>1. AllocArea(mem) /\ UNCHANGED <<stubs, code>>
      BY <2>1 DEF Reserve, ReserveArea
    <3>. QED BY <1>0, <1>1, <2>1, <3>1, Opened, Identities DEF IInv, Protection, Where
  <2>2. CASE mc.mcarea # NoArea
    <3>1. Protect(RW) /\ UNCHANGED <<stubs, code>>
      BY <2>2 DEF Reserve, ReserveArea
    <3>2. /\ Kept /\ SameArea /\ mc'.mcprot = RW /\ mc'.mcarea = mc.mcarea
          /\ mem'[mc.mcarea].prot = RW /\ mem'[mc.mcarea] # Unmapped
          /\ \A b \in Area \ {mc.mcarea} : mem'[b] = mem[b]
      BY <2>2, <3>1, ProtectDoes DEF SameArea
    <3>3. Where'
      BY <2>2, <3>1, <3>2, Framed DEF IInv, Protection, Where
    <3>4. \A a \in Area : a # mc.mcarea /\ mem[a] # Unmapped => mem[a].prot = RX
      BY <1>1, Closed
    <3>. QED BY <2>2, <3>2, <3>3, <3>4
  <2>. QED BY <2>1, <2>2
<1>3. /\ asm'.mctop = mc'.mctop /\ asm'.mcbot = mc'.mcbot /\ asm'.mclim = mc'.mcbot + RedZone
      /\ pc' = "stubs" /\ UNCHANGED <<job, code, patching>>
  BY DEF Reserve
<1>4. asm'.mctop <= mc'.mctop
  <2>1. mc'.mctop \in Int
    BY TypeStep, Numbers DEF IInv, Next, Compile, TypeOK, JitState
  <2>. QED BY <1>3, <2>1
<1>5. Assembling'
  BY <1>1, <1>2, <1>3, <1>4 DEF IInv, Assembling, Assigned, Compiling
<1>6. Protection'
  BY <1>1, <1>2, <1>3 DEF Protection, Compiling, RW, RX
<1>. QED BY <1>2, <1>5, <1>6 DEF Rest

LEMMA ReserveFailsStep ==
  ASSUME IInv, ReserveFails
  PROVE  Rest'
<1>1. Where'
  BY Unmoved DEF ReserveFails
<1>2. Assembling' /\ Protection'
  BY DEF IInv, ReserveFails, Raise, Assembling, Assigned, Protection, Compiling
<1>. QED BY <1>1, <1>2 DEF Rest

LEMMA ExitStubStep ==
  ASSUME IInv, ExitStubGen
  PROVE  Rest'
<1>0. /\ mc \in JitState /\ asm \in ASMState /\ stubs \in [Group -> Span] /\ code \in [Trace -> TraceCode]
      /\ mc.mcbot \in Int /\ mc.mctop \in Int /\ GroupSize \in Int /\ 0 < GroupSize
      /\ Link \in Int /\ asm.mctop \in Int /\ mc.szmcarea \in Int /\ RedZone \in Int
  BY Numbers, Positions DEF IInv, TypeOK
<1>. DEFINE g0 == Min(Missing)
            new == [area |-> mc.mcarea, lo |-> mc.mcbot, hi |-> mc.mcbot + GroupSize]
<1>1. /\ asm.mcbot = mc.mcbot /\ asm.mctop = mc.mctop /\ mc.mcarea # NoArea
      /\ mc.mcbot + GroupSize < mc.mctop /\ pc = "stubs" /\ pc' = "stubs"
      /\ stubs' = [stubs EXCEPT ![g0] = new]
      /\ UNCHANGED <<mem, code, job, patching>>
  BY DEF ExitStubGen, IInv, Assembling
<1>2. /\ mc'.mcbot = mc.mcbot + GroupSize /\ mc'.mcarea = mc.mcarea /\ mc'.mctop = mc.mctop
      /\ mc'.szmcarea = mc.szmcarea /\ mc'.mcprot = mc.mcprot
  BY <1>0, <1>1 DEF ExitStubGen, JitState
<1>3. /\ asm'.mcbot = mc.mcbot + GroupSize /\ asm'.mclim = mc.mcbot + GroupSize + RedZone
      /\ asm'.mctop = asm.mctop
  BY <1>0, <1>1 DEF ExitStubGen, ASMState
<1>4. \A g \in Group : stubs'[g] = stubs[g] \/ stubs'[g] = new
  BY <1>0, <1>1
<1>5. /\ Link <= mc.mcbot /\ mc.mctop <= mc.szmcarea /\ mem[mc.mcarea].size = mc.szmcarea
      /\ mc.mcarea \in Area /\ mem[mc.mcarea] # Unmapped
  BY <1>0, <1>1 DEF IInv, Geometry, Protection, JitState
<1>6. new.area = mc.mcarea /\ new.lo = mc.mcbot /\ new.hi = mc.mcbot + GroupSize
  OBVIOUS
<1>7. Inside(new)
  BY <1>0, <1>1, <1>5, <1>6 DEF Inside
<1>8. \A g \in Group : Inside(stubs'[g]) <=> Inside(stubs[g])'
  BY <1>1 DEF Inside
<1>9. Geometry'
  <2>1. \A g \in Group : stubs[g].hi \in Int /\ stubs[g].hi <= mc.mcbot => stubs[g].hi <= mc'.mcbot
    BY <1>0, <1>2
  <2>2. \A g \in Group : stubs[g].hi \in Int
    BY <1>0 DEF Span
  <2>3. \A g \in Group : stubs'[g].area # NoArea /\ stubs'[g].area = mc'.mcarea => stubs'[g].hi <= mc'.mcbot
    <3>1. mc.mcbot + GroupSize <= mc'.mcbot
      BY <1>0, <1>2
    <3>. QED BY <1>1, <1>2, <1>4, <1>6, <2>1, <2>2, <3>1 DEF IInv, Geometry
  <2>4. /\ Link <= mc'.mcbot /\ mc'.mcbot <= mc'.mctop /\ mc'.mctop <= mc'.szmcarea
        /\ mem'[mc'.mcarea].size = mc'.szmcarea
    BY <1>0, <1>1, <1>2, <1>5
  <2>5. \A t \in Trace : code'[t].area # NoArea /\ code'[t].area = mc'.mcarea => mc'.mctop <= code'[t].lo
    BY <1>1, <1>2 DEF IInv, Geometry
  <2>6. \A g \in Group : stubs'[g] # Nowhere => Inside(stubs[g])'
    BY <1>4, <1>7, <1>8 DEF IInv, Geometry
  <2>7. \A t \in Trace : code'[t] # NoCode => Inside(code[t])'
    BY <1>1 DEF IInv, Geometry, Inside
  <2>8. \A t \in Trace : code'[t] # NoCode => code'[t].groups <= NGroups
    BY <1>1 DEF IInv, Geometry
  <2>. QED BY <2>3, <2>4, <2>5, <2>6, <2>7, <2>8 DEF Geometry
<1>10. Spans'
  <2>1. \A g \in Group : stubs[g] # Nowhere => Apart(stubs[g], new) /\ Apart(new, stubs[g])
    BY <1>1, <1>6 DEF IInv, Geometry, Apart
  <2>2. \A t \in Trace : code[t] # NoCode => Apart(new, code[t])
    <3>1. \A t \in Trace : code[t].lo \in Int
      BY <1>0 DEF TraceCode
    <3>. QED BY <1>0, <1>1, <1>6, <3>1 DEF IInv, Geometry, Apart
  <2>3. \A g \in Group : g # g0 => stubs'[g] = stubs[g]
    BY <1>0, <1>1
  <2>. QED BY <1>1, <1>4, <2>1, <2>2, <2>3 DEF IInv, Spans, Apart
<1>11. ExitsLead'
  <2>1. new # Nowhere
    BY <1>1, <1>6 DEF Nowhere
  <2>2. \A t \in Trace : code[t] # NoCode => \A g \in 0 .. code[t].groups - 1 : g \in Group
    <3>1. \A t \in Trace : code[t].groups \in Int /\ NGroups \in Int
      BY <1>0, Layout DEF TraceCode
    <3>. QED BY <3>1 DEF IInv, Geometry, Group
  <2>3. \A g \in Group : stubs[g] # Nowhere => stubs'[g] # Nowhere
    BY <1>4, <2>1
  <2>4. \A g \in Group : Inside(stubs[g]) => Inside(stubs[g])'
    BY <1>4, <1>7, <1>8
  <2>. QED BY <1>1, <2>2, <2>3, <2>4 DEF IInv, ExitsLead
<1>12. Assembling'
  <2>1. asm'.mctop <= mc'.mctop
    BY <1>0, <1>1, <1>2, <1>3
  <2>. QED BY <1>1, <1>2, <1>3, <2>1 DEF IInv, Assembling, Assigned, Compiling
<1>13. Protection'
  BY <1>1, <1>2 DEF IInv, Protection, Compiling
<1>. QED BY <1>9, <1>10, <1>11, <1>12, <1>13 DEF Rest, Where

LEMMA TailPrepStep ==
  ASSUME IInv, TailPrep
  PROVE  Rest'
<1>0. asm \in ASMState /\ asm.mctop \in Int /\ job.len \in Int /\ job.groups \in Int
  BY Numbers DEF IInv
<1>1. Where'
  BY Unmoved DEF TailPrep
<1>2. /\ asm'.mcp = asm.mctop - TailRoom /\ asm'.left = job.len /\ asm'.mctop = asm.mctop
      /\ asm'.mcbot = asm.mcbot /\ asm'.mclim = asm.mclim /\ asm'.realign = asm.realign
  BY <1>0 DEF TailPrep, ASMState
<1>3. asm'.mcp <= asm'.mctop - TailRoom /\ asm'.left <= job.len /\ ~(asm'.left < job.len)
  BY <1>0, <1>2, Positions
<1>4. \A g \in 0 .. job.groups - 1 : stubs[g] # Nowhere
  BY DEF TailPrep, Missing
<1>5. pc = "stubs" /\ pc' = "emit" /\ UNCHANGED <<mc, mem, stubs, code, job, patching>>
  BY DEF TailPrep
<1>6. mc.mcbot <= asm'.mctop
  BY <1>2, <1>5 DEF IInv, Assembling, Geometry
<1>7. Assembling'
  BY <1>2, <1>3, <1>4, <1>5, <1>6 DEF IInv, Assembling, Assigned, Compiling
<1>8. Protection'
  BY <1>5 DEF IInv, Protection, Compiling
<1>. QED BY <1>1, <1>7, <1>8 DEF Rest

LEMMA RealignStep ==
  ASSUME IInv, NEW n \in 0 .. Pad, Realign(n)
  PROVE  Rest'
<1>0. asm \in ASMState /\ asm.mctop \in Int /\ job.len \in Int /\ mc.mcbot \in Int /\ mc.mctop \in Int
  BY Numbers DEF IInv
<1>1. Where'
  BY Unmoved DEF Realign
<1>2. /\ asm'.mctop = asm.mctop - n /\ asm'.mcp = asm.mctop - n - TailRoom /\ asm'.left = job.len
      /\ asm'.mcbot = asm.mcbot /\ asm'.mclim = asm.mclim
  BY <1>0 DEF Realign, ASMState
<1>3. /\ pc = "emit" /\ pc' = "emit" /\ UNCHANGED <<mc, mem, stubs, code, job, patching>>
      /\ asm.left < job.len
  BY DEF Realign
<1>4. mc.mcbot + RedZone <= asm.mctop /\ asm.mctop <= mc.mctop
  BY <1>3 DEF IInv, Assembling
<1>5. n \in Int /\ 0 <= n /\ n <= RedZone
  BY Positions, Layout
<1>6. asm'.mctop <= mc.mctop /\ mc.mcbot <= asm'.mctop
  BY <1>0, <1>2, <1>4, <1>5, Positions
<1>7. asm'.mcp <= asm'.mctop - TailRoom /\ asm'.left <= job.len /\ ~(asm'.left < job.len)
  BY <1>0, <1>2, <1>5, Positions
<1>8. Assembling'
  BY <1>2, <1>3, <1>6, <1>7 DEF IInv, Assembling, Assigned, Compiling
<1>9. Protection'
  BY <1>3 DEF IInv, Protection, Compiling
<1>. QED BY <1>1, <1>8, <1>9 DEF Rest

LEMMA EmitStep ==
  ASSUME IInv, NEW n \in 1 .. MaxIns, Emit(n)
  PROVE  Rest'
<1>0. /\ asm \in ASMState /\ asm.mctop \in Int /\ job.len \in Int /\ mc.mcbot \in Int
      /\ asm.mcp \in Int /\ asm.left \in Int /\ asm.mclim \in Int
  BY Numbers DEF IInv
<1>1. Where'
  BY Unmoved DEF Emit
<1>2. /\ asm'.mctop = asm.mctop /\ asm'.mcp = asm.mcp - n /\ asm'.left = asm.left - n
      /\ asm'.mcbot = asm.mcbot /\ asm'.mclim = asm.mclim /\ asm'.realign = asm.realign
  BY <1>0 DEF Emit, ASMState
<1>3. /\ pc = "emit" /\ pc' = "emit" /\ UNCHANGED <<mc, mem, stubs, code, job, patching>>
      /\ ~(asm.mcp < asm.mclim)
  BY DEF Emit, AtLimit
<1>4. /\ asm.mclim = mc.mcbot + RedZone /\ asm.mcp <= asm.mctop - TailRoom /\ asm.left <= job.len
  BY <1>3 DEF IInv, Assembling
<1>5. n \in Int /\ 1 <= n /\ n <= RedZone
  BY Positions, RedZoneCovers
<1>6. /\ mc.mcbot <= asm'.mcp /\ mc.mcbot + RedZone <= asm'.mctop /\ asm'.mcp <= asm'.mctop - TailRoom
      /\ asm'.left <= job.len
  BY <1>0, <1>2, <1>3, <1>4, <1>5, Positions
<1>7. Assembling'
  BY <1>2, <1>3, <1>6 DEF IInv, Assembling, Assigned, Compiling
<1>8. Protection'
  BY <1>3 DEF IInv, Protection, Compiling
<1>. QED BY <1>1, <1>7, <1>8 DEF Rest

LEMMA FinishStep ==
  ASSUME IInv, NEW n \in 0 .. TailRoom, Finish(n)
  PROVE  Rest'
<1>0. /\ asm \in ASMState /\ asm.mctop \in Int /\ job.len \in Int /\ mc.mctop \in Int
      /\ asm.mcp \in Int
  BY Numbers DEF IInv
<1>1. Where'
  BY Unmoved DEF Finish
<1>2. /\ asm'.mctop = asm.mctop - n /\ asm'.mcp = asm.mcp /\ asm'.mcbot = asm.mcbot
      /\ asm'.mclim = asm.mclim
  BY <1>0 DEF Finish, ASMState
<1>3. /\ pc = "emit" /\ pc' = (IF job.parent = NoTrace THEN "commit" ELSE "patch") /\ asm.left = 0
      /\ UNCHANGED <<mc, mem, stubs, code, job, patching>>
  BY DEF Finish
<1>4. /\ asm.mcp <= asm.mctop - TailRoom /\ asm.mctop <= mc.mctop /\ mc.mcbot <= asm.mcp
  <2>0. Compiling
    BY <1>3 DEF Compiling
  <2>1. 0 < job.len
    BY <2>0, JobKnown
  <2>2. asm.left < job.len
    BY <1>3, <2>1
  <2>. QED BY <1>3, <2>2 DEF IInv, Assembling
<1>5. n \in Int /\ 0 <= n /\ n <= TailRoom
  BY Positions
<1>6. mc.mcbot <= asm'.mcp /\ asm'.mcp <= asm'.mctop /\ asm'.mctop <= mc.mctop
  BY <1>0, <1>2, <1>4, <1>5, Positions
<1>7. Assembling'
  BY <1>2, <1>3, <1>6 DEF IInv, Assembling, Assigned, Compiling
<1>8. Protection'
  BY <1>3 DEF IInv, Protection, Compiling
<1>. QED BY <1>1, <1>7, <1>8 DEF Rest

LEMMA AsmErrorStep ==
  ASSUME IInv, AsmError
  PROVE  Rest'
<1>1. Where'
  BY Unmoved DEF AsmError
<1>2. Assembling' /\ Protection'
  BY DEF IInv, AsmError, Raise, Assembling, Assigned, Protection, Compiling
<1>. QED BY <1>1, <1>2 DEF Rest

\* the current area is closed: after an error, or when all is written
LEMMA ClosedStep ==
  ASSUME ProtFails = FALSE, IInv, mc.mcarea # NoArea, Protect(RX), patching = NoArea,
         UNCHANGED <<stubs, code, patching>>, pc' \notin {"stubs", "emit", "patch", "patching"}
  PROVE  Where' /\ Protection'
<1>1. /\ Kept /\ SameArea /\ mc'.mcprot = RX
      /\ mem'[mc.mcarea].prot = RX /\ mem'[mc.mcarea] # Unmapped
      /\ \A b \in Area \ {mc.mcarea} : mem'[b] = mem[b]
  BY ProtectDoes
<1>2. Where'
  BY <1>1, Framed DEF IInv, Protection, Where
<1>3. \A a \in Area : a # mc.mcarea /\ mem[a] # Unmapped => mem[a].prot = RX
  BY Closed
<1>4. mc'.mcarea = mc.mcarea
  BY <1>1 DEF SameArea
<1>5. Protection'
  BY <1>1, <1>3, <1>4 DEF Protection, RX, RW
<1>. QED BY <1>2, <1>5

LEMMA LimitErrStep ==
  ASSUME ProtFails = FALSE, IInv, LimitErr \/ LimitErrNoMemory
  PROVE  Rest'
<1>1. /\ pc \in {"stubs", "emit"} /\ pc' = "error" /\ mc.mcarea # NoArea /\ mc.mcprot = RW
      /\ patching = NoArea /\ UNCHANGED <<stubs, code, job, patching>>
  BY DEF LimitErr, LimitErrNoMemory, Out, Raise, IInv, Assembling, Protection
<1>2. Assembling'
  BY <1>1 DEF IInv, Assembling, Assigned, Compiling
<1>3. CASE Protect(RX)
  BY <1>1, <1>2, <1>3, ClosedStep DEF Rest
<1>4. CASE ~Protect(RX)
  <2>1. PICK m \in AfterAbort : AllocArea(m)
    BY <1>4 DEF LimitErr, LimitErrNoMemory
  <2>2. mem \in [Area -> AreaState] /\ mc.mcarea \in Area /\ mem[mc.mcarea] # Unmapped
    <3>1. mem \in [Area -> AreaState] /\ mc \in JitState
      BY Numbers DEF IInv
    <3>. QED BY <1>1, <3>1 DEF IInv, Protection, JitState
  <2>3. m \in SetProt(mem, mc.mcarea, RX)
    BY <1>1, <2>1 DEF AfterAbort, RW, RX
  <2>4. m \in [Area -> AreaState]
    BY <2>2, <2>3, SetProtType
  <2>5. /\ m[mc.mcarea].prot = RX
        /\ \A b \in Area \ {mc.mcarea} : m[b] = mem[b]
        /\ \A b \in Area : (m[b] = Unmapped <=> mem[b] = Unmapped) /\ m[b].size = mem[b].size
    <3>1. m = [mem EXCEPT ![mc.mcarea].prot = RX]
      BY <2>3 DEF SetProt
    <3>2. m[mc.mcarea] = [mem[mc.mcarea] EXCEPT !.prot = RX]
      BY <2>2, <3>1
    <3>3. m[mc.mcarea].prot = RX /\ m[mc.mcarea].size = mem[mc.mcarea].size
      BY <2>2, <3>2 DEF AreaState
    <3>4. m[mc.mcarea] # Unmapped
      BY <3>3 DEF Unmapped, RX
    <3>5. \A b \in Area \ {mc.mcarea} : m[b] = mem[b]
      BY <3>1
    <3>. QED BY <2>2, <3>3, <3>4, <3>5
  <2>6. \A a \in Area : m[a] # Unmapped => m[a].prot = RX
    BY <1>1, <2>2, <2>5, Closed
  <2>7. /\ Where' /\ mc'.mcarea \in Area /\ mc'.mcprot = RW
        /\ mem'[mc'.mcarea].prot = RW /\ mem'[mc'.mcarea] # Unmapped
        /\ \A b \in Area : b # mc'.mcarea => mem'[b] = m[b]
    BY <1>1, <2>1, <2>4, <2>5, Opened DEF Where
  <2>8. Protection'
    BY <1>1, <2>6, <2>7 DEF Protection, Compiling, RW, RX
  <2>. QED BY <1>2, <2>7, <2>8 DEF Rest
<1>. QED BY <1>3, <1>4

LEMMA AbortStep ==
  ASSUME ProtFails = FALSE, IInv, Abort
  PROVE  Rest'
<1>1. /\ pc = "error" /\ pc' \in {"reserve", "event"} /\ patching = NoArea
      /\ UNCHANGED <<stubs, code, job, patching>>
  BY DEF Abort, IInv, Protection
<1>2. Assembling'
  BY <1>1 DEF IInv, Assembling, Assigned, Compiling
<1>3. CASE mc.mcarea = NoArea
  <2>1. UNCHANGED <<mc, mem>>
    BY <1>3 DEF Abort, McodeAbort
  <2>2. Where'
    BY <1>1, <2>1, Unmoved
  <2>3. Protection'
    BY <1>1, <1>3, <2>1 DEF IInv, Protection
  <2>. QED BY <1>2, <2>2, <2>3 DEF Rest
<1>4. CASE mc.mcarea # NoArea
  BY <1>1, <1>2, <1>4, ClosedStep DEF Abort, McodeAbort, Rest
<1>. QED BY <1>3, <1>4

LEMMA PatchStartStep ==
  ASSUME ProtFails = FALSE, IInv, PatchStart
  PROVE  Rest'
<1>. DEFINE a == code[job.parent].area
<1>0. mem \in [Area -> AreaState] /\ mc \in JitState
  BY Numbers DEF IInv
<1>1. /\ pc = "patch" /\ pc' = "patching" /\ patching = NoArea /\ patching' = a
      /\ mc.mcarea # NoArea /\ mc.mcprot = RW
      /\ UNCHANGED <<stubs, code, job, asm>>
  BY DEF PatchStart, IInv, Assembling, Protection
<1>2. a \in Area /\ mem[a] # Unmapped /\ a # NoArea
  <2>0. Compiling
    BY <1>1 DEF Compiling
  <2>1. job.parent \in Trace /\ code[job.parent] # NoCode
    BY <1>1, <2>0, JobKnown DEF IInv, Assembling
  <2>2. Inside(code[job.parent])
    BY <2>1 DEF IInv, Geometry
  <2>. QED BY <2>2, Identities DEF Inside
<1>3. /\ UNCHANGED mc /\ Kept /\ mem'[a].prot = RW /\ mem'[a] # Unmapped
      /\ \A b \in Area \ {a} : mem'[b] = mem[b]
  <2>1. CASE a = mc.mcarea
    <3>1. UNCHANGED <<mc, mem>>
      BY <1>1, <2>1 DEF PatchStart, Protect
    <3>2. mem[mc.mcarea].prot = RW
      BY <1>1 DEF IInv, Protection
    <3>. QED BY <1>2, <2>1, <3>1, <3>2 DEF Kept
  <2>2. CASE a # mc.mcarea
    <3>1. UNCHANGED mc /\ mem' \in SetProt(mem, a, RW)
      BY <2>2 DEF PatchStart
    <3>2. /\ mem'[a].prot = RW /\ mem'[a].size = mem[a].size /\ mem'[a] # Unmapped
          /\ \A b \in Area \ {a} : mem'[b] = mem[b]
      <4>1. mem' = [mem EXCEPT ![a].prot = RW]
        BY <3>1 DEF SetProt
      <4>2. mem'[a] = [mem[a] EXCEPT !.prot = RW]
        BY <1>0, <1>2, <4>1
      <4>3. mem'[a].prot = RW /\ mem'[a].size = mem[a].size
        BY <1>0, <1>2, <4>2 DEF AreaState
      <4>4. mem'[a] # Unmapped
        BY <4>3 DEF Unmapped, RW
      <4>. QED BY <4>1, <4>3, <4>4
    <3>3. Kept
      BY <3>2 DEF Kept
    <3>. QED BY <3>1, <3>2, <3>3
  <2>. QED BY <2>1, <2>2
<1>4. Where'
  <2>1. SameArea
    BY <1>3 DEF SameArea
  <2>. QED BY <1>1, <1>3, <2>1, Framed DEF IInv, Protection, Where
<1>5. Assembling'
  BY <1>1, <1>3 DEF IInv, Assembling, Assigned, Compiling
<1>6. mem'[mc.mcarea].prot = RW /\ mem'[mc.mcarea] # Unmapped
  <2>1. mc.mcarea \in Area
    BY <1>0, <1>1 DEF JitState
  <2>. QED BY <1>1, <1>3, <2>1 DEF IInv, Protection
<1>7. \A b \in Area : b # mc.mcarea /\ b # a /\ mem'[b] # Unmapped => mem'[b].prot = RX
  BY <1>1, <1>3, Closed
<1>8. \A b \in Area : mem'[b] # Unmapped => mem'[b].prot # "none"
  BY <1>3, <1>6, <1>7 DEF RW, RX
<1>9. Protection'
  BY <1>1, <1>2, <1>3, <1>6, <1>7, <1>8 DEF Protection, Compiling
<1>. QED BY <1>4, <1>5, <1>9 DEF Rest

LEMMA PatchFinishStep ==
  ASSUME ProtFails = FALSE, IInv, PatchFinish
  PROVE  Rest'
<1>. DEFINE a == patching
<1>0. mem \in [Area -> AreaState] /\ mc \in JitState /\ patching \in Area \cup {NoArea}
  BY Numbers DEF IInv, TypeOK
<1>1. /\ pc = "patching" /\ pc' = "commit" /\ a # NoArea /\ patching' = NoArea
      /\ a \in Area /\ mem[a] # Unmapped
      /\ UNCHANGED <<stubs, code, job, asm>>
  BY <1>0 DEF PatchFinish, IInv, Protection
<1>2. mc.mcarea # NoArea
  BY <1>1 DEF IInv, Assembling
<1>3. SameArea /\ Kept /\ mc'.mcarea = mc.mcarea
  <2>1. CASE a = mc.mcarea
    BY <1>2, <2>1, ProtectDoes DEF PatchFinish, SameArea
  <2>2. CASE a # mc.mcarea
    <3>1. mem' = [mem EXCEPT ![a].prot = RX] /\ UNCHANGED mc
      BY <2>2 DEF PatchFinish, SetProt
    <3>2. mem'[a] = [mem[a] EXCEPT !.prot = RX]
      BY <1>0, <1>1, <3>1
    <3>3. mem'[a].prot = RX /\ mem'[a].size = mem[a].size
      BY <1>0, <1>1, <3>2 DEF AreaState
    <3>4. mem'[a] # Unmapped
      BY <3>3 DEF Unmapped, RX
    <3>. QED BY <3>1, <3>3, <3>4 DEF SameArea, Kept
  <2>. QED BY <2>1, <2>2
<1>4. Where'
  BY <1>1, <1>2, <1>3, Framed DEF IInv, Protection, Where
<1>5. Assembling'
  BY <1>1, <1>3 DEF IInv, Assembling, Assigned, Compiling, SameArea
<1>6. \A b \in Area : b # a /\ b # mc.mcarea /\ mem[b] # Unmapped => mem[b].prot = RX
  BY DEF IInv, Protection
<1>7. Protection'
  <2>1. CASE a = mc.mcarea
    <3>1. /\ mc'.mcprot = RX /\ mem'[mc.mcarea].prot = RX /\ mem'[mc.mcarea] # Unmapped
          /\ \A b \in Area \ {mc.mcarea} : mem'[b] = mem[b]
      BY <1>2, <2>1, ProtectDoes DEF PatchFinish
    <3>. QED BY <1>1, <1>3, <1>6, <2>1, <3>1 DEF Protection, Compiling, RW, RX
  <2>2. CASE a # mc.mcarea
    <3>1. mem' = [mem EXCEPT ![a].prot = RX] /\ UNCHANGED mc
      BY <2>2 DEF PatchFinish, SetProt
    <3>2. mem'[a] = [mem[a] EXCEPT !.prot = RX]
      BY <1>0, <1>1, <3>1
    <3>3. mem'[a].prot = RX
      BY <1>0, <1>1, <3>2 DEF AreaState
    <3>4. \A b \in Area \ {a} : mem'[b] = mem[b]
      BY <3>1
    <3>5. mc.mcarea \in Area
      BY <1>0, <1>2 DEF JitState
    <3>6. mem[mc.mcarea].prot = mc.mcprot /\ mc.mcprot \in {RW, RX} /\ mem[mc.mcarea] # Unmapped
      BY <1>2 DEF IInv, Protection
    <3>. QED BY <1>1, <1>3, <1>6, <2>2, <3>1, <3>3, <3>4, <3>5, <3>6 DEF Protection, Compiling, RW, RX
  <2>. QED BY <2>1, <2>2
<1>. QED BY <1>4, <1>5, <1>7 DEF Rest

LEMMA CommitStep ==
  ASSUME ProtFails = FALSE, IInv, Commit
  PROVE  Rest'
<1>0. /\ mem \in [Area -> AreaState] /\ mc \in JitState /\ code \in [Trace -> TraceCode]
      /\ stubs \in [Group -> Span]
      /\ mc.mcbot \in Int /\ mc.mctop \in Int /\ mc.szmcarea \in Int /\ asm.mctop \in Int
      /\ asm.mcp \in Int /\ job.groups \in Int /\ NGroups \in Int
  BY Numbers, Layout DEF IInv, TypeOK
<1>. DEFINE new == [area |-> mc.mcarea, lo |-> asm.mcp, hi |-> asm.mctop, groups |-> job.groups]
<1>1. /\ pc = "commit" /\ pc' = "event" /\ patching = NoArea
      /\ code' = [code EXCEPT ![job.trace] = new]
      /\ UNCHANGED <<stubs, job, patching>>
  BY DEF Commit, IInv, Protection
<1>2. /\ mc.mcarea # NoArea /\ asm.mctop <= mc.mctop /\ mc.mcbot <= asm.mcp /\ asm.mcp <= asm.mctop
      /\ \A g \in 0 .. job.groups - 1 : stubs[g] # Nowhere
  BY <1>1 DEF IInv, Assembling
<1>3. job.trace \in Trace /\ job.groups <= NGroups
  <2>1. Assigned
    BY <1>1 DEF IInv, Assembling, Compiling
  <2>. QED BY <2>1 DEF Assigned
<1>4. /\ mc'.mcarea = mc.mcarea /\ mc'.mcbot = mc.mcbot /\ mc'.szmcarea = mc.szmcarea
      /\ mc'.mctop = asm.mcp /\ mc'.mcprot = RX
  BY <1>0 DEF Commit, CommitTop, JitState
<1>5. /\ mc.mcarea \in Area /\ mem[mc.mcarea] # Unmapped /\ mem[mc.mcarea].prot = mc.mcprot
      /\ Link <= mc.mcbot /\ mc.mctop <= mc.szmcarea /\ mem[mc.mcarea].size = mc.szmcarea
  BY <1>0, <1>2 DEF IInv, Geometry, Protection, JitState
<1>6. /\ Kept /\ mem'[mc.mcarea].prot = RX /\ mem'[mc.mcarea] # Unmapped
      /\ mem'[mc.mcarea].size = mem[mc.mcarea].size
      /\ \A b \in Area \ {mc.mcarea} : mem'[b] = mem[b]
  <2>1. CASE mc.mcprot = RX
    BY <1>5, <2>1 DEF Commit, Kept
  <2>2. CASE mc.mcprot # RX
    <3>1. mem' = [mem EXCEPT ![mc.mcarea].prot = RX]
      BY <2>2 DEF Commit, SetProt
    <3>2. mem'[mc.mcarea] = [mem[mc.mcarea] EXCEPT !.prot = RX]
      BY <1>0, <1>5, <3>1
    <3>3. mem'[mc.mcarea].prot = RX /\ mem'[mc.mcarea].size = mem[mc.mcarea].size
      BY <1>0, <1>5, <3>2 DEF AreaState
    <3>4. mem'[mc.mcarea] # Unmapped
      BY <3>3 DEF Unmapped, RX
    <3>. QED BY <3>1, <3>3, <3>4 DEF Kept
  <2>. QED BY <2>1, <2>2
<1>7. new.area = mc.mcarea /\ new.lo = asm.mcp /\ new.hi = asm.mctop /\ new.groups = job.groups
  OBVIOUS
<1>8. \A t \in Trace : (code'[t] = code[t] /\ t # job.trace) \/ (code'[t] = new /\ t = job.trace)
  BY <1>0, <1>1
<1>9. /\ mc.mcarea \in Area /\ mem'[mc.mcarea] # Unmapped
      /\ Link <= asm.mcp /\ asm.mcp <= asm.mctop /\ asm.mctop <= mem'[mc.mcarea].size
  BY <1>0, <1>2, <1>5, <1>6, Positions
<1>10. Geometry'
  <2>1. \A t \in Trace : code'[t] # NoCode => Inside(code[t])'
    <3>1. \A t \in Trace : code'[t] = code[t] /\ code[t] # NoCode => Inside(code[t])'
      BY <1>6, InsideKept DEF IInv, Geometry, Inside
    <3>2. \A t \in Trace : code'[t] = new => Inside(code[t])'
      BY <1>7, <1>9 DEF Inside
    <3>. QED BY <1>8, <3>1, <3>2
  <2>2. \A g \in Group : stubs'[g] # Nowhere => Inside(stubs[g])'
    BY <1>1, <1>6, InsideKept DEF IInv, Geometry, Inside
  <2>3. /\ Link <= mc'.mcbot /\ mc'.mcbot <= mc'.mctop /\ mc'.mctop <= mc'.szmcarea
        /\ mem'[mc'.mcarea].size = mc'.szmcarea
    BY <1>0, <1>2, <1>4, <1>5, <1>6
  <2>4. \A g \in Group : stubs'[g].area # NoArea /\ stubs'[g].area = mc'.mcarea => stubs'[g].hi <= mc'.mcbot
    BY <1>1, <1>4 DEF IInv, Geometry
  <2>5. \A t \in Trace : code'[t].area # NoArea /\ code'[t].area = mc'.mcarea => mc'.mctop <= code'[t].lo
    <3>1. \A t \in Trace : code[t].area # NoArea /\ code[t].area = mc.mcarea => mc.mctop <= code[t].lo
      BY DEF IInv, Geometry
    <3>2. \A t \in Trace : code[t].lo \in Int
      BY <1>0 DEF TraceCode
    <3>3. \A t \in Trace : code[t].area # NoArea /\ code[t].area = mc.mcarea => asm.mcp <= code[t].lo
      BY <1>0, <1>2, <3>1, <3>2
    <3>4. asm.mcp <= new.lo
      BY <1>0, <1>7
    <3>. QED BY <1>4, <1>8, <3>3, <3>4
  <2>6. \A t \in Trace : code'[t] # NoCode => code'[t].groups <= NGroups
    BY <1>3, <1>7, <1>8 DEF IInv, Geometry
  <2>. QED BY <2>1, <2>2, <2>3, <2>4, <2>5, <2>6 DEF Geometry
<1>11. Spans'
  <2>1. \A g \in Group : stubs[g] # Nowhere => Apart(stubs[g], new)
    <3>1. \A g \in Group : stubs[g].hi \in Int
      BY <1>0 DEF Span
    <3>2. \A g \in Group : stubs[g].area # NoArea /\ stubs[g].area = mc.mcarea => stubs[g].hi <= mc.mcbot
      BY DEF IInv, Geometry
    <3>. QED BY <1>0, <1>2, <1>7, <3>1, <3>2 DEF Apart
  <2>2. \A t \in Trace : code[t] # NoCode => Apart(new, code[t]) /\ Apart(code[t], new)
    <3>1. \A t \in Trace : code[t].lo \in Int
      BY <1>0 DEF TraceCode
    <3>2. \A t \in Trace : code[t].area # NoArea /\ code[t].area = mc.mcarea => mc.mctop <= code[t].lo
      BY DEF IInv, Geometry
    <3>. QED BY <1>0, <1>2, <1>7, <3>1, <3>2 DEF Apart
  <2>. QED BY <1>1, <1>8, <2>1, <2>2 DEF IInv, Spans, Apart
<1>12. ExitsLead'
  <2>1. \A g \in Group : stubs[g] # Nowhere => stubs'[g] # Nowhere /\ Inside(stubs[g])'
    BY <1>1, <1>6, InsideKept DEF IInv, Geometry, Inside
  <2>2. \A t \in Trace : code[t] # NoCode => \A g \in 0 .. code[t].groups - 1 : g \in Group
    <3>1. \A t \in Trace : code[t].groups \in Int
      BY <1>0 DEF TraceCode
    <3>. QED BY <1>0, <3>1 DEF IInv, Geometry, Group
  <2>3. \A g \in 0 .. job.groups - 1 : g \in Group
    BY <1>0, <1>3 DEF Group
  <2>4. \A g \in 0 .. new.groups - 1 : stubs'[g] # Nowhere /\ Inside(stubs[g])'
    BY <1>2, <1>7, <2>1, <2>3
  <2>5. \A t \in Trace : code[t] # NoCode => \A g \in 0 .. code[t].groups - 1 : stubs'[g] # Nowhere /\ Inside(stubs[g])'
    BY <2>1, <2>2 DEF IInv, ExitsLead
  <2>. QED BY <1>8, <2>4, <2>5 DEF ExitsLead
<1>13. Assembling'
  BY <1>1 DEF Assembling, Compiling
<1>14. Protection'
  <2>1. \A b \in Area : b # mc.mcarea /\ mem[b] # Unmapped => mem[b].prot = RX
    BY <1>1, Closed
  <2>. QED BY <1>1, <1>4, <1>6, <2>1 DEF Protection, Compiling, RW, RX
<1>. QED BY <1>10, <1>11, <1>12, <1>13, <1>14 DEF Rest, Where

LEMMA FlushedStep ==
  ASSUME IInv, Flushed, pc \in {"idle", "event"}, pc' \in {"idle", "event"}, UNCHANGED patching
  PROVE  Rest'
<1>1. Where'
  BY Emptied DEF Where
<1>2. Assembling'
  BY DEF Assembling, Compiling
<1>3. mc'.mcarea = NoArea /\ \A a \in Area : mem'[a] = Unmapped
  <2>1. mc \in JitState
    BY Numbers DEF IInv
  <2>. QED BY <2>1 DEF Flushed, JitState
<1>4. patching = NoArea
  BY DEF IInv, Protection
<1>5. Protection'
  BY <1>3, <1>4 DEF Protection, Compiling
<1>. QED BY <1>1, <1>2, <1>5 DEF Rest

LEMMA EventDoneStep ==
  ASSUME IInv, EventDone
  PROVE  Rest'
<1>1. pc = "event" /\ pc' = "idle" /\ UNCHANGED patching
  BY DEF EventDone
<1>2. CASE Flushed
  BY <1>1, <1>2, FlushedStep
<1>3. CASE UNCHANGED <<mc, mem, code, stubs>>
  <2>1. Where'
    BY <1>3, Unmoved
  <2>2. Assembling' /\ Protection'
    BY <1>1, <1>3 DEF IInv, Assembling, Protection, Compiling
  <2>. QED BY <2>1, <2>2 DEF Rest
<1>. QED BY <1>2, <1>3 DEF EventDone

LEMMA DropStep ==
  ASSUME IInv, NEW t \in Trace, Drop(t)
  PROVE  Rest'
<1>0. code \in [Trace -> TraceCode]
  BY DEF IInv, TypeOK
<1>1. /\ pc \in {"idle", "event"} /\ code' = [code EXCEPT ![t] = NoCode]
      /\ UNCHANGED <<mc, mem, stubs, patching, pc>>
  BY DEF Drop
<1>2. \A u \in Trace : code'[u] = code[u] \/ code'[u] = NoCode
  BY <1>0, <1>1
<1>3. Geometry'
  BY <1>1, <1>2 DEF IInv, Geometry, Inside, NoCode
<1>4. Spans'
  BY <1>1, <1>2 DEF IInv, Spans, Apart
<1>5. ExitsLead'
  BY <1>1, <1>2 DEF IInv, ExitsLead, Inside
<1>6. Assembling' /\ Protection'
  BY <1>1 DEF IInv, Assembling, Protection, Compiling
<1>. QED BY <1>3, <1>4, <1>5, <1>6 DEF Rest, Where

LEMMA IdleStep ==
  ASSUME IInv, UNCHANGED <<mc, mem, stubs, code, job, asm, patching, pc>>
  PROVE  Rest'
<1>1. Where'
  BY Unmoved
<1>2. Assembling' /\ Protection'
  BY DEF IInv, Assembling, Assigned, Protection, Compiling
<1>. QED BY <1>1, <1>2 DEF Rest

LEMMA InitIInv == Init => IInv
<1>. SUFFICES ASSUME Init PROVE IInv
  OBVIOUS
<1>1. mc = [mcarea |-> NoArea, mcprot |-> "none", szmcarea |-> 0, mctop |-> 0, mcbot |-> 0, szall |-> 0]
      /\ mem = [a \in Area |-> Unmapped]
  BY DEF Init
<1>2. mc \in JitState /\ mem \in [Area -> AreaState] /\ mc.mcarea = NoArea
  BY <1>1 DEF JitState, AreaState, Unmapped
<1>3. stubs \in [Group -> Span] /\ code \in [Trace -> TraceCode]
  BY DEF Init, Span, TraceCode, Nowhere, NoCode
<1>4. TypeOK
  BY <1>2, <1>3, IdleType DEF Init, TypeOK, Errors, Phase
<1>5. \A a \in Area : mem[a] = Unmapped
  BY <1>1
<1>6. /\ \A g \in Group : stubs[g] = Nowhere
      /\ \A t \in Trace : code[t] = NoCode
      /\ pc = "idle" /\ patching = NoArea
  BY DEF Init
<1>7. Geometry
  BY <1>2, <1>6 DEF Geometry, Nowhere, NoCode
<1>8. Assembling /\ Spans /\ ExitsLead
  BY <1>6 DEF Assembling, Compiling, Spans, ExitsLead
<1>9. Protection
  BY <1>2, <1>5, <1>6 DEF Protection, Compiling
<1>. QED BY <1>4, <1>7, <1>8, <1>9 DEF IInv

LEMMA NextIInv ==
  ASSUME ProtFails = FALSE, IInv, [Next]_vars
  PROVE  IInv'
<1>1. TypeOK'
  BY TypeStep DEF IInv
<1>2. Rest'
  <2>1. CASE Compile
    BY <2>1, ReserveStep, ReserveFailsStep, ExitStubStep, TailPrepStep, LimitErrStep, AsmErrorStep,
       RealignStep, FinishStep, EmitStep, PatchStartStep, PatchFinishStep, CommitStep, AbortStep,
       EventDoneStep DEF Compile
  <2>2. CASE \E t \in Trace, p \in Parents, len \in Lengths, g \in 0 .. NGroups : Start(t, p, len, g)
    BY <2>2, StartStep
  <2>3. CASE FlushAll
    BY <2>3, FlushedStep DEF FlushAll
  <2>4. CASE \E t \in Trace : Drop(t)
    BY <2>4, DropStep
  <2>5. CASE \E sz \in Sizes : SetParam(sz)
    BY <2>5, IdleStep DEF SetParam
  <2>6. CASE UNCHANGED vars
    BY <2>6, IdleStep DEF vars
  <2>. QED BY <2>1, <2>2, <2>3, <2>4, <2>5, <2>6 DEF Next
<1>. QED BY <1>1, <1>2 DEF Rest, Where, IInv

LEMMA Inductive == ASSUME ProtFails = FALSE PROVE Spec => []IInv
<1>1. IInv /\ [Next]_vars => IInv'
  BY NextIInv
<1>. QED BY <1>1, InitIInv, PTL DEF Spec

-------------------------------------------------------------------------------
(* What follows.                                                                *)

\* Machine code memory keeps its types, whatever the sizes and lengths are.
THEOREM MCodeTypeCorrect == ASSUME ProtFails = FALSE PROVE Spec => []TypeOK
<1>1. IInv => TypeOK
  BY DEF IInv
<1>. QED BY <1>1, Inductive, PTL

\* Stubs, traces and the code that is being written never overlap, in areas of any size, with
\* any number of traces, failed attempts and realignments: all the assembler needs is a red
\* zone as large as what it emits between two checks.
THEOREM MCodeApart == ASSUME ProtFails = FALSE PROVE Spec => []NoOverlap
<1>1. IInv => NoOverlap
  <2>. SUFFICES ASSUME IInv PROVE NoOverlap
    OBVIOUS
  <2>0. /\ mc \in JitState /\ code \in [Trace -> TraceCode] /\ stubs \in [Group -> Span]
        /\ mc.mcbot \in Int /\ mc.mctop \in Int /\ mc.szmcarea \in Int /\ asm.mctop \in Int
        /\ asm.mcp \in Int
    BY Numbers DEF IInv, TypeOK
  <2>1. IsWriting => /\ mc.mcarea # NoArea /\ asm.mctop <= mc.mctop /\ mc.mcbot <= asm.mcp
                     /\ asm.mcp <= asm.mctop
    <3>1. CASE pc = "emit" /\ asm.left < job.len
      <4>1. /\ mc.mcarea # NoArea /\ asm.mctop <= mc.mctop /\ mc.mcbot <= asm.mcp
            /\ asm.mcp <= asm.mctop - TailRoom
        BY <3>1 DEF IInv, Assembling
      <4>. QED BY <2>0, <4>1, Positions
    <3>2. CASE pc \in {"patch", "patching", "commit"}
      BY <3>2 DEF IInv, Assembling
    <3>. QED BY <3>1, <3>2 DEF IsWriting
  <2>2. Writing.area = mc.mcarea /\ Writing.lo = asm.mcp /\ Writing.hi = asm.mctop
    BY DEF Writing
  <2>3. IsWriting => Inside(Writing)
    <3>1. mc.mcarea # NoArea => /\ mc.mcarea \in Area /\ mem[mc.mcarea] # Unmapped
                                /\ Link <= mc.mcbot /\ mc.mctop <= mem[mc.mcarea].size
      BY <2>0 DEF IInv, Geometry, Protection, JitState
    <3>2. mc.mcarea # NoArea => mem[mc.mcarea].size \in Int
      BY <2>0 DEF IInv, Geometry
    <3>. QED BY <2>0, <2>1, <2>2, <3>1, <3>2, Positions DEF Inside
  <2>4. IsWriting => \A g \in Group : stubs[g] # Nowhere => Apart(stubs[g], Writing)
    <3>1. \A g \in Group : stubs[g].hi \in Int
      BY <2>0 DEF Span
    <3>2. \A g \in Group : stubs[g].area # NoArea /\ stubs[g].area = mc.mcarea => stubs[g].hi <= mc.mcbot
      BY DEF IInv, Geometry
    <3>. QED BY <2>0, <2>1, <2>2, <3>1, <3>2 DEF Apart
  <2>5. IsWriting => \A t \in Trace : code[t] # NoCode => Apart(code[t], Writing)
    <3>1. \A t \in Trace : code[t].lo \in Int
      BY <2>0 DEF TraceCode
    <3>2. \A t \in Trace : code[t].area # NoArea /\ code[t].area = mc.mcarea => mc.mctop <= code[t].lo
      BY DEF IInv, Geometry
    <3>. QED BY <2>0, <2>1, <2>2, <3>1, <3>2 DEF Apart
  <2>6. pc = "emit" /\ asm.realign = "set" => mc.mcbot <= asm.mctop
    BY DEF IInv, Assembling
  <2>7. /\ \A g \in Group : stubs[g] # Nowhere => Inside(stubs[g])
        /\ \A t \in Trace : code[t] # NoCode => Inside(code[t])
    BY DEF IInv, Geometry
  <2>8. Spans
    BY DEF IInv
  <2>. QED BY <2>3, <2>4, <2>5, <2>6, <2>7, <2>8 DEF NoOverlap, Spans
<1>. QED BY <1>1, Inductive, PTL

\* When the program may run machine code, none of it is writable - whatever failed before.
THEOREM MCodeExecutable == ASSUME ProtFails = FALSE PROVE Spec => []Executable
<1>1. IInv => Executable
  <2>. SUFFICES ASSUME IInv, pc \in {"idle", "event"} PROVE \A a \in Mapped : mem[a].prot = RX
    BY DEF Executable
  <2>1. patching = NoArea /\ (mc.mcarea # NoArea => mem[mc.mcarea].prot = RX)
    BY DEF IInv, Protection, Compiling
  <2>2. \A a \in Area : a # mc.mcarea /\ mem[a] # Unmapped => mem[a].prot = RX
    BY <2>1, Closed
  <2>. QED BY <2>1, <2>2, Identities DEF Mapped
<1>. QED BY <1>1, Inductive, PTL

\* The assembler and lj_asm_patchexit only write where writing is allowed.
THEOREM MCodeWritable == ASSUME ProtFails = FALSE PROVE Spec => []Writable
<1>1. IInv => Writable
  BY DEF IInv, Assembling, Protection, Writable
<1>. QED BY <1>1, Inductive, PTL

\* The cache of the current area's protection is right, so that no change of it is skipped.
THEOREM MCodeCacheTrue == ASSUME ProtFails = FALSE PROVE Spec => []CacheTrue
<1>1. IInv => CacheTrue
  BY DEF IInv, Geometry, Protection, CacheTrue
<1>. QED BY <1>1, Inductive, PTL

\* A trace's exit stubs exist as long as the trace does.
THEOREM MCodeExitsLead == ASSUME ProtFails = FALSE PROVE Spec => []ExitsLead
<1>1. IInv => ExitsLead
  BY DEF IInv
<1>. QED BY <1>1, Inductive, PTL

-------------------------------------------------------------------------------
(* What a step does to the areas.                                               *)

\* no area comes, goes, or is linked anew
Steady ==
  /\ mc'.mcarea = mc.mcarea /\ mc'.szall = mc.szall
  /\ \A a \in Area : /\ mem'[a].size = mem[a].size /\ mem'[a].next = mem[a].next
                     /\ mem'[a] = Unmapped <=> mem[a] = Unmapped
\* area a is new, and the current one
Added(a) ==
  /\ mem[a] = Unmapped /\ mem'[a] # Unmapped
  /\ mem'[a].size = param /\ mem'[a].next = mc.mcarea
  /\ mc'.mcarea = a /\ mc'.szall = mc.szall + param
  /\ mc'.mctop = param /\ mc'.mcbot = Link
  /\ \A b \in Area \ {a} : /\ mem'[b].size = mem[b].size /\ mem'[b].next = mem[b].next
                           /\ mem'[b] = Unmapped <=> mem[b] = Unmapped

LEMMA SetProtSteady ==
  ASSUME ProtFails = FALSE, mem \in [Area -> AreaState], NEW a \in Area, mem[a] # Unmapped,
         NEW prot \in {RW, RX}, NEW m \in SetProt(mem, a, prot)
  PROVE  /\ m \in [Area -> AreaState]
         /\ \A b \in Area : /\ m[b].size = mem[b].size /\ m[b].next = mem[b].next
                            /\ m[b] = Unmapped <=> mem[b] = Unmapped
<1>1. m = [mem EXCEPT ![a].prot = prot]
  BY DEF SetProt
<1>2. m \in [Area -> AreaState]
  BY SetProtType
<1>3. \A b \in Area \ {a} : m[b] = mem[b]
  BY <1>1
<1>4. m[a] = [mem[a] EXCEPT !.prot = prot]
  BY <1>1
<1>5. m[a].size = mem[a].size /\ m[a].next = mem[a].next /\ m[a].prot = prot
  BY <1>4 DEF AreaState
<1>6. m[a] # Unmapped
  BY <1>5 DEF Unmapped, RW, RX
<1>. QED BY <1>2, <1>3, <1>5, <1>6

LEMMA ProtectSteady ==
  ASSUME ProtFails = FALSE, IInv, mc.mcarea # NoArea, NEW prot \in {RW, RX}, Protect(prot)
  PROVE  Steady /\ SameArea
<1>1. /\ mc \in JitState /\ mem \in [Area -> AreaState] /\ mem[mc.mcarea] # Unmapped /\ mc.mcarea \in Area
  BY DEF IInv, TypeOK, Protection, JitState
<1>2. SameArea
  BY ProtectDoes
<1>3. CASE mc.mcprot = prot
  BY <1>2, <1>3 DEF Protect, Steady
<1>4. CASE mc.mcprot # prot
  <2>1. mem' \in SetProt(mem, mc.mcarea, prot) /\ mc' = [mc EXCEPT !.mcprot = prot]
    BY <1>4 DEF Protect
  <2>2. mc'.szall = mc.szall /\ mc'.mcarea = mc.mcarea
    BY <1>1, <2>1 DEF JitState
  <2>. QED BY <1>1, <1>2, <2>1, <2>2, SetProtSteady DEF Steady
<1>. QED BY <1>3, <1>4

LEMMA AllocAdds ==
  ASSUME IInv, NEW m \in [Area -> AreaState], AllocArea(m),
         \A b \in Area : /\ m[b].size = mem[b].size /\ m[b].next = mem[b].next
                         /\ m[b] = Unmapped <=> mem[b] = Unmapped
  PROVE  \E a \in Area : Added(a)
<1>1. PICK a \in Area : /\ m[a] = Unmapped
                        /\ mem' = [m EXCEPT ![a] = [prot |-> RW, size |-> param, next |-> mc.mcarea]]
                        /\ mc' = AllocatedAt(mc, a)
  BY DEF AllocArea
<1>2. mem'[a] = [prot |-> RW, size |-> param, next |-> mc.mcarea]
  BY <1>1
<1>3. mem'[a] # Unmapped
  <2>1. mem'[a].prot = RW
    BY <1>2
  <2>. QED BY <2>1 DEF RW, Unmapped
<1>4. /\ mc'.mcarea = a /\ mc'.szall = mc.szall + param /\ mc'.mctop = param /\ mc'.mcbot = Link
  BY <1>1 DEF AllocatedAt
<1>5. \A b \in Area \ {a} : mem'[b] = m[b]
  BY <1>1
<1>6. mem[a] = Unmapped
  BY <1>1
<1>7. Added(a)
  BY <1>2, <1>3, <1>4, <1>5, <1>6 DEF Added
<1>. QED BY <1>7

\* A request for more memory: the current area is closed, a new one opened.
LEMMA LimitErrAdds ==
  ASSUME ProtFails = FALSE, IInv, LimitErr \/ LimitErrNoMemory
  PROVE  \/ Steady /\ pc' = "error" /\ err' \in {"MCODEOV", "MCODEAL"}
         \/ /\ \E a \in Area : Added(a)
            /\ pc' = "error" /\ err' = "MCODELM" /\ Need <= param /\ mc.szall + param <= MaxMCode
<1>1. /\ mc.mcarea # NoArea /\ mc.mcprot = RW
  BY DEF LimitErr, LimitErrNoMemory, Out, IInv, Assembling, Protection
<1>2. /\ mc \in JitState /\ mem \in [Area -> AreaState] /\ mem[mc.mcarea] # Unmapped /\ mc.mcarea \in Area
  BY <1>1 DEF IInv, TypeOK, Protection, JitState
<1>3. ASSUME Protect(RX) PROVE Steady
  BY <1>1, <1>3, ProtectSteady
<1>4. ASSUME NEW m \in AfterAbort, AllocArea(m) PROVE \E a \in Area : Added(a)
  <2>1. m \in SetProt(mem, mc.mcarea, RX)
    BY <1>1 DEF AfterAbort, RW, RX
  <2>. QED BY <1>2, <1>4, <2>1, SetProtSteady, AllocAdds
<1>5. /\ Need \in Int /\ param \in Int /\ mc.szall \in Int /\ MaxMCode \in Int
  BY Positions, AreasFit, Layout DEF IInv, TypeOK, ASMState, JitState, Need
<1>6. CASE LimitErrNoMemory
  BY <1>3, <1>6 DEF LimitErrNoMemory, Raise
<1>7. CASE LimitErr /\ (Need > param \/ mc.szall + param > MaxMCode)
  BY <1>3, <1>7 DEF LimitErr, Raise
<1>8. CASE LimitErr /\ ~(Need > param \/ mc.szall + param > MaxMCode)
  <2>1. PICK m \in AfterAbort : AllocArea(m) /\ Raise("MCODELM")
    BY <1>8 DEF LimitErr
  <2>. QED BY <1>4, <1>5, <1>8, <2>1 DEF Raise
<1>. QED BY <1>6, <1>7, <1>8

\* mcode_allocarea is called without an area, or for one more; else areas only go all at once.
LEMMA AreaSteps ==
  ASSUME ProtFails = FALSE, IInv, [Next]_vars
  PROVE  \/ Steady
         \/ Flushed
         \/ \E a \in Area : Added(a) /\ (mc.mcarea = NoArea \/ mc.szall + param <= MaxMCode)
<1>0. /\ mc \in JitState /\ mem \in [Area -> AreaState]
  BY DEF IInv, TypeOK
<1>1. CASE UNCHANGED <<mc, mem>>
  BY <1>1 DEF Steady
<1>2. CASE Reserve
  <2>1. CASE mc.mcarea = NoArea
    BY <1>0, <1>2, <2>1, AllocAdds DEF Reserve, ReserveArea
  <2>2. CASE mc.mcarea # NoArea
    BY <1>2, <2>2, ProtectSteady DEF Reserve, ReserveArea
  <2>. QED BY <2>1, <2>2
<1>3. CASE ExitStubGen
  BY <1>0, <1>3 DEF ExitStubGen, Steady, JitState
<1>4. CASE LimitErr \/ LimitErrNoMemory
  BY <1>4, LimitErrAdds
<1>5. CASE PatchStart
  <2>0. /\ code[job.parent].area \in Area /\ mem[code[job.parent].area] # Unmapped
        /\ mc.mcarea # NoArea
    BY <1>5 DEF PatchStart, IInv, Assembling, Assigned, Compiling, Geometry, Inside
  <2>1. CASE code[job.parent].area = mc.mcarea
    BY <1>5, <2>0, <2>1, ProtectSteady DEF PatchStart
  <2>2. CASE code[job.parent].area # mc.mcarea
    BY <1>0, <1>5, <2>0, <2>2, SetProtSteady DEF PatchStart, Steady
  <2>. QED BY <2>1, <2>2
<1>6. CASE PatchFinish
  <2>0. /\ patching \in Area /\ mem[patching] # Unmapped /\ mc.mcarea # NoArea
    BY <1>6 DEF PatchFinish, IInv, TypeOK, Assembling, Protection
  <2>1. CASE patching = mc.mcarea
    BY <1>6, <2>0, <2>1, ProtectSteady DEF PatchFinish
  <2>2. CASE patching # mc.mcarea
    BY <1>0, <1>6, <2>0, <2>2, SetProtSteady DEF PatchFinish, Steady
  <2>. QED BY <2>1, <2>2
<1>7. CASE Commit
  <2>1. mc'.mcarea = mc.mcarea /\ mc'.szall = mc.szall
    BY <1>0, <1>7 DEF Commit, CommitTop, JitState
  <2>2. mc.mcarea \in Area /\ mem[mc.mcarea] # Unmapped
    BY <1>0, <1>7 DEF Commit, IInv, Assembling, Protection, JitState
  <2>3. CASE mc.mcprot = RX
    BY <1>7, <2>1, <2>3 DEF Commit, Steady
  <2>4. CASE mc.mcprot # RX
    BY <1>0, <1>7, <2>1, <2>2, <2>4, SetProtSteady DEF Commit, Steady
  <2>. QED BY <2>3, <2>4
<1>8. CASE Abort
  <2>1. CASE mc.mcarea = NoArea
    BY <1>8, <2>1, <1>1 DEF Abort, McodeAbort
  <2>2. CASE mc.mcarea # NoArea
    BY <1>8, <2>2, ProtectSteady DEF Abort, McodeAbort
  <2>. QED BY <2>1, <2>2
<1>9. CASE EventDone \/ FlushAll
  BY <1>1, <1>9 DEF EventDone, FlushAll
<1>10. ASSUME Next, ~Reserve, ~ExitStubGen, ~LimitErr, ~LimitErrNoMemory, ~PatchStart, ~PatchFinish,
              ~Commit, ~Abort, ~EventDone, ~FlushAll
       PROVE  UNCHANGED <<mc, mem>>
  BY <1>10 DEF Next, Compile, ReserveFails, TailPrep, AsmError, Realign, Finish, Emit, Start, Drop,
               SetParam
<1>. QED BY <1>1, <1>2, <1>3, <1>4, <1>5, <1>6, <1>7, <1>8, <1>9, <1>10 DEF vars

-------------------------------------------------------------------------------
(* How often a trace is tried again.                                            *)

\* the groups of stubs in area a
StubsIn(a) == {g \in Group : stubs[g].area = a}
\* an area has been opened for the trace that is assembled
Given == pc = "error" /\ err = "MCODELM"
Trying == pc \in {"reserve", "stubs", "emit"}
Retried == (Trying /\ retries > 0) \/ Given
\* ... and it is the second one
Last == (Trying /\ retries = 2) \/ (Given /\ retries = 1)
\* The area of a retry is as large as the parameter says, and there is nothing in it but stubs; in
\* the second one there is nothing at all, since all stubs are in the first one.
Fitting ==
  /\ retries <= 2 /\ (Given => retries <= 1) /\ (pc = "idle" => retries = 0)
  /\ Retried => /\ mc.mcarea # NoArea /\ mc.mctop = param
                /\ mc.mcbot = Link + GroupSize * Cardinality(StubsIn(mc.mcarea))
  /\ Last => mc.mcbot = Link /\ \A g \in 0 .. job.groups - 1 : stubs[g] # Nowhere
  /\ pc = "emit" => /\ mc.mctop - Pad <= asm.mctop
                    /\ asm.realign = "NULL" => asm.mctop = mc.mctop

\* A set of numbers that is not empty has a least one.
LEMMA LeastOf ==
  ASSUME NEW S, S \subseteq Nat, S # {}
  PROVE  \E n \in S : \A m \in S : n <= m
<1>. DEFINE R == OpToRel(<, Nat)
<1>1. R = {p \in Nat \X Nat : p[1] < p[2]}
  BY DEF OpToRel
<1>2. IsWellFoundedOn(R, Nat)
  BY NatLessThanWellFounded
<1>. HIDE DEF R
<1>3. PICK n \in S : \A m \in S : ~(<<m, n>> \in R)
  BY <1>2, WFMin, Zenon
<1>4. \A m \in S : ~(m < n)
  <2>. SUFFICES ASSUME NEW m \in S, m < n PROVE FALSE
    OBVIOUS
  <2>1. <<m, n>> \in R
    BY <1>1
  <2>. QED BY <1>3, <2>1
<1>. QED BY <1>4

LEMMA StubsFinite == \A a : IsFiniteSet(StubsIn(a)) /\ Cardinality(StubsIn(a)) \in Nat
<1>1. IsFiniteSet(Group) /\ \A a : StubsIn(a) \subseteq Group
  BY Layout, FS_Interval DEF Group, StubsIn
<1>. QED BY <1>1, FS_Subset, FS_CardinalityType

\* The first missing group.
LEMMA FirstMissing ==
  ASSUME IInv, pc = "stubs", Missing # {}
  PROVE  Min(Missing) \in Missing /\ Min(Missing) \in Group
<1>1. job.groups <= NGroups /\ job.groups \in Nat /\ NGroups \in Nat
  BY Layout DEF IInv, TypeOK, Job, Assembling, Assigned, Compiling
<1>2. Missing \subseteq Group /\ Missing \subseteq Nat
  BY <1>1 DEF Missing, Group
<1>3. PICK n \in Missing : \A m \in Missing : n <= m
  BY <1>2, LeastOf
<1>4. Min(Missing) \in Missing
  BY <1>3 DEF Min
<1>. QED BY <1>2, <1>4

\* As long as a group is missing there is room for it in an area that has nothing but stubs.
LEMMA StubsFit ==
  ASSUME IInv, pc = "stubs", Missing # {}, mc.mcarea # NoArea, mc.mctop = param,
         mc.mcbot = Link + GroupSize * Cardinality(StubsIn(mc.mcarea))
  PROVE  mc.mcbot + GroupSize < asm.mctop /\ asm.mcbot = mc.mcbot
<1>. DEFINE k == Cardinality(StubsIn(mc.mcarea))
<1>1. PICK g \in Group : stubs[g] = Nowhere
  BY FirstMissing DEF Missing
<1>2. g \notin StubsIn(mc.mcarea) /\ StubsIn(mc.mcarea) \subseteq Group
  BY <1>1 DEF StubsIn, Nowhere
<1>3. IsFiniteSet(Group) /\ Cardinality(Group) = NGroups
  BY Layout, FS_Interval DEF Group
<1>4. k <= NGroups - 1
  <2>1. StubsIn(mc.mcarea) \cup {g} \subseteq Group
    BY <1>2
  <2>2. Cardinality(StubsIn(mc.mcarea) \cup {g}) = k + 1
    BY <1>2, StubsFinite, FS_AddElement
  <2>3. Cardinality(StubsIn(mc.mcarea) \cup {g}) <= Cardinality(Group)
    BY <2>1, <1>3, FS_Subset
  <2>. QED BY <2>2, <2>3, <1>3, StubsFinite, Layout
<1>5. k \in Nat /\ NGroups \in Nat /\ GroupSize \in Nat
  BY StubsFinite, Layout
<1>6. GroupSize * k + GroupSize <= NGroups * GroupSize
  <2>. HIDE DEF k
  <2>1. PICK d \in Nat : NGroups = k + 1 + d
    <3>1. NGroups - (k + 1) \in Nat
      BY <1>4, <1>5
    <3>. QED BY <3>1, <1>5
  <2>2. NGroups * GroupSize = GroupSize * k + GroupSize + d * GroupSize
    BY <2>1, <1>5
  <2>3. d * GroupSize \in Nat
    BY <2>1, <1>5
  <2>4. GroupSize * k \in Nat
    BY <1>5
  <2>. QED BY <2>2, <2>3, <2>4, <1>5
<1>7. param \in Nat /\ param > Link + NGroups * GroupSize + RedZone + TailRoom
  BY AreasLargeEnough DEF IInv, TypeOK
<1>8. asm.mctop = mc.mctop /\ asm.mcbot = mc.mcbot
  BY DEF IInv, Assembling
<1>9. NGroups * GroupSize \in Int /\ GroupSize * k \in Int /\ mc.mcbot = Link + GroupSize * k
  BY <1>5
<1>. HIDE DEF k
<1>. QED BY <1>6, <1>7, <1>8, <1>9, Positions

\* Another area is not asked for twice after it had nothing in it: there is not enough room in
\* a third one.
LEMMA LimitErrFits ==
  ASSUME ProtFails = FALSE, IInv, Fitting, LimitErr \/ LimitErrNoMemory
  PROVE  Fitting'
<1>0. Out /\ UNCHANGED <<stubs, code, job, asm, retries, param>>
  BY DEF LimitErr, LimitErrNoMemory
<1>1. CASE pc' = "error" /\ err' # "MCODELM"
  BY <1>0, <1>1 DEF Fitting, Retried, Last, Given, Trying
<1>2. CASE /\ \E a \in Area : Added(a)
           /\ pc' = "error" /\ err' = "MCODELM" /\ Need <= param
  <2>1. PICK a \in Area : Added(a)
    BY <1>2
  <2>2. /\ mc'.mcarea = a /\ mc'.mctop = param /\ mc'.mcbot = Link /\ mem[a] = Unmapped /\ a # NoArea
    BY <2>1, Identities DEF Added
  <2>3. StubsIn(a)' = {}
    BY <1>0, <2>2 DEF IInv, Geometry, Inside, StubsIn, Nowhere
  <2>4. mc'.mcbot = Link + GroupSize * Cardinality(StubsIn(mc.mcarea))'
    <3>1. Cardinality(StubsIn(mc.mcarea)') = 0
      BY <2>2, <2>3, FS_EmptySet
    <3>. QED BY <3>1, <2>2, Positions
  <2>5. ASSUME retries > 0 PROVE pc = "emit" /\ \A g \in 0 .. job.groups - 1 : stubs[g] # Nowhere
    <3>1. Retried /\ retries \in Nat
      BY <1>0, <2>5 DEF Out, Retried, Trying, IInv, TypeOK
    <3>2. pc # "stubs"
      <4>. SUFFICES ASSUME pc = "stubs" PROVE FALSE
        OBVIOUS
      <4>1. Missing # {} /\ asm.mcbot + GroupSize >= asm.mctop
        BY <1>0 DEF Out
      <4>2. mc.mcbot + GroupSize < asm.mctop /\ asm.mcbot = mc.mcbot
        BY <3>1, <4>1, StubsFit DEF Fitting
      <4>3. mc.mcbot \in Int /\ asm.mctop \in Int
        BY Numbers DEF IInv
      <4>. QED BY <4>1, <4>2, <4>3, Positions
    <3>3. pc = "emit"
      BY <1>0, <3>2 DEF Out
    <3>. QED BY <3>3 DEF IInv, Assembling
  <2>6. retries <= 1 /\ retries \in Nat
    <3>. SUFFICES ASSUME retries > 1 PROVE FALSE
      BY DEF IInv, TypeOK
    <3>1. retries = 2
      BY DEF Fitting, IInv, TypeOK
    <3>2. pc = "emit"
      BY <2>5, <3>1
    <3>3. mc.mctop = param /\ mc.mcbot = Link
      <4>1. Last /\ Retried
        BY <3>1, <3>2 DEF Retried, Last, Trying
      <4>. QED BY <4>1 DEF Fitting
    <3>4. asm.mcp < asm.mclim /\ asm.mclim = mc.mcbot + RedZone /\ mc.mctop - Pad <= asm.mctop
      BY <1>0, <3>2 DEF Out, AtLimit, Fitting, IInv, Assembling
    <3>5. /\ asm.mctop \in Int /\ asm.mcp \in Int /\ param \in Int /\ Link \in Int /\ RedZone \in Int
          /\ Pad \in Int
      BY Numbers, Positions, AreasFit, Layout DEF IInv, TypeOK
    <3>. QED BY <3>3, <3>4, <3>5, <1>2, HeaderIsSmall DEF Need
  <2>7. Last' => \A g \in 0 .. job'.groups - 1 : stubs'[g] # Nowhere
    BY <1>0, <1>2, <2>5 DEF Last, Given, Trying
  <2>. QED BY <1>0, <1>2, <2>2, <2>4, <2>6, <2>7 DEF Fitting, Given, Trying, Retried, Last
<1>. QED BY <1>1, <1>2, LimitErrAdds

LEMMA FittingStep ==
  ASSUME ProtFails = FALSE, IInv, Fitting, [Next]_vars
  PROVE  Fitting'
<1>. USE DEF Fitting, Retried, Last, Given, Trying
<1>0. /\ mc \in JitState /\ asm \in ASMState /\ mc.mcbot \in Int /\ mc.mctop \in Int
      /\ asm.mctop \in Int /\ retries \in Nat /\ Pad \in Nat
  BY Numbers, Layout DEF IInv, TypeOK
<1>1. CASE UNCHANGED vars
  BY <1>1 DEF vars, StubsIn
<1>2. CASE Reserve
  <2>1. pc = "reserve" /\ pc' = "stubs" /\ err' = "none" /\ UNCHANGED <<stubs, job, retries, param>>
    BY <1>2 DEF Reserve
  <2>2. CASE mc.mcarea = NoArea
    BY <2>1, <2>2, <1>0
  <2>3. CASE mc.mcarea # NoArea
    <3>1. SameArea
      BY <1>2, <2>3, ProtectSteady DEF Reserve, ReserveArea
    <3>. QED BY <2>1, <2>3, <3>1 DEF SameArea, StubsIn
  <2>. QED BY <2>2, <2>3
<1>3. CASE ReserveFails
  BY <1>0, <1>3 DEF ReserveFails, Raise
<1>4. CASE ExitStubGen
  <2>. DEFINE g == Min(Missing)
  <2>1. /\ pc = "stubs" /\ pc' = "stubs" /\ Missing # {} /\ UNCHANGED <<mem, job, err, retries, param>>
        /\ mc' = [mc EXCEPT !.mcbot = asm.mcbot + GroupSize] /\ asm.mcbot = mc.mcbot
    BY <1>4 DEF ExitStubGen, IInv, Assembling
  <2>2. g \in Group /\ stubs[g] = Nowhere /\ g \in 0 .. job.groups - 1
    BY <2>1, FirstMissing DEF Missing
  <2>3. stubs' = [stubs EXCEPT ![g] = [area |-> mc.mcarea, lo |-> asm.mcbot, hi |-> asm.mcbot + GroupSize]]
    BY <1>4 DEF ExitStubGen
  <2>4. /\ mc'.mcarea = mc.mcarea /\ mc'.mctop = mc.mctop /\ mc'.mcbot = mc.mcbot + GroupSize
    BY <1>0, <2>1 DEF JitState
  <2>5. ASSUME mc.mcarea # NoArea
        PROVE  Cardinality(StubsIn(mc.mcarea))' = Cardinality(StubsIn(mc.mcarea)) + 1
    <3>. HIDE DEF g
    <3>1. StubsIn(mc.mcarea)' = StubsIn(mc.mcarea) \cup {g}
      BY <2>2, <2>3, <2>4 DEF StubsIn, IInv, TypeOK
    <3>2. g \notin StubsIn(mc.mcarea)
      BY <2>2, <2>5 DEF StubsIn, Nowhere
    <3>. QED BY <3>1, <3>2, StubsFinite, FS_AddElement
  <2>6. ~Last
    BY <2>1, <2>2
  <2>7. ASSUME Retried PROVE mc'.mcbot = Link + GroupSize * Cardinality(StubsIn(mc.mcarea))'
    <3>1. mc.mcarea # NoArea /\ mc.mcbot = Link + GroupSize * Cardinality(StubsIn(mc.mcarea))
      BY <2>7
    <3>. DEFINE n == Cardinality(StubsIn(mc.mcarea))
    <3>2. n \in Nat
      BY StubsFinite
    <3>3. Cardinality(StubsIn(mc.mcarea))' = n + 1 /\ mc.mcbot = Link + GroupSize * n
      BY <2>5, <3>1
    <3>. HIDE DEF n
    <3>. QED BY <2>4, <3>2, <3>3, Positions
  <2>. QED BY <2>1, <2>4, <2>6, <2>7
<1>5. CASE TailPrep
  <2>1. pc = "stubs" /\ pc' = "emit" /\ asm'.mctop = mc.mctop
    BY <1>0, <1>5 DEF TailPrep, ASMState, IInv, Assembling
  <2>. QED BY <1>0, <1>5, <2>1 DEF TailPrep, StubsIn
<1>6. CASE LimitErr \/ LimitErrNoMemory
  BY <1>6, LimitErrFits
<1>7. CASE AsmError
  BY <1>7 DEF AsmError, Raise
<1>8. ASSUME NEW n \in 0 .. Pad, Realign(n) PROVE Fitting'
  <2>1. /\ pc = "emit" /\ asm.mctop = mc.mctop
        /\ asm'.mctop = asm.mctop - n /\ asm'.realign = "set"
        /\ UNCHANGED <<mc, mem, stubs, code, job, err, patching, retries, param, pc>>
    BY <1>0, <1>8 DEF Realign, ASMState
  <2>. QED BY <1>0, <2>1 DEF StubsIn
<1>9. ASSUME NEW n \in Nat, Finish(n) PROVE Fitting'
  BY <1>9 DEF Finish
<1>10. ASSUME NEW n \in 1 .. MaxIns, Emit(n) PROVE Fitting'
  <2>1. /\ pc = "emit" /\ asm'.mctop = asm.mctop /\ asm'.realign = asm.realign
        /\ UNCHANGED <<mc, mem, stubs, code, job, err, patching, retries, param, pc>>
    BY <1>0, <1>10 DEF Emit, ASMState
  <2>. QED BY <1>0, <2>1 DEF StubsIn
<1>11. CASE PatchStart \/ PatchFinish \/ Commit
  BY <1>11 DEF PatchStart, PatchFinish, Commit
<1>12. CASE Abort
  <2>1. CASE err = "MCODELM"
    <3>1. Given /\ mc.mcarea # NoArea
      BY <1>12, <2>1 DEF Abort
    <3>2. pc' = "reserve" /\ retries' = retries + 1 /\ UNCHANGED <<stubs, job, err, param>>
      BY <1>12, <2>1, <3>1, <1>0 DEF Abort
    <3>3. SameArea
      BY <1>12, <3>1, ProtectSteady DEF Abort, McodeAbort
    <3>. QED BY <1>0, <3>1, <3>2, <3>3 DEF SameArea, StubsIn
  <2>2. CASE err # "MCODELM"
    BY <1>12, <2>2 DEF Abort
  <2>. QED BY <2>1, <2>2
<1>13. CASE EventDone
  BY <1>13 DEF EventDone
<1>14. CASE FlushAll \/ (\E t \in Trace : Drop(t)) \/ \E sz \in Sizes : SetParam(sz)
  BY <1>14 DEF FlushAll, Drop, SetParam
<1>15. ASSUME NEW t, NEW p, NEW len, NEW g, Start(t, p, len, g) PROVE Fitting'
  BY <1>15, <1>0 DEF Start
<1>16. TailRoom \in Nat
  BY Layout
<1>. QED
  BY <1>1, <1>2, <1>3, <1>4, <1>5, <1>6, <1>7, <1>8, <1>9, <1>10, <1>11, <1>12, <1>13, <1>14, <1>15,
     <1>16 DEF Next, Compile
-------------------------------------------------------------------------------
(* The size of a set of areas.                                                  *)

\* all bytes of the areas of S
Bytes(m, S) == {p \in S \X Nat : p[2] < m[p[1]].size}

LEMMA BytesAdd ==
  ASSUME NEW m \in [Area -> AreaState], NEW S \in SUBSET Area, NEW a \in S
  PROVE  /\ Bytes(m, S) = Bytes(m, S \ {a}) \cup ({a} \X (0 .. m[a].size - 1))
         /\ Bytes(m, S \ {a}) \cap ({a} \X (0 .. m[a].size - 1)) = {}
<1>1. m[a].size \in Nat
  BY DEF AreaState
<1>2. ASSUME NEW p \in Bytes(m, S) PROVE p \in Bytes(m, S \ {a}) \cup ({a} \X (0 .. m[a].size - 1))
  BY <1>1, <1>2 DEF Bytes
<1>3. ASSUME NEW p \in {a} \X (0 .. m[a].size - 1) PROVE p \in Bytes(m, S) /\ p \notin Bytes(m, S \ {a})
  BY <1>1, <1>3 DEF Bytes
<1>4. Bytes(m, S \ {a}) \subseteq Bytes(m, S)
  BY DEF Bytes
<1>. QED BY <1>2, <1>3, <1>4

LEMMA AreaBytes ==
  ASSUME NEW m \in [Area -> AreaState], NEW a \in Area
  PROVE  /\ IsFiniteSet({a} \X (0 .. m[a].size - 1))
         /\ Cardinality({a} \X (0 .. m[a].size - 1)) = m[a].size
<1>1. m[a].size \in Nat
  BY DEF AreaState
<1>2. IsFiniteSet(0 .. m[a].size - 1) /\ Cardinality(0 .. m[a].size - 1) = m[a].size
  BY <1>1, FS_Interval
<1>3. IsFiniteSet({a}) /\ Cardinality({a}) = 1
  BY FS_Singleton
<1>. DEFINE R == 0 .. m[a].size - 1
            A == {a}
<1>4. IsFiniteSet(A \X R) /\ Cardinality(A \X R) = Cardinality(A) * Cardinality(R)
  <2>1. IsFiniteSet(A) /\ IsFiniteSet(R)
    BY <1>2, <1>3
  <2>. HIDE DEF A, R
  <2>. QED BY <2>1, FS_Product
<1>. QED BY <1>1, <1>2, <1>3, <1>4

LEMMA BytesFinite ==
  ASSUME NEW m \in [Area -> AreaState], NEW S \in SUBSET Area
  PROVE  IsFiniteSet(Bytes(m, S))
<1>. DEFINE Bad == {s \in SUBSET Area : ~IsFiniteSet(Bytes(m, s))}
            Sizes_ == {Cardinality(s) : s \in Bad}
<1>. SUFFICES ASSUME Bad # {} PROVE FALSE
  OBVIOUS
<1>1. \A s \in SUBSET Area : IsFiniteSet(s) /\ Cardinality(s) \in Nat
  BY MemoryIsFinite, FS_Subset, FS_CardinalityType
<1>2. Sizes_ \subseteq Nat /\ Sizes_ # {}
  BY <1>1
<1>3. PICK n \in Sizes_ : \A k \in Sizes_ : n <= k
  BY <1>2, LeastOf
<1>4. PICK s \in Bad : n = Cardinality(s)
  BY <1>3
<1>5. s # {}
  <2>1. Bytes(m, {}) = {}
    BY DEF Bytes
  <2>. QED BY <2>1, FS_EmptySet
<1>6. PICK a \in s : TRUE
  BY <1>5
<1>7. s \ {a} \in SUBSET Area /\ Cardinality(s \ {a}) = Cardinality(s) - 1
  BY <1>1, <1>6, FS_RemoveElement
<1>8. IsFiniteSet(Bytes(m, s \ {a}))
  <2>1. ~(n <= Cardinality(s \ {a}))
    BY <1>1, <1>4, <1>7
  <2>. QED BY <1>3, <1>7, <2>1
<1>9. IsFiniteSet(Bytes(m, s))
  <2>. DEFINE B == Bytes(m, s \ {a})
              A == {a} \X (0 .. m[a].size - 1)
  <2>1. IsFiniteSet(A) /\ IsFiniteSet(B) /\ Bytes(m, s) = B \cup A
    BY <1>6, <1>8, BytesAdd, AreaBytes
  <2>. HIDE DEF A, B
  <2>. QED BY <2>1, FS_Union
<1>. QED BY <1>9

LEMMA BytesSum ==
  ASSUME NEW m \in [Area -> AreaState], NEW S \in SUBSET Area, NEW a \in S
  PROVE  Cardinality(Bytes(m, S)) = m[a].size + Cardinality(Bytes(m, S \ {a}))
<1>1. IsFiniteSet(Bytes(m, S \ {a})) /\ Cardinality(Bytes(m, S \ {a})) \in Nat
  BY BytesFinite, FS_CardinalityType
<1>2. m[a].size \in Nat
  BY DEF AreaState
<1>. DEFINE B == Bytes(m, S \ {a})
            A == {a} \X (0 .. m[a].size - 1)
<1>3. /\ IsFiniteSet(A) /\ IsFiniteSet(B) /\ Bytes(m, S) = B \cup A /\ B \cap A = {}
      /\ Cardinality(A) = m[a].size
  BY <1>1, BytesAdd, AreaBytes
<1>. HIDE DEF A
<1>4. Cardinality(Bytes(m, S)) = Cardinality(B) + Cardinality(A) - Cardinality(B \cap A)
  BY <1>3, FS_Union
<1>5. Cardinality(B \cap A) = 0
  BY <1>3, FS_EmptySet
<1>. QED BY <1>1, <1>2, <1>3, <1>4, <1>5

LEMMA TotalIs ==
  ASSUME NEW m \in [Area -> AreaState], NEW S \in SUBSET Area
  PROVE  Total(m, S) = Cardinality(Bytes(m, S))
<1>. DEFINE one(s) == CHOOSE x \in s : TRUE
            Is(f) == f = [s \in SUBSET S |-> IF s = {} THEN 0 ELSE m[one(s)].size + f[s \ {one(s)}]]
            g == [s \in SUBSET S |-> Cardinality(Bytes(m, s))]
            h == CHOOSE f : Is(f)
<1>0. \A s : s # {} => one(s) \in s
  OBVIOUS
<1>1. Total(m, S) = h[S]
  BY Zenon DEF Total, MapThenSumSet, MapThenFoldSet
<1>. HIDE DEF one
<1>2. Cardinality(Bytes(m, {})) = 0
  <2>1. Bytes(m, {}) = {}
    BY DEF Bytes
  <2>. QED BY <2>1, FS_EmptySet
<1>3. ASSUME NEW s \in SUBSET S, s # {}
      PROVE  Cardinality(Bytes(m, s)) = m[one(s)].size + Cardinality(Bytes(m, s \ {one(s)}))
  BY <1>0, <1>3, BytesSum
<1>4. Is(g)
  <2>1. ASSUME NEW s \in SUBSET S
        PROVE  g[s] = IF s = {} THEN 0 ELSE m[one(s)].size + g[s \ {one(s)}]
    BY <1>2, <1>3
  <2>. QED BY <2>1, Zenon
<1>5. Is(h)
  BY <1>4, Zenon
<1>. DEFINE Bad == {s \in SUBSET S : h[s] # g[s]}
            Sizes_ == {Cardinality(s) : s \in Bad}
<1>6. Bad = {}
  <2>. SUFFICES ASSUME Bad # {} PROVE FALSE
    OBVIOUS
  <2>1. \A s \in SUBSET S : IsFiniteSet(s) /\ Cardinality(s) \in Nat
    BY MemoryIsFinite, FS_Subset, FS_CardinalityType
  <2>2. Sizes_ \subseteq Nat /\ Sizes_ # {}
    BY <2>1
  <2>3. PICK n \in Sizes_ : \A k \in Sizes_ : n <= k
    BY <2>2, LeastOf
  <2>4. PICK s \in Bad : n = Cardinality(s)
    BY <2>3
  <2>. HIDE DEF h, g
  <2>5. ASSUME NEW t \in SUBSET S
        PROVE  /\ h[t] = IF t = {} THEN 0 ELSE m[one(t)].size + h[t \ {one(t)}]
               /\ g[t] = IF t = {} THEN 0 ELSE m[one(t)].size + g[t \ {one(t)}]
    BY <1>4, <1>5, Zenon
  <2>6. s # {} /\ one(s) \in s
    BY <2>5, <1>0
  <2>7. s \ {one(s)} \in SUBSET S /\ Cardinality(s \ {one(s)}) = Cardinality(s) - 1
    BY <2>1, <2>6, FS_RemoveElement
  <2>8. h[s \ {one(s)}] = g[s \ {one(s)}]
    <3>1. ~(n <= Cardinality(s \ {one(s)}))
      BY <2>1, <2>4, <2>7
    <3>. QED BY <2>3, <2>7, <3>1
  <2>. QED BY <2>4, <2>5, <2>8
<1>7. h[S] = g[S]
  BY <1>6
<1>. QED BY <1>1, <1>7

LEMMA TotalAdds ==
  ASSUME NEW m \in [Area -> AreaState], NEW S \in SUBSET Area, NEW a \in S
  PROVE  Total(m, S) = m[a].size + Total(m, S \ {a})
BY TotalIs, BytesSum

LEMMA TotalSame ==
  ASSUME NEW m \in [Area -> AreaState], NEW n \in [Area -> AreaState], NEW S \in SUBSET Area,
         \A a \in S : m[a].size = n[a].size
  PROVE  Total(m, S) = Total(n, S)
<1>1. Bytes(m, S) = Bytes(n, S)
  BY DEF Bytes
<1>. QED BY <1>1, TotalIs

-------------------------------------------------------------------------------
(* All areas are counted, and linked.                                           *)

\* the links that J->mcarea starts only change as a whole
LEMMA FoundClosed ==
  ASSUME mc \in JitState, mem \in [Area -> AreaState]
  PROVE  LinksLead(Found)
<1>1. LinksLead(Area \cup {NoArea}) /\ Found \subseteq Area \cup {NoArea}
  BY DEF LinksLead, JitState, AreaState, Found
<1>2. mc.mcarea \in Found
  BY DEF LinksLead, Found, JitState
<1>3. ASSUME NEW b \in Found \ {NoArea} PROVE mem[b].next \in Found
  <2>1. b \in Area /\ mem[b].next \in Area \cup {NoArea}
    BY <1>1 DEF AreaState
  <2>2. ASSUME NEW S \in SUBSET (Area \cup {NoArea}), LinksLead(S) PROVE mem[b].next \in S
    <3>1. b \in S
      BY <2>2 DEF Found
    <3>. QED BY <2>2, <3>1 DEF LinksLead
  <2>. QED BY <2>1, <2>2 DEF Found
<1>. QED BY <1>2, <1>3 DEF LinksLead

LEMMA SizesSteady ==
  ASSUME IInv, IInv', SizesAccounted, Steady
  PROVE  SizesAccounted'
<1>0. mem \in [Area -> AreaState] /\ mem' \in [Area -> AreaState]
  BY DEF IInv, TypeOK
<1>1. Mapped' = Mapped
  BY DEF Steady, Mapped
<1>2. \A S \in SUBSET (Area \cup {NoArea}) : LinksLead(S)' <=> LinksLead(S)
  BY DEF LinksLead, Steady
<1>3. Found' = Found
  BY <1>2 DEF Found
<1>4. Total(mem, Mapped)' = Total(mem, Mapped)
  <2>1. \A a \in Mapped : mem'[a].size = mem[a].size
    BY DEF Mapped, Steady
  <2>2. Total(mem', Mapped) = Total(mem, Mapped)
    BY <1>0, <2>1, TotalSame DEF Mapped
  <2>. QED BY <1>1, <2>2
<1>. QED BY <1>1, <1>3, <1>4 DEF SizesAccounted, Steady

LEMMA SizesFlushed ==
  ASSUME IInv, IInv', Flushed
  PROVE  SizesAccounted'
<1>0. mc \in JitState /\ mem' \in [Area -> AreaState]
  BY DEF IInv, TypeOK
<1>1. Mapped' = {} /\ mc'.mcarea = NoArea /\ mc'.szall = 0
  BY <1>0 DEF Flushed, Mapped, JitState
<1>2. Found' = {NoArea}
  <2>1. LinksLead({NoArea})'
    BY <1>1 DEF LinksLead
  <2>2. \A S \in SUBSET (Area \cup {NoArea}) : LinksLead(S)' => NoArea \in S
    BY <1>1 DEF LinksLead
  <2>. QED BY <2>1, <2>2 DEF Found
<1>3. Total(mem, Mapped)' = 0
  <2>1. Bytes(mem', {}) = {}
    BY DEF Bytes
  <2>2. Total(mem', {}) = 0
    BY <1>0, <2>1, TotalIs, FS_EmptySet
  <2>. QED BY <1>1, <2>2
<1>4. Cardinality(Mapped') = 0
  BY <1>1, FS_EmptySet
<1>. QED BY <1>1, <1>2, <1>3, <1>4 DEF SizesAccounted

LEMMA SizesAdded ==
  ASSUME IInv, IInv', SizesAccounted, NEW a \in Area, Added(a),
         mc.mcarea = NoArea \/ mc.szall + param <= MaxMCode
  PROVE  SizesAccounted'
<1>0. /\ mc \in JitState /\ mem \in [Area -> AreaState] /\ mem' \in [Area -> AreaState]
      /\ param \in Nat /\ mc.szall \in Nat /\ MaxMCode \in Nat
  BY AreasFit, Layout DEF IInv, TypeOK, JitState
<1>1. a \notin Mapped /\ Mapped' = Mapped \cup {a} /\ Mapped \subseteq Area
  BY DEF Added, Mapped
<1>2. a # NoArea
  BY Identities
<1>3. LinksLead(Mapped \cup {NoArea})
  BY <1>0, FoundClosed DEF SizesAccounted
<1>4. Found' = Mapped' \cup {NoArea}
  <2>1. LinksLead(Mapped \cup {a, NoArea})'
    BY <1>1, <1>3 DEF LinksLead, Added
  <2>2. ASSUME NEW S \in SUBSET (Area \cup {NoArea}), LinksLead(S)'
        PROVE  Mapped \cup {a, NoArea} \subseteq S
    <3>. DEFINE T == S \cap (Mapped \cup {NoArea})
    <3>1. a \in S /\ mc.mcarea \in S
      BY <1>2, <2>2 DEF LinksLead, Added
    <3>2. mc.mcarea \in T
      BY <1>3, <3>1 DEF LinksLead
    <3>3. ASSUME NEW b \in T \ {NoArea} PROVE mem[b].next \in T
      <4>1. b \in S /\ b \in Mapped /\ b # a /\ b \in Area
        BY <1>1, <3>3
      <4>2. mem'[b].next = mem[b].next
        BY <4>1 DEF Added
      <4>. QED BY <1>3, <2>2, <4>1, <4>2 DEF LinksLead
    <3>4. LinksLead(T)
      BY <3>2, <3>3 DEF LinksLead
    <3>5. Found \subseteq T
      BY <3>4 DEF Found
    <3>. QED BY <3>1, <3>5 DEF SizesAccounted
  <2>. QED BY <1>1, <2>1, <2>2 DEF Found
<1>5. mc'.szall = Total(mem, Mapped)'
  <2>1. Total(mem', Mapped \cup {a}) = mem'[a].size + Total(mem', Mapped)
    <3>1. (Mapped \cup {a}) \ {a} = Mapped
      BY <1>1
    <3>. QED BY <1>0, <1>1, <3>1, TotalAdds
  <2>2. Total(mem', Mapped) = Total(mem, Mapped)
    <3>1. \A b \in Mapped : mem'[b].size = mem[b].size
      BY <1>1 DEF Added
    <3>. QED BY <1>0, <1>1, <3>1, TotalSame
  <2>3. mem'[a].size = param /\ mc'.szall = mc.szall + param /\ mc.szall = Total(mem, Mapped)
    BY DEF Added, SizesAccounted
  <2>4. Total(mem, Mapped)' = Total(mem', Mapped \cup {a})
    BY <1>1
  <2>. QED BY <1>0, <2>1, <2>2, <2>3, <2>4
<1>6. Cardinality(Mapped') > 1 => mc'.szall <= MaxMCode
  <2>1. CASE mc.mcarea = NoArea
    <3>1. LinksLead({NoArea})
      BY <2>1 DEF LinksLead
    <3>2. Found \subseteq {NoArea}
      BY <3>1 DEF Found
    <3>3. Mapped' = {a}
      BY <1>1, <3>2, Identities DEF SizesAccounted
    <3>4. Cardinality({a}) = 1
      BY FS_Singleton
    <3>. QED BY <3>3, <3>4
  <2>2. CASE mc.mcarea # NoArea
    BY <2>2 DEF Added
  <2>. QED BY <2>1, <2>2
<1>. QED BY <1>4, <1>5, <1>6 DEF SizesAccounted

\* An area that is taken is linked and counted by mcode_allocarea (lj_mcode.c), whoever asks for
\* it and whatever comes of the trace; mcode_free finds all of them by the links and stops there.
THEOREM MCodeSizes == ASSUME ProtFails = FALSE PROVE Spec => []SizesAccounted
<1>1. Init => SizesAccounted
  <2>. SUFFICES ASSUME Init PROVE SizesAccounted
    OBVIOUS
  <2>1. Mapped = {} /\ mc.mcarea = NoArea /\ mc.szall = 0 /\ mem \in [Area -> AreaState]
    BY DEF Init, Mapped, Unmapped, AreaState
  <2>2. Found = {NoArea}
    <3>1. LinksLead({NoArea})
      BY <2>1 DEF LinksLead
    <3>2. \A S \in SUBSET (Area \cup {NoArea}) : LinksLead(S) => NoArea \in S
      BY <2>1 DEF LinksLead
    <3>. QED BY <3>1, <3>2 DEF Found
  <2>3. Total(mem, {}) = 0
    <3>1. Bytes(mem, {}) = {}
      BY DEF Bytes
    <3>. QED BY <2>1, <3>1, TotalIs, FS_EmptySet
  <2>. QED BY <2>1, <2>2, <2>3, FS_EmptySet DEF SizesAccounted
<1>2. IInv /\ IInv' /\ SizesAccounted /\ [Next]_vars => SizesAccounted'
  BY AreaSteps, SizesSteady, SizesFlushed, SizesAdded
<1>3. Spec => []IInv
  BY Inductive
<1>. QED BY <1>1, <1>2, <1>3, PTL DEF Spec

\* A trace that does not fit (lj_mcode_limiterr, trace_abort) is tried again at most twice: what
\* an area must hold for it beside the code, stubs and red zones, is in the first of the new ones.
THEOREM MCodeFewRetries == ASSUME ProtFails = FALSE PROVE Spec => []FewRetries
<1>1. Init => Fitting
  BY DEF Init, Fitting, Retried, Last, Given, Trying
<1>2. ProtFails = FALSE /\ IInv /\ Fitting /\ [Next]_vars => Fitting'
  BY FittingStep
<1>3. Fitting => FewRetries
  BY DEF Fitting, FewRetries
<1>4. Spec => []IInv
  BY Inductive
<1>. QED BY <1>1, <1>2, <1>3, <1>4, PTL DEF Spec
=============================================================================
