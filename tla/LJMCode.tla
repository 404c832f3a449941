------------------------------- MODULE LJMCode -------------------------------
(***************************************************************************)
(* Memory for machine code: lj_mcode.c, and what the assembler             *)
(* (lj_asm.c, lj_asm_x86.h) and the trace compiler driver (lj_trace.c) do  *)
(* with it.  Memory comes in areas, which are writable or executable.      *)
(* Code is written downwards from the top of the current area, exit stubs  *)
(* upwards from its bottom; the assembler checks for room now and then,    *)
(* with a red zone.  Addresses are offsets into an area.                   *)
(***************************************************************************)
EXTENDS Integers, FiniteSets, FiniteSetsExt

CONSTANTS
  Area,           \* what the operating system can map
  NoArea,         \* NULL
  Trace, NoTrace, \* trace numbers, and 0
  Sizes,          \* values of the parameter sizemcode, rounded to pages
  MaxMCode,       \* parameter maxmcode
  Link,           \* sizeof(MCLink)
  RedZone,        \* MCLIM_REDZONE
  MaxIns,         \* most that is emitted between two checks of the limit
  TailRoom,       \* room left for the exit branch (asm_tail_prep)
  Pad,            \* most NOPs that align a loop
  GroupSize,      \* size of a group of exit stubs
  NGroups,        \* LJ_MAX_EXITSTUBGR
  Lengths,        \* lengths of the code of traces
  ProtFails       \* may the system refuse to change protection?

Group == 0 .. NGroups - 1

\* the red zone covers what one check lets through
ASSUME RedZoneCovers == MaxIns \in 1 .. RedZone /\ RedZone \in Nat
ASSUME Layout == /\ Link \in Nat \ {0} /\ TailRoom \in 0 .. MaxIns /\ GroupSize \in Nat \ {0}
                 /\ NGroups \in Nat \ {0} /\ MaxMCode \in Nat /\ Pad \in 0 .. RedZone
\* a page is larger than the header, all exit stubs, the tail and the red zone
ASSUME AreasLargeEnough ==
  \A sz \in Sizes : sz \in Nat /\ sz > Link + NGroups * GroupSize + RedZone + TailRoom
ASSUME Identities == NoArea \notin Area /\ ProtFails \in BOOLEAN /\ NoTrace \notin Trace
ASSUME LengthsPositive == Lengths \subseteq Nat \ {0}
\* the header of an area is small: sizeof(MCLink) is 16, MCLIM_REDZONE 64
ASSUME HeaderIsSmall == Link + Pad <= 3 * RedZone
ASSUME MemoryIsFinite == IsFiniteSet(Area)

VARIABLES
  mc,             \* jit_State: mcarea, mcprot, szmcarea, mctop, mcbot, szallmcarea
  mem,            \* the areas: protection, and the MCLink at their bottom
  stubs,          \* J->exitstubgroup: where each group is
  code,           \* where each trace's machine code is
  job,            \* the trace that is assembled (J->cur, J->parent)
  asm,            \* ASMState
  err,            \* the error that was raised
  patching,       \* the area that lj_mcode_patch has opened
  retries,        \* history: areas taken for this trace
  param,          \* J->param[JIT_P_sizemcode]
  pc              \* what the compiler is about to do
vars == <<mc, mem, stubs, code, job, asm, err, patching, retries, param, pc>>

RW == "RW"   \* MCPROT_GEN
RX == "RX"   \* MCPROT_RUN
Unmapped == [prot |-> "none", size |-> 0, next |-> NoArea]
Nowhere == [area |-> NoArea, lo |-> 0, hi |-> 0]
NoCode == [area |-> NoArea, lo |-> 0, hi |-> 0, groups |-> 0]
Mapped == {a \in Area : mem[a] # Unmapped}

\* no trace is being assembled
NoJob == [trace |-> NoTrace, parent |-> NoTrace, len |-> 0, groups |-> 0]
IdleAs == [mctop |-> 0, mcp |-> 0, mcbot |-> 0, mclim |-> 0, left |-> 0, realign |-> "NULL"]

Init == /\ mc = [mcarea |-> NoArea, mcprot |-> "none", szmcarea |-> 0, mctop |-> 0, mcbot |-> 0,
                 szall |-> 0]
        /\ mem = [a \in Area |-> Unmapped]
        /\ stubs = [g \in Group |-> Nowhere]
        /\ code = [t \in Trace |-> NoCode]
        /\ job = NoJob /\ asm = IdleAs /\ err = "none" /\ patching = NoArea /\ retries = 0
        /\ param \in Sizes
        /\ pc = "idle"

(***************************************************************************)
(* Protection.                                                             *)
(***************************************************************************)
\* what mprotect may leave behind; after a failure mcode_protfail calls the panic
\* function, if there is one, and goes on when that returns
SetProt(m, a, prot) ==
  {[m EXCEPT ![a].prot = prot]} \cup (IF ProtFails THEN {m} ELSE {})

\* mcode_protect: the current area, through the cache J->mcprot
Protect(prot) ==
  IF mc.mcprot = prot
    THEN UNCHANGED <<mc, mem>>
    ELSE /\ mem' \in SetProt(mem, mc.mcarea, prot)
         /\ mc' = [mc EXCEPT !.mcprot = prot]

\* Wrong: new areas are not counted.
UncountedAt(c, a) == [mcarea |-> a, mcprot |-> RW, szmcarea |-> param, mctop |-> param,
                      mcbot |-> Link, szall |-> c.szall]
\* jit_State after mcode_allocarea has got area a
AllocatedAt(c, a) == [mcarea |-> a, mcprot |-> RW, szmcarea |-> param, mctop |-> param,
                      mcbot |-> Link, szall |-> c.szall + param]

\* mcode_allocarea on top of the areas m; an area out of the jump range is given back
\* by mcode_alloc, and not seen here
AllocArea(m) ==
  \E a \in {b \in Area : m[b] = Unmapped} :
    /\ mem' = [m EXCEPT ![a] = [prot |-> RW, size |-> param, next |-> mc.mcarea]]
    /\ mc' = AllocatedAt(mc, a)

Raise(e) == pc' = "error" /\ err' = e

(***************************************************************************)
(* The assembler (lj_asm_trace).                                           *)
(***************************************************************************)
\* LJ_TRACE_ASM is reached for trace t, a side trace of parent or a root trace
Start(t, parent, len, groups) ==
  /\ pc = "idle"
  /\ code[t] = NoCode
  /\ job' = [trace |-> t, parent |-> parent, len |-> len, groups |-> groups]
  /\ pc' = "reserve"
  /\ UNCHANGED <<mc, mem, stubs, code, asm, err, patching, retries, param>>

\* lj_mcode_reserve: the remainder of the current area, or a first one
ReserveArea == IF mc.mcarea = NoArea THEN AllocArea(mem) ELSE Protect(RW)

\* lj_asm_trace begins
Reserve ==
  /\ pc = "reserve"
  /\ ReserveArea
  /\ asm' = [mctop |-> mc'.mctop, mcp |-> mc'.mctop, mcbot |-> mc'.mcbot,
            mclim |-> mc'.mcbot + RedZone, left |-> 0, realign |-> "NULL"]
  /\ err' = "none"
  /\ pc' = "stubs"
  /\ UNCHANGED <<stubs, code, job, patching, retries, param>>

\* ... when there is no memory: lj_trace_err(LJ_TRERR_MCODEAL)
ReserveFails ==
  /\ pc = "reserve" /\ mc.mcarea = NoArea
  /\ Raise("MCODEAL")
  /\ UNCHANGED <<mc, mem, stubs, code, job, asm, patching, retries, param>>

Missing == {g \in 0 .. job.groups - 1 : stubs[g] = Nowhere}

\* Wrong: the bottom of the area is not moved (lj_mcode_commitbot forgotten).
StubNotCommitted ==
  /\ pc = "stubs" /\ Missing # {}
  /\ asm.mcbot + GroupSize < asm.mctop
  /\ stubs' = [stubs EXCEPT ![Min(Missing)] =
                 [area |-> mc.mcarea, lo |-> asm.mcbot, hi |-> asm.mcbot + GroupSize]]
  /\ asm' = [asm EXCEPT !.mcbot = @ + GroupSize, !.mclim = asm.mcbot + GroupSize + RedZone]
  /\ UNCHANGED <<mc, mem, code, job, err, patching, retries, param, pc>>
\* asm_exitstub_gen: they stay even if the trace is given up
ExitStubGen ==
  /\ pc = "stubs" /\ Missing # {}
  /\ asm.mcbot + GroupSize < asm.mctop
  /\ stubs' = [stubs EXCEPT ![Min(Missing)] =
                 [area |-> mc.mcarea, lo |-> asm.mcbot, hi |-> asm.mcbot + GroupSize]]
  /\ mc' = [mc EXCEPT !.mcbot = asm.mcbot + GroupSize]
  /\ asm' = [asm EXCEPT !.mcbot = @ + GroupSize, !.mclim = asm.mcbot + GroupSize + RedZone]
  /\ UNCHANGED <<mem, code, job, err, patching, retries, param, pc>>

\* asm_tail_prep, at the start and again when the loop is realigned
TailPrep ==
  /\ pc = "stubs" /\ Missing = {}
  /\ asm' = [asm EXCEPT !.mcp = asm.mctop - TailRoom, !.left = job.len]
  /\ pc' = "emit"
  /\ UNCHANGED <<mc, mem, stubs, code, job, err, patching, retries, param>>

\* asm_tail_prep after asm_loop_fixup has asked for a retry: n NOPs at the tail for the
\* alignment, and all of the code is emitted again; the loop is at the end of the code
Realign(n) ==
  /\ pc = "emit" /\ asm.left < job.len /\ asm.realign = "NULL"
  /\ asm' = [asm EXCEPT !.mctop = @ - n, !.mcp = asm.mctop - n - TailRoom, !.left = job.len,
                      !.realign = "set"]
  /\ UNCHANGED <<mc, mem, stubs, code, job, err, patching, retries, param, pc>>

\* Wrong: the limit is that of the memory, without the red zone.
AtBottom == asm.mcp < asm.mcbot
\* checkmclim
AtLimit == asm.mcp < asm.mclim

\* asm_ir and its like: the code of one instruction, after a check
Emit(n) ==
  /\ pc = "emit" /\ asm.left > 0 /\ ~AtLimit
  /\ asm' = [asm EXCEPT !.mcp = @ - n, !.left = @ - n]
  /\ UNCHANGED <<mc, mem, stubs, code, job, err, patching, retries, param, pc>>

Out == \/ pc = "stubs" /\ Missing # {} /\ asm.mcbot + GroupSize >= asm.mctop
       \/ pc = "emit" /\ asm.left > 0 /\ AtLimit

\* lj_mcode_limiterr, first what lj_mcode_abort leaves behind ...
AfterAbort == IF mc.mcprot = RX THEN {mem} ELSE SetProt(mem, mc.mcarea, RX)
\* ... then a new area, if the trace can fit one and the limit allows it
Need == asm.mctop - asm.mcp + 4 * RedZone
\* Wrong: a trace that is too long for any area is tried again.
LimitErrAlways ==
  /\ Out
  /\ IF mc.szall + param > MaxMCode
       THEN Protect(RX) /\ Raise("MCODELM")
       ELSE \E m \in AfterAbort : AllocArea(m) /\ Raise("MCODELM")
  /\ UNCHANGED <<stubs, code, job, asm, patching, retries, param>>
LimitErr ==
  /\ Out
  /\ IF Need > param \/ mc.szall + param > MaxMCode
       THEN Protect(RX) /\ Raise(IF Need > param THEN "MCODEOV" ELSE "MCODEAL")
       ELSE \E m \in AfterAbort : AllocArea(m) /\ Raise("MCODELM")
  /\ UNCHANGED <<stubs, code, job, asm, patching, retries, param>>

\* lj_mcode_limiterr when mcode_alloc gets no memory
LimitErrNoMemory ==
  /\ Out
  /\ ~(Need > param \/ mc.szall + param > MaxMCode)
  /\ Protect(RX)
  /\ Raise("MCODEAL")
  /\ UNCHANGED <<stubs, code, job, asm, patching, retries, param>>

\* any other lj_trace_err of the assembler: spill slots, exits, registers
AsmError ==
  /\ pc \in {"stubs", "emit"}
  /\ Raise("other")
  /\ UNCHANGED <<mc, mem, stubs, code, job, asm, patching, retries, param>>

\* the head of the trace is emitted; asm_tail_fixup drops n unused bytes of the tail
Finish(n) ==
  /\ pc = "emit" /\ asm.left = 0
  /\ asm' = [asm EXCEPT !.mctop = @ - n]
  /\ pc' = IF job.parent = NoTrace THEN "commit" ELSE "patch"
  /\ UNCHANGED <<mc, mem, stubs, code, job, err, patching, retries, param>>

(***************************************************************************)
(* trace_stop                                                              *)
(***************************************************************************)
\* lj_asm_patchexit: lj_mcode_patch(J, p, 0)
PatchStart ==
  /\ pc = "patch"
  /\ LET a == code[job.parent].area IN
       /\ patching' = a
       /\ IF a = mc.mcarea
            THEN Protect(RW)
            ELSE mem' \in SetProt(mem, a, RW) /\ UNCHANGED mc
  /\ pc' = "patching"
  /\ UNCHANGED <<stubs, code, job, asm, err, retries, param>>

\* the exit branches are patched, then lj_mcode_patch(J, mcarea, 1)
PatchFinish ==
  /\ pc = "patching"
  /\ IF patching = mc.mcarea
       THEN Protect(RX)
       ELSE mem' \in SetProt(mem, patching, RX) /\ UNCHANGED mc
  /\ patching' = NoArea
  /\ pc' = "commit"
  /\ UNCHANGED <<stubs, code, job, asm, err, retries, param>>

\* J->mctop = top, mcode_protect(J, MCPROT_RUN)
CommitTop == mc' = [mc EXCEPT !.mctop = asm.mcp, !.mcprot = RX]

\* lj_mcode_commit, trace_save; then the VM event "stop" is sent
Commit ==
  /\ pc = "commit"
  /\ CommitTop
  /\ IF mc.mcprot = RX THEN UNCHANGED mem ELSE mem' \in SetProt(mem, mc.mcarea, RX)
  /\ code' = [code EXCEPT ![job.trace] = [area |-> mc.mcarea, lo |-> asm.mcp, hi |-> asm.mctop,
                                         groups |-> job.groups]]
  /\ pc' = "event"
  /\ UNCHANGED <<stubs, job, asm, err, patching, retries, param>>

(***************************************************************************)
(* trace_abort, lj_trace_flushall, and the program                         *)
(***************************************************************************)
\* Wrong: an error leaves the area as it is.
AbortNothing == UNCHANGED <<mc, mem>>
\* lj_mcode_abort
McodeAbort == IF mc.mcarea = NoArea THEN UNCHANGED <<mc, mem>> ELSE Protect(RX)

\* trace_abort: LJ_TRERR_MCODELM goes back to LJ_TRACE_ASM, all else sends "abort"
Abort ==
  /\ pc = "error"
  /\ McodeAbort
  /\ IF err = "MCODELM"
       THEN pc' = "reserve" /\ retries' = IF retries < 3 THEN retries + 1 ELSE retries
       ELSE pc' = "event" /\ UNCHANGED retries
  /\ UNCHANGED <<stubs, code, job, asm, err, patching, param>>

\* Wrong: the groups of exit stubs outlive their memory.
FlushKeepsStubs ==
  /\ mem' = [a \in Area |-> Unmapped]
  /\ mc' = [mc EXCEPT !.mcarea = NoArea, !.szall = 0]
  /\ code' = [t \in Trace |-> NoCode]
  /\ UNCHANGED stubs
\* lj_trace_flushall with lj_mcode_free
Flushed ==
  /\ mem' = [a \in Area |-> Unmapped]
  /\ mc' = [mc EXCEPT !.mcarea = NoArea, !.szall = 0]
  /\ code' = [t \in Trace |-> NoCode]
  /\ stubs' = [g \in Group |-> Nowhere]

\* the event's handlers have returned
EventDone ==
  /\ pc = "event"
  /\ IF err = "MCODEAL" THEN Flushed ELSE UNCHANGED <<mc, mem, code, stubs>>
  /\ job' = NoJob /\ asm' = IdleAs /\ err' = "none" /\ retries' = 0
  /\ pc' = "idle"
  /\ UNCHANGED <<patching, param>>

\* jit.flush(), called by the program or by an event handler
FlushAll ==
  /\ pc \in {"idle", "event"}
  /\ Flushed
  /\ UNCHANGED <<job, asm, err, patching, retries, param, pc>>

\* jit.flush(n), or lj_trace_free: the number is free again, the memory is not
Drop(t) ==
  /\ pc \in {"idle", "event"} /\ code[t] # NoCode
  /\ code' = [code EXCEPT ![t] = NoCode]
  /\ UNCHANGED <<mc, mem, stubs, job, asm, err, patching, retries, param, pc>>

\* jit.opt.start("sizemcode=...")
SetParam(sz) ==
  /\ pc \in {"idle", "event"} /\ sz # param
  /\ param' = sz
  /\ UNCHANGED <<mc, mem, stubs, code, job, asm, err, patching, retries, pc>>

Compile ==
  \/ Reserve \/ ReserveFails \/ ExitStubGen \/ TailPrep \/ LimitErr \/ LimitErrNoMemory
  \/ AsmError
  \/ \E n \in 0 .. Pad : Realign(n)
  \/ \E n \in 0 .. TailRoom : Finish(n)
  \/ \E n \in 1 .. MaxIns : n <= asm.left /\ Emit(n)
  \/ PatchStart \/ PatchFinish \/ Commit \/ Abort \/ EventDone

Parents == {NoTrace} \cup {t \in Trace : code[t] # NoCode}
Next ==
  \/ Compile
  \/ \E t \in Trace, p \in Parents, len \in Lengths, g \in 0 .. NGroups : Start(t, p, len, g)
  \/ FlushAll
  \/ \E t \in Trace : Drop(t)
  \/ \E sz \in Sizes : SetParam(sz)

Spec == Init /\ [][Next]_vars

(***************************************************************************)
(* Properties.                                                             *)
(***************************************************************************)
Span == [area : Area \cup {NoArea}, lo : Int, hi : Int]
JitState == [mcarea : Area \cup {NoArea}, mcprot : {"none", RW, RX}, szmcarea : Nat,
             mctop : Nat, mcbot : Nat, szall : Nat]
AreaState == [prot : {"none", RW, RX}, size : Nat, next : Area \cup {NoArea}]
TraceCode == [area : Area \cup {NoArea}, lo : Int, hi : Int, groups : Nat]
Job == [trace : Trace \cup {NoTrace}, parent : Trace \cup {NoTrace}, len : Nat, groups : Nat]
ASMState == [mctop : Int, mcp : Int, mcbot : Int, mclim : Int, left : Int, realign : {"NULL", "set"}]
Errors == {"none", "MCODEAL", "MCODEOV", "MCODELM", "other"}
Phase == {"idle", "reserve", "stubs", "emit", "patch", "patching", "commit", "error", "event"}
TypeOK == /\ mc \in JitState
          /\ mem \in [Area -> AreaState]
          /\ stubs \in [Group -> Span]
          /\ code \in [Trace -> TraceCode]
          /\ job \in Job /\ asm \in ASMState /\ err \in Errors
          /\ patching \in Area \cup {NoArea} /\ retries \in Nat
          /\ param \in Sizes
          /\ pc \in Phase

Apart(x, y) == x.area # y.area \/ x.hi <= y.lo \/ y.hi <= x.lo
Inside(x) == /\ x.area \in Area /\ mem[x.area] # Unmapped
             /\ Link <= x.lo /\ x.lo <= x.hi /\ x.hi <= mem[x.area].size
\* the code that is being written, once the first byte of it has been
IsWriting == (pc = "emit" /\ asm.left < job.len) \/ pc \in {"patch", "patching", "commit"}
Writing == [area |-> mc.mcarea, lo |-> asm.mcp, hi |-> asm.mctop]

\* Exit stubs, the code of traces and the code that is being written (NOPs that align it
\* included) never overlap, and are inside of a mapped area, above its link: stubs grow towards
\* code, the limit is only checked between instructions, and failed traces leave stubs behind.
NoOverlap ==
  /\ \A g \in Group : stubs[g] # Nowhere =>
       /\ Inside(stubs[g])
       /\ \A h \in Group \ {g} : stubs[h] # Nowhere => Apart(stubs[g], stubs[h])
       /\ \A t \in Trace : code[t] # NoCode => Apart(stubs[g], code[t])
       /\ IsWriting => Apart(stubs[g], Writing)
  /\ \A t \in Trace : code[t] # NoCode =>
       /\ Inside(code[t])
       /\ \A u \in Trace \ {t} : code[u] # NoCode => Apart(code[t], code[u])
       /\ IsWriting => Apart(code[t], Writing)
  /\ IsWriting => Inside(Writing)
  /\ pc = "emit" /\ asm.realign = "set" => mc.mcbot <= asm.mctop

\* Whenever the program may run compiled code, all machine code is executable and none of it
\* is writable (lj_mcode.c:171), whatever went wrong in the assembler before.
Executable == pc \in {"idle", "event"} => \A a \in Mapped : mem[a].prot = RX

\* What is written to is writable then: the current area by the assembler, a parent's area
\* by lj_asm_patchexit.
Writable ==
  /\ pc \in {"stubs", "emit", "patch"} => mem[mc.mcarea].prot = RW
  /\ pc = "patching" => mem[patching].prot = RW

\* The cached protection of the current area, J->mcprot, is its protection, so that no change
\* is skipped (mcode_protect) - although lj_mcode_patch also changes areas past the cache.
CacheTrue == mc.mcarea # NoArea => /\ mem[mc.mcarea].prot = mc.mcprot
                                   /\ mem[mc.mcarea].size = mc.szmcarea

\* A trace's exits lead to stubs that exist (exitstub_addr).
ExitsLead == \A t \in Trace : code[t] # NoCode =>
               \A g \in 0 .. code[t].groups - 1 : stubs[g] # Nowhere /\ Inside(stubs[g])

\* what the links lead to from J->mcarea: the least set that is closed under them
LinksLead(S) == mc.mcarea \in S /\ \A b \in S \ {NoArea} : mem[b].next \in S
Found == {a \in Area \cup {NoArea} : \A S \in SUBSET (Area \cup {NoArea}) : LinksLead(S) => a \in S}
Total(m, S) == MapThenSumSet(LAMBDA a : m[a].size, S)
\* J->szallmcarea is the size of all areas, a walk from J->mcarea finds them all and ends, so
\* that lj_mcode_free leaks none; and maxmcode is kept to, but for a single area.
SizesAccounted ==
  /\ Found = Mapped \cup {NoArea}
  /\ mc.szall = Total(mem, Mapped)
  /\ Cardinality(Mapped) > 1 => mc.szall <= MaxMCode

\* A trace that is too long is given up before it has taken more than two new areas
\* (lj_mcode_limiterr estimates what is needed from how far the assembler came).
FewRetries == retries <= 2
=============================================================================
