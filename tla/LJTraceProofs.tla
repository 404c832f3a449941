---------------------------- MODULE LJTraceProofs ----------------------------
(* The trace compiler driver keeps its books right, for any number of traces,   *)
(* loops, returns and prototypes and for every program that is Tame.            *)
EXTENDS LJTrace, TLAPS, NaturalsInduction, WellFoundedInduction

(***************************************************************************)
(* The inductive invariant                                                 *)
(***************************************************************************)

\* What a program may not do, since the code does not survive it (README, section 4): catch an
\* error in the C function of a stitched call that is thrown while its callee is recorded, flush in
\* stitched calls, flush in a hook while a return or a stitched trace is recorded, flush or run
\* compiled code in the handlers of "record" and "texit".
Tame(p) ==
  /\ "throw" \notin p.ops /\ "stitched_calls" \notin p.ops
  /\ "hook" \in p.ops => p.pcs \subseteq Loop /\ "stitch" \notin p.ops
  /\ p.flushin \subseteq {"stop", "abort"} /\ p.codein \subseteq {"stop", "abort"}

\* a trace is being recorded or assembled, and nothing has gone wrong yet
Recording == event \in {"none", "start", "record"} /\ state \in {"record", "end", "asm", "err"}
\* ... and lj_record_setup is over
SetUp == Recording /\ event # "start" /\ cur.no # 0

\* who waits for whom
PhasesSound ==
  /\ at # Null => state = "idle" /\ event = "none"
  /\ event = "texit" => state = "idle" /\ parent # 0
  /\ event = "stop" => state \in {"asm", "aborted"}
  /\ event \in {"abort", "dropped"} => state \in {"err", "aborted"}
  /\ event \in {"start", "record"} => state = "record"
  /\ restart # NoPC => at = Null
  /\ asked => state = "aborted" \/ event \in {"stop", "abort", "dropped"}
  /\ patch # NoPC => \/ event = "none" /\ state \in {"record", "end", "err", "aborted"}
                     \/ event = "record"

\* what is being recorded
RecorderSound ==
  /\ prog \in Programs
  /\ jpc # NoPC => jpc \in prog.pcs
  /\ cur.startpc # NoPC => cur.startpc \in prog.pcs
  /\ cur.nextroot = 0 /\ cur.nextside = 0 /\ cur.jump = Null /\ cur.side = Null
  /\ cur.kind = "LOOP" => cur.startpc \in Loop
  /\ cur.kind = "RET" => cur.startpc \in Ret
  /\ cur.kind \in {"LOOP", "RET", "CALL"} => cur.root = 0
  /\ state \in {"idle", "start"} => cur.no = 0
  /\ state \in {"record", "end", "asm"} /\ event \in {"none", "start", "record"} => cur.no # 0
  /\ state = "err" /\ event = "none" /\ err = "MCODELM" => cur.no # 0
  /\ state = "err" /\ event = "none" /\ cur.no = 0 => parent = 0 /\ exitno = 0
  /\ err = "DOWNREC" /\ ((state = "err" /\ event = "none") \/ event \in {"abort", "dropped"})
     => jpc # NoPC
  /\ cur.no # 0 => trace[cur.no] = Cur
  /\ event \in {"abort", "dropped"} => cur.no \in {0, tno} /\ trace[tno] \in {Cur, Null}
  /\ event = "dropped" => tno = 0
  /\ event = "stop" => cur.no = 0
  \* how it has started
  /\ state = "start" \/ event = "start" =>
       \/ parent = 0 /\ exitno = 0 /\ jpc # NoPC
       \/ parent = 0 /\ exitno # 0 /\ jpc = NoPC
       \/ parent # 0 /\ jpc = NoPC
  /\ event = "start" => cur.kind = "none" /\ cur.link = 0 /\ cur.root = 0 /\ cur.startpc = NoPC
  /\ SetUp \/ (state = "aborted" /\ event = "none") =>
       \/ parent = 0 /\ exitno = 0 /\ cur.kind \in {"LOOP", "RET"}
       \/ parent = 0 /\ exitno # 0 /\ cur.kind = "CALL"
       \/ parent # 0 /\ cur.kind = "JMP"

Named ==
  /\ trace[0] = Null
  /\ \A n \in TraceNo : trace[n] \in Obj => tr[trace[n]].no = n
  /\ \A o \in Obj : tr[o].no # 0 => o \in Saved /\ trace[tr[o].no] = o
  /\ \A o \in Obj : tr[o].kind = "none" => tr[o] = NoTrace
  /\ dead \subseteq Saved

\* saved traces
Shapes ==
  \A o \in Saved :
    /\ tr[o].kind = "JMP" <=> tr[o].root # 0
    /\ tr[o].kind \in {"LOOP", "RET"} => tr[o].startpc \in prog.pcs

\* chains of root traces, and the instructions that lead into them
ChainsSound ==
  /\ \A p \in Proto : \A n \in Chain(p) :
       trace[n] \in Obj /\ tr[trace[n]].kind \in {"LOOP", "RET"} /\ ProtoOf[tr[trace[n]].startpc] = p
  /\ \A pc \in Pc : op[pc] = "JLOOP" \/ pc = patch =>
       jd[pc] \in Chain(ProtoOf[pc]) /\ tr[trace[jd[pc]]].startpc = pc
  /\ patch # NoPC => patch \in Ret

\* what the prototypes keep from being collected
Heads == {trace[pttrace[p]] : p \in {q \in Proto : pttrace[q] # 0}}
Kept == Reach(Heads, MarkLinks)
\* the list of side traces that starts at trace R
SideLinks == [o \in Obj |-> IF tr[o].nextside = 0 THEN {} ELSE {trace[tr[o].nextside]} \cap Obj]
SideList(R) == Reach({R}, SideLinks)
RootOf(o) == IF tr[o].root = 0 THEN o ELSE trace[tr[o].root]

LinkSound(o) ==
  /\ tr[o].jump \in {Null, o} \/ (tr[o].link # 0 /\ tr[o].jump = trace[tr[o].link])
  /\ \A n \in {tr[o].link, tr[o].nextroot} \ {0, tr[o].no} :
       trace[n] \in Obj /\ tr[trace[n]].root = 0
  /\ tr[o].nextside # 0 => /\ trace[tr[o].nextside] \in Obj
                           /\ tr[trace[tr[o].nextside]].root = tr[RootOf(o)].no
  /\ tr[o].side # Null => tr[o].side \in SideList(RootOf(o))
KeptSound == \A o \in Kept : o \notin dead /\ tr[o].no # 0 /\ LinkSound(o)

\* what the recorder, the program and the machine code hold on to
Untouched(n) == trace[n] \in Kept /\ tr[trace[n]].link = 0
HoldsSound ==
  /\ at # Null => at \in Kept
  /\ frame # Null => /\ frame \in Saved \ dead
                     /\ frame \in Kept \/ (tr[frame].no = 0 /\ tr[frame].link = 0)
  /\ (Recording \/ state = "start" \/ event = "texit") /\ parent # 0 =>
       from \in Kept /\ trace[parent] = from
  /\ SetUp /\ cur.kind = "JMP" => cur.root # 0 /\ cur.root = tr[RootOf(from)].no
  /\ /\ state = "start" \/ Recording \/ (state = "aborted" /\ event = "none" /\ cur.kind = "CALL")
     /\ parent = 0 /\ exitno # 0
     => Untouched(exitno)
  /\ SetUp => cur.link \in {0, cur.no} \/ (trace[cur.link] \in Kept /\ tr[trace[cur.link]].root = 0)
  /\ state = "record" => cur.link = 0

\* there are no stitched traces without stitched calls
StitchSound ==
  "stitch" \notin prog.ops =>
    /\ frame = Null /\ ~cur.stitch /\ cur.kind # "CALL" /\ \A o \in Obj : ~tr[o].stitch
    /\ (state = "start" \/ event = "start") /\ jpc = NoPC => parent # 0

\* Where the interpreter is.  Between the moment the recorder has been shown an instruction that
\* leads to machine code and the moment it is executed, recording has come to its end.
Shown == ip \in Pc \cup {"ret"}
IpSound ==
  /\ ip # "lua" => at = Null /\ restart = NoPC
  /\ Shown => \/ event = "record" /\ (ip \in Pc => op[ip] = "JLOOP")
              \/ event = "none" /\ state \in {"idle", "end", "asm", "err"}
              \/ event \in {"stop", "abort", "dropped"}
  /\ Shown /\ ((state = "err" /\ event = "none") \/ event \in {"abort", "dropped"}) => err # "DOWNREC"
  /\ ip = "ret" => frame # Null /\ (state = "end" => cur.link = 0)
  /\ ip = "c" => frame # Null /\ state = "idle" /\ event = "none"

IInv == /\ TypeOK /\ PhasesSound /\ RecorderSound /\ Named /\ Shapes /\ ChainsSound /\ KeptSound
        /\ HoldsSound /\ StitchSound /\ FreeNumbersFound /\ CurOnce

-----------------------------------------------------------------------------
(* Reach *)

LEMMA ReachIs ==
  ASSUME NEW U, NEW N \in [U -> SUBSET U], NEW X \in SUBSET U
  PROVE  /\ X \subseteq Reach(X, N) /\ Reach(X, N) \subseteq U
         /\ \A x \in Reach(X, N) : N[x] \subseteq Reach(X, N)
<1>1. X \subseteq Reach(X, N) /\ Reach(X, N) \subseteq U
  BY DEF Reach
<1>2. ASSUME NEW x \in Reach(X, N), NEW y \in N[x] PROVE y \in Reach(X, N)
  <2>1. y \in U
    BY <1>1, <1>2
  <2>2. ASSUME NEW S \in SUBSET U, X \subseteq S, \A z \in S : N[z] \subseteq S PROVE y \in S
    <3>1. x \in S
      BY <1>2, <2>2 DEF Reach
    <3>. QED BY <1>2, <2>2, <3>1
  <2>. QED BY <2>1, <2>2 DEF Reach
<1>. QED BY <1>1, <1>2

LEMMA ReachLeast ==
  ASSUME NEW U, NEW N \in [U -> SUBSET U], NEW X, NEW S \in SUBSET U,
         X \subseteq S, \A x \in S : N[x] \subseteq S
  PROVE  Reach(X, N) \subseteq S
BY DEF Reach

\* More links lead further.
LEMMA ReachMore ==
  ASSUME NEW U, NEW N \in [U -> SUBSET U], NEW M \in [U -> SUBSET U],
         NEW X \in SUBSET U, NEW Y \in SUBSET U,
         X \subseteq Reach(Y, M), \A x \in Reach(Y, M) : N[x] \subseteq Reach(Y, M)
  PROVE  Reach(X, N) \subseteq Reach(Y, M)
BY ReachIs, ReachLeast

\* Only the links of what is reached matter.
LEMMA ReachSame ==
  ASSUME NEW U, NEW N \in [U -> SUBSET U], NEW M \in [U -> SUBSET U], NEW X \in SUBSET U,
         NEW W \in SUBSET U, X \subseteq W, \A x \in W : N[x] \subseteq W /\ M[x] = N[x]
  PROVE  Reach(X, M) = Reach(X, N)
<1>1. Reach(X, N) \subseteq W /\ Reach(X, M) \subseteq W
  BY ReachLeast
<1>2. Reach(X, N) \subseteq Reach(X, M)
  BY <1>1, ReachIs, ReachLeast
<1>3. Reach(X, M) \subseteq Reach(X, N)
  BY <1>1, ReachIs, ReachLeast
<1>. QED BY <1>2, <1>3

-----------------------------------------------------------------------------
(* Consequences of the invariant *)

\* the links between traces, given by their types alone
LEMMA LinkTypes ==
  ASSUME TypeOK
  PROVE  /\ MarkLinks \in [Obj -> SUBSET Obj] /\ SideLinks \in [Obj -> SUBSET Obj]
         /\ Nextroots \in [TraceNo \ {0} -> SUBSET (TraceNo \ {0})]
<1>1. \A n \in TraceNo : Traceref(n) \in TraceType
  <2>1. NoTrace \in TraceType
    BY Sorts DEF NoTrace, TraceType, TraceNo
  <2>2. ASSUME NEW n \in TraceNo PROVE Traceref(n) \in TraceType
    BY <2>1, Sorts DEF Traceref, TypeOK
  <2>. QED BY <2>2
<1>2. \A n \in TraceNo : {Traceref(n).nextroot} \ {0} \in SUBSET (TraceNo \ {0})
  BY <1>1 DEF TraceType
<1>. QED BY <1>2 DEF MarkLinks, SideLinks, Nextroots

\* what is left of the links that Traceref gives
LEMMA NextrootsAre ==
  ASSUME TypeOK, cur.nextroot = 0
  PROVE  \A n \in TraceNo \ {0} :
           Nextroots[n] = IF trace[n] \in Obj THEN {tr[trace[n]].nextroot} \ {0} ELSE {}
<1>. SUFFICES ASSUME NEW n \in TraceNo \ {0}
              PROVE  Nextroots[n] = IF trace[n] \in Obj THEN {tr[trace[n]].nextroot} \ {0} ELSE {}
  OBVIOUS
<1>1. Nextroots[n] = {Traceref(n).nextroot} \ {0}
  BY DEF Nextroots
<1>2. trace[n] \in Obj \cup {Null, Cur}
  BY DEF TypeOK
<1>3. CASE trace[n] = Cur
  BY <1>1, <1>3, Sorts DEF Traceref
<1>4. CASE trace[n] = Null
  BY <1>1, <1>4, Sorts DEF Traceref, NoTrace
<1>5. CASE trace[n] \in Obj
  <2>1. Traceref(n) = tr[trace[n]]
    BY <1>5, Sorts DEF Traceref
  <2>. QED BY <1>1, <1>5, <2>1
<1>. QED BY <1>2, <1>3, <1>4, <1>5

LEMMA TracerefIs ==
  ASSUME TypeOK, NEW n \in TraceNo, trace[n] \in Obj
  PROVE  Traceref(n) = tr[trace[n]]
BY Sorts DEF Traceref, TypeOK

LEMMA ChainIs ==
  ASSUME TypeOK, NEW p \in Proto
  PROVE  /\ Chain(p) \subseteq TraceNo \ {0}
         /\ pttrace[p] # 0 => pttrace[p] \in Chain(p)
         /\ \A n \in Chain(p) : Nextroots[n] \subseteq Chain(p)
<1>. DEFINE X == {pttrace[p]} \ {0}
            U == TraceNo \ {0}
<1>1. X \in SUBSET U /\ Nextroots \in [U -> SUBSET U] /\ Chain(p) = Reach(X, Nextroots)
  BY LinkTypes DEF TypeOK, Chain
<1>2. pttrace[p] # 0 => pttrace[p] \in X
  OBVIOUS
<1>. HIDE DEF X, U
<1>3. X \subseteq Chain(p) /\ Chain(p) \subseteq U /\ \A n \in Chain(p) : Nextroots[n] \subseteq Chain(p)
  BY <1>1, ReachIs
<1>. QED BY <1>2, <1>3 DEF U

LEMMA KeptIs ==
  ASSUME TypeOK, Heads \subseteq Obj
  PROVE  /\ Kept \subseteq Obj /\ Heads \subseteq Kept
         /\ \A o \in Kept : MarkLinks[o] \subseteq Kept
BY LinkTypes, ReachIs DEF Kept

LEMMA HeadsObj ==
  ASSUME TypeOK, ChainsSound
  PROVE  Heads \subseteq Obj
BY ChainIs DEF Heads, ChainsSound

\* What a kept trace is linked to is kept.
LEMMA LinksKept ==
  ASSUME TypeOK, ChainsSound, NEW o \in Kept, tr[o].no # 0,
         NEW n \in {tr[o].link, tr[o].nextroot, tr[o].nextside} \ {0}, trace[n] \in Obj
  PROVE  trace[n] \in Kept
<1>1. o \in Obj
  BY HeadsObj, KeptIs
<1>2. trace[n] \in MarkLinks[o]
  BY <1>1 DEF MarkLinks, Marks
<1>. QED BY <1>2, HeadsObj, KeptIs

\* Root traces that bytecode leads to are kept.
LEMMA ChainKept ==
  ASSUME TypeOK, ChainsSound, Named, cur.nextroot = 0, NEW p \in Proto
  PROVE  \A n \in Chain(p) : trace[n] \in Kept
<1>. DEFINE S == {n \in Chain(p) : trace[n] \in Kept}
<1>1. {pttrace[p]} \ {0} \subseteq S
  <2>. SUFFICES ASSUME pttrace[p] # 0 PROVE pttrace[p] \in S
    OBVIOUS
  <2>1. trace[pttrace[p]] \in Heads
    BY DEF Heads
  <2>. QED BY <2>1, ChainIs, HeadsObj, KeptIs
<1>2. ASSUME NEW n \in S PROVE Nextroots[n] \subseteq S
  <2>1. n \in Chain(p) /\ trace[n] \in Obj /\ n \in TraceNo \ {0} /\ tr[trace[n]].no = n
    BY ChainIs DEF ChainsSound, Named
  <2>2. Nextroots[n] = {tr[trace[n]].nextroot} \ {0} /\ Nextroots[n] \subseteq Chain(p)
    BY <2>1, NextrootsAre, ChainIs
  <2>3. ASSUME NEW m \in Nextroots[n] PROVE trace[m] \in Kept
    <3>1. m \in Chain(p) /\ trace[m] \in Obj /\ m = tr[trace[n]].nextroot /\ m # 0
      BY <2>2, <2>3 DEF ChainsSound
    <3>. QED BY <2>1, <3>1, LinksKept
  <2>. QED BY <2>2, <2>3
<1>3. S \in SUBSET (TraceNo \ {0})
  BY ChainIs
<1>4. Chain(p) \subseteq S
  <2>. HIDE DEF S
  <2>1. Nextroots \in [TraceNo \ {0} -> SUBSET (TraceNo \ {0})]
    BY LinkTypes
  <2>2. Reach({pttrace[p]} \ {0}, Nextroots) \subseteq S
    BY <1>1, <1>2, <1>3, <2>1, ReachLeast
  <2>. QED BY <2>2 DEF Chain
<1>. QED BY <1>4

\* A kept side trace has a kept root, which is a root trace.
LEMMA Rooted ==
  ASSUME TypeOK, ChainsSound, Named, Shapes, KeptSound, NEW o \in Kept
  PROVE  /\ RootOf(o) \in Kept /\ tr[RootOf(o)].root = 0 /\ o \in Obj /\ tr[o].no # 0
<1>. DEFINE Z == {x \in Kept : RootOf(x) \in Kept /\ tr[RootOf(x)].root = 0}
<1>0. Kept \subseteq Obj /\ Heads \subseteq Kept /\ \A x \in Kept : tr[x].no # 0 /\ LinkSound(x)
  BY HeadsObj, KeptIs DEF KeptSound
<1>1. Heads \subseteq Z
  <2>. SUFFICES ASSUME NEW p \in Proto, pttrace[p] # 0 PROVE trace[pttrace[p]] \in Z
    BY DEF Heads
  <2>1. trace[pttrace[p]] \in Heads
    BY DEF Heads
  <2>2. trace[pttrace[p]] \in Obj /\ tr[trace[pttrace[p]]].kind \in {"LOOP", "RET"}
    BY ChainIs DEF ChainsSound
  <2>3. tr[trace[pttrace[p]]].root = 0
    BY <2>2 DEF Shapes, Saved
  <2>. QED BY <1>0, <2>1, <2>3 DEF RootOf
<1>2. ASSUME NEW x \in Z, NEW y \in MarkLinks[x] PROVE y \in Z
  <2>1. x \in Kept /\ x \in Obj /\ tr[x].no # 0 /\ LinkSound(x) /\ y \in Kept /\ y \in Obj
    BY <1>0, HeadsObj, KeptIs
  <2>2. PICK n \in {tr[x].link, tr[x].nextroot, tr[x].nextside} \ {0} : y = trace[n]
    BY <2>1 DEF MarkLinks, Marks
  <2>3. CASE tr[y].root = 0
    BY <2>1, <2>3 DEF RootOf
  <2>4. CASE n = tr[x].no
    <3>1. y = x
      BY <2>1, <2>2, <2>4 DEF Named
    <3>. QED BY <3>1
  <2>5. CASE tr[y].root # 0 /\ n # tr[x].no
    <3>1. n = tr[x].nextside
      BY <2>1, <2>2, <2>5 DEF LinkSound
    <3>2. tr[y].root = tr[RootOf(x)].no
      BY <2>1, <2>2, <3>1 DEF LinkSound
    <3>3. RootOf(x) \in Obj /\ tr[RootOf(x)].no # 0
      BY <1>0
    <3>4. trace[tr[RootOf(x)].no] = RootOf(x)
      BY <3>3 DEF Named
    <3>5. RootOf(y) = RootOf(x)
      BY <2>5, <3>2, <3>4 DEF RootOf
    <3>. QED BY <2>1, <3>5
  <2>. QED BY <2>3, <2>4, <2>5
<1>3. Z \in SUBSET Obj
  BY <1>0
<1>4. Kept \subseteq Z
  <2>. HIDE DEF Z
  <2>1. \A x \in Z : MarkLinks[x] \subseteq Z
    BY <1>2
  <2>. QED BY <1>1, <1>3, <2>1, LinkTypes, ReachLeast DEF Kept
<1>. QED BY <1>0, <1>4

\* The side traces of a kept trace are kept.
LEMMA SidesKept ==
  ASSUME TypeOK, ChainsSound, Named, KeptSound, NEW R \in Kept
  PROVE  SideList(R) \subseteq Kept /\ \A x \in Kept : SideLinks[x] \subseteq Kept
<1>1. \A x \in Kept : x \in Obj /\ tr[x].no # 0
  BY HeadsObj, KeptIs DEF KeptSound
<1>2. ASSUME NEW x \in Kept PROVE SideLinks[x] \subseteq Kept
  <2>. SUFFICES ASSUME NEW y \in SideLinks[x] PROVE y \in Kept
    OBVIOUS
  <2>1. tr[x].nextside # 0 /\ y = trace[tr[x].nextside] /\ y \in Obj
    BY <1>1 DEF SideLinks
  <2>. QED BY <1>1, <2>1, LinksKept
<1>3. Kept \in SUBSET Obj /\ {R} \subseteq Kept
  BY <1>1
<1>. QED BY <1>2, <1>3, LinkTypes, ReachLeast DEF SideList

\* Machine code goes on to kept traces.
LEMMA GoesOnKept ==
  ASSUME TypeOK, ChainsSound, Named, Shapes, KeptSound, NEW o \in Kept
  PROVE  /\ GoesOn(o) \subseteq Kept
         /\ {tr[o].jump, tr[o].side} \subseteq Kept \cup {Null}
         /\ tr[o].link \notin {0, tr[o].no} => trace[tr[o].link] \in Kept
<1>1. o \in Obj /\ tr[o].no # 0 /\ LinkSound(o) /\ RootOf(o) \in Kept
  BY Rooted DEF KeptSound
<1>2. tr[o].link # 0 => trace[tr[o].link] \in Kept
  <2>1. CASE tr[o].link = tr[o].no
    BY <1>1, <2>1 DEF Named
  <2>2. CASE tr[o].link # tr[o].no /\ tr[o].link # 0
    BY <1>1, <2>2, LinksKept DEF LinkSound
  <2>. QED BY <2>1, <2>2
<1>3. tr[o].jump \in Kept \cup {Null}
  BY <1>1, <1>2 DEF LinkSound
<1>4. tr[o].side \in Kept \cup {Null}
  BY <1>1, SidesKept DEF LinkSound
<1>. QED BY <1>2, <1>3, <1>4 DEF GoesOn

-----------------------------------------------------------------------------
(* Steps that change no trace *)

Heap == <<prog, trace, freetrace, cur, op, jd, pttrace, tr, patch, dead>>

LEMMA QuietKeeps ==
  ASSUME IInv, UNCHANGED Heap
  PROVE  /\ Named' /\ Shapes' /\ ChainsSound' /\ KeptSound' /\ FreeNumbersFound' /\ CurOnce'
         /\ Kept' = Kept /\ \A o : RootOf(o)' = RootOf(o)
<1>. USE DEF Heap
<1>1. Named' /\ Shapes' /\ FreeNumbersFound' /\ CurOnce' /\ Saved' = Saved
  BY DEF IInv, Named, Shapes, FreeNumbersFound, CurOnce, Saved
<1>2. Nextroots' = Nextroots
  BY DEF Nextroots, Traceref
<1>3. \A p : Chain(p)' = Chain(p)
  BY <1>2 DEF Chain
<1>4. ChainsSound'
  BY <1>3 DEF IInv, ChainsSound
<1>5. Kept' = Kept
  BY DEF Kept, Heads, MarkLinks, Marks
<1>6. \A o : SideList(o)' = SideList(o) /\ RootOf(o)' = RootOf(o)
  BY DEF SideList, SideLinks, RootOf
<1>7. \A o : LinkSound(o)' <=> LinkSound(o)
  BY <1>6 DEF LinkSound
<1>8. KeptSound'
  BY <1>5, <1>7 DEF IInv, KeptSound
<1>. QED BY <1>1, <1>4, <1>5, <1>6, <1>8

\* Whoever is known by a number that bytecode holds is kept.
LEMMA JloopKept ==
  ASSUME IInv, NEW pc \in Pc, op[pc] = "JLOOP" \/ pc = patch
  PROVE  /\ jd[pc] \in Chain(ProtoOf[pc]) /\ jd[pc] \in TraceNo \ {0} /\ trace[jd[pc]] \in Kept
         /\ trace[jd[pc]] \in Obj /\ tr[trace[jd[pc]]].root = 0 /\ tr[trace[jd[pc]]].startpc = pc
         /\ tr[trace[jd[pc]]].no = jd[pc] /\ pc \in prog.pcs
<1>1. ProtoOf[pc] \in Proto
  BY Sorts
<1>2. jd[pc] \in Chain(ProtoOf[pc]) /\ tr[trace[jd[pc]]].startpc = pc
  BY DEF IInv, ChainsSound
<1>3. jd[pc] \in TraceNo \ {0} /\ trace[jd[pc]] \in Kept
  BY <1>1, <1>2, ChainIs, ChainKept DEF IInv, RecorderSound
<1>4. trace[jd[pc]] \in Obj /\ tr[trace[jd[pc]]].kind \in {"LOOP", "RET"}
  BY <1>1, <1>2 DEF IInv, ChainsSound
<1>5. trace[jd[pc]] \in Saved
  BY <1>4 DEF Saved
<1>6. tr[trace[jd[pc]]].root = 0 /\ tr[trace[jd[pc]]].startpc \in prog.pcs
  BY <1>4, <1>5 DEF IInv, Shapes
<1>7. tr[trace[jd[pc]]].no = jd[pc]
  BY <1>3, <1>4 DEF IInv, Named
<1>. QED BY <1>2, <1>3, <1>4, <1>6, <1>7

LEMMA KeptObj ==
  ASSUME IInv, NEW o \in Kept
  PROVE  /\ o \in Obj /\ o # Null /\ o \in Saved /\ o \notin dead /\ tr[o].no \in TraceNo \ {0}
         /\ trace[tr[o].no] = o /\ tr[o] \in TraceType
<1>1. o \in Obj /\ tr[o].no # 0 /\ o \notin dead
  BY Rooted DEF IInv, KeptSound
<1>2. tr[o] \in TraceType /\ tr[o].no \in TraceNo
  BY <1>1 DEF IInv, TypeOK, TraceType
<1>. QED BY <1>1, <1>2, Sorts DEF IInv, Named

\* The program that runs is one of those that were assumed of.
LEMMA Prog ==
  ASSUME IInv
  PROVE  /\ prog \in Programs /\ prog.pcs \subseteq Pc /\ prog.objs \subseteq Obj
         /\ prog.maxtrace \in 1 .. MaxTrace /\ prog.penalties \in 0 .. MaxPenalty
         /\ prog.flushin \subseteq Events /\ prog.codein \subseteq Events
BY Sorts DEF IInv, RecorderSound

LEMMA HotStep ==
  ASSUME IInv, NEW pc \in Pc, lj_trace_hot(pc), UNCHANGED prog
  PROVE  IInv'
<1>. USE DEF lj_trace_hot, Start, Interp, Quiet
<1>0. 0 \in TraceNo /\ NoPC \notin Pc /\ pc # NoPC
  BY Sorts DEF TraceNo
<1>1. TypeOK'
  BY <1>0 DEF IInv, TypeOK, bcvars, runvars, States
<1>2. UNCHANGED Heap
  BY DEF Heap, bcvars
<1>3. PhasesSound'
  BY DEF IInv, PhasesSound, bcvars, runvars
<1>4. RecorderSound'
  BY <1>0 DEF IInv, RecorderSound, SetUp, Recording, bcvars, runvars
<1>5. HoldsSound'
  BY <1>2, QuietKeeps DEF IInv, HoldsSound, SetUp, Recording, bcvars, runvars, Heap, Saved, Untouched
<1>6. StitchSound'
  BY <1>0 DEF IInv, StitchSound, bcvars, runvars
<1>. QED BY <1>1, <1>2, <1>3, <1>4, <1>5, <1>6, QuietKeeps DEF IInv

LEMMA AsmErrorStep ==
  ASSUME IInv, asm_error, UNCHANGED prog
  PROVE  IInv'
<1>. USE DEF asm_error, Fail
<1>1. TypeOK'
  BY DEF IInv, TypeOK, bcvars, runvars, States
<1>2. UNCHANGED Heap
  BY DEF Heap, bcvars
<1>3. PhasesSound'
  BY DEF IInv, PhasesSound, bcvars, runvars
<1>4. RecorderSound'
  BY DEF IInv, RecorderSound, SetUp, Recording, bcvars, runvars
<1>5. HoldsSound'
  BY <1>2, QuietKeeps DEF IInv, HoldsSound, SetUp, Recording, bcvars, runvars, Heap, Saved, Untouched
<1>6. StitchSound'
  BY DEF IInv, StitchSound, bcvars, runvars
<1>. QED BY <1>1, <1>2, <1>3, <1>4, <1>5, <1>6, QuietKeeps DEF IInv

LEMMA StopEndStep ==
  ASSUME IInv, trace_stop_end, UNCHANGED prog
  PROVE  IInv'
<1>. USE DEF trace_stop_end
<1>1. TypeOK'
  BY DEF IInv, TypeOK, bcvars, runvars, States
<1>2. UNCHANGED Heap
  BY DEF Heap, bcvars
<1>3. cur.no = 0
  BY DEF IInv, RecorderSound
<1>4. PhasesSound'
  BY DEF IInv, PhasesSound, bcvars, runvars
<1>5. RecorderSound'
  BY <1>3 DEF IInv, RecorderSound, SetUp, Recording, bcvars, runvars
<1>6. HoldsSound'
  BY <1>2, QuietKeeps DEF IInv, HoldsSound, SetUp, Recording, bcvars, runvars, Heap, Saved, Untouched
<1>7. StitchSound'
  BY DEF IInv, StitchSound, bcvars, runvars
<1>. QED BY <1>1, <1>2, <1>4, <1>5, <1>6, <1>7, QuietKeeps DEF IInv

LEMMA AskStep ==
  ASSUME IInv, lj_trace_abort, UNCHANGED prog
  PROVE  IInv'
<1>. USE DEF lj_trace_abort, AskAbort, Aborted, Interp, Quiet
<1>1. TypeOK'
  BY DEF IInv, TypeOK, bcvars, runvars, States
<1>2. UNCHANGED Heap
  BY DEF Heap, bcvars
<1>3. PhasesSound'
  BY DEF IInv, PhasesSound, bcvars, runvars
<1>4. RecorderSound'
  BY DEF IInv, RecorderSound, SetUp, Recording, bcvars, runvars
<1>5. HoldsSound'
  BY <1>2, QuietKeeps DEF IInv, HoldsSound, SetUp, Recording, bcvars, runvars, Heap, Saved, Untouched
<1>6. StitchSound'
  BY DEF IInv, StitchSound, bcvars, runvars
<1>. QED BY <1>1, <1>2, <1>3, <1>4, <1>5, <1>6, QuietKeeps DEF IInv

\* An instruction that leads to machine code, or to the C function of a stitched call, is executed
\* when nothing is recorded only.
LEMMA DispatchedIdle ==
  ASSUME IpSound, Quiet, NEW i \in Pc \cup {"ret"}, Dispatched(i)
  PROVE  state = "idle"
BY DEF Quiet, Inside, Dispatched, IpSound, Shown

LEMMA JloopStep ==
  ASSUME IInv, IpSound, NEW pc \in Pc, BC_JLOOP(pc), UNCHANGED prog
  PROVE  IInv'
<1>i. state = "idle" /\ event = "none"
  BY DispatchedIdle DEF BC_JLOOP, Quiet
<1>. USE <1>i DEF BC_JLOOP, Quiet, codevars
<1>0. at' \in Kept /\ at' \in Obj
  BY JloopKept
<1>1. TypeOK'
  BY <1>0 DEF IInv, TypeOK, States, Places
<1>2. UNCHANGED Heap
  BY DEF Heap
<1>3. PhasesSound'
  BY DEF IInv, PhasesSound
<1>4. RecorderSound'
  BY DEF IInv, RecorderSound, SetUp, Recording
<1>5. HoldsSound'
  BY <1>0, <1>2, QuietKeeps DEF IInv, HoldsSound, SetUp, Recording, Heap, Saved, Untouched
<1>6. StitchSound'
  BY DEF IInv, StitchSound
<1>. QED BY <1>1, <1>2, <1>3, <1>4, <1>5, <1>6, QuietKeeps DEF IInv

LEMMA GoesOnStep ==
  ASSUME IInv, code_goes_on, UNCHANGED prog
  PROVE  IInv'
<1>. USE DEF code_goes_on, codevars
<1>0. at' \in Kept \cup {Null}
  BY GoesOnKept DEF IInv, HoldsSound
<1>1. TypeOK'
  BY <1>0, KeptObj DEF IInv, TypeOK, States
<1>2. UNCHANGED Heap
  BY DEF Heap
<1>3. PhasesSound'
  BY DEF IInv, PhasesSound
<1>4. RecorderSound'
  BY DEF IInv, RecorderSound, SetUp, Recording
<1>5. HoldsSound'
  BY <1>0, <1>2, QuietKeeps DEF IInv, HoldsSound, SetUp, Recording, Heap, Saved, Untouched
<1>6. StitchSound'
  BY DEF IInv, StitchSound
<1>. QED BY <1>1, <1>2, <1>3, <1>4, <1>5, <1>6, QuietKeeps DEF IInv

LEMMA StitchedCallStep ==
  ASSUME IInv, stitched_call, UNCHANGED prog
  PROVE  IInv'
<1>. USE DEF stitched_call, codevars
<1>0. at \in Kept /\ at \in Obj /\ at \in Saved \ dead
  BY KeptObj DEF IInv, HoldsSound
<1>1. TypeOK'
  BY <1>0 DEF IInv, TypeOK, States, Places
<1>2. UNCHANGED Heap
  BY DEF Heap
<1>3. PhasesSound'
  BY DEF IInv, PhasesSound
<1>4. RecorderSound'
  BY DEF IInv, RecorderSound, SetUp, Recording
<1>5. HoldsSound'
  BY <1>0, <1>2, QuietKeeps DEF IInv, HoldsSound, SetUp, Recording, Heap, Saved, Untouched
<1>6. StitchSound'
  BY <1>0 DEF IInv, StitchSound
<1>. QED BY <1>1, <1>2, <1>3, <1>4, <1>5, <1>6, QuietKeeps DEF IInv

\* Steps of the interpreter that only go on to the next instruction.
LEMMA GoOnStep ==
  ASSUME IInv, vm_record \/ lua_call \/ vm_leave, UNCHANGED prog
  PROVE  IInv'
<1>0. /\ ip' \in {"lua", "c"}
      /\ UNCHANGED <<codevars, op, state, parent, exitno, jpc, event, at, frame, restart, from, asked>>
  BY DEF vm_record, lua_call, vm_leave
<1>. USE <1>0 DEF codevars
<1>1. TypeOK'
  BY DEF IInv, TypeOK, Places
<1>2. UNCHANGED Heap
  BY DEF Heap
<1>3. PhasesSound' /\ RecorderSound' /\ StitchSound'
  BY DEF IInv, PhasesSound, RecorderSound, SetUp, Recording, StitchSound
<1>4. HoldsSound'
  BY <1>2, QuietKeeps DEF IInv, HoldsSound, SetUp, Recording, Heap, Saved, Untouched
<1>. QED BY <1>1, <1>2, <1>3, <1>4, QuietKeeps DEF IInv

LEMMA ThrowStep ==
  ASSUME IInv, lj_err_throw, UNCHANGED prog
  PROVE  IInv'
<1>0. /\ at = Null /\ event = "none" /\ restart = NoPC /\ ~Inside /\ frame # Null
      /\ state' = (IF state = "idle" THEN "idle" ELSE "aborted") /\ asked' = (state # "idle")
      /\ ip' \in {"lua", "c"} /\ frame' \in {frame, Null}
      /\ UNCHANGED <<codevars, op, parent, exitno, jpc, event, at, restart, from>>
  BY DEF lj_err_throw, AskAbort, Aborted, Quiet
<1>i. state \in {"idle", "record", "aborted"}
  BY <1>0 DEF IInv, TypeOK, States, Inside
<1>. USE <1>0, <1>i DEF codevars
<1>1. TypeOK'
  BY DEF IInv, TypeOK, States, Places
<1>2. UNCHANGED Heap
  BY DEF Heap
<1>3. PhasesSound'
  BY DEF IInv, PhasesSound
<1>4. RecorderSound'
  BY DEF IInv, RecorderSound, SetUp, Recording
<1>5. HoldsSound'
  BY <1>2, QuietKeeps DEF IInv, HoldsSound, SetUp, Recording, Heap, Saved, Untouched
<1>6. StitchSound'
  BY DEF IInv, StitchSound
<1>. QED BY <1>1, <1>2, <1>3, <1>4, <1>5, <1>6, QuietKeeps DEF IInv

LEMMA ContStitchStep ==
  ASSUME IInv, IpSound, cont_stitch, UNCHANGED prog
  PROVE  IInv'
<1>i. state = "idle" /\ event = "none"
  BY DEF cont_stitch, IpSound
<1>. USE <1>i DEF cont_stitch, Start, Quiet, codevars
<1>0. /\ state = "idle" /\ frame \in Obj /\ tr[frame] \in TraceType
      /\ frame \in Kept \/ (tr[frame].no = 0 /\ tr[frame].link = 0)
      /\ tr[frame].no \in TraceNo /\ tr[frame].link \in TraceNo /\ 0 \in TraceNo
  <2>1. frame \in Obj /\ (frame \in Kept \/ (tr[frame].no = 0 /\ tr[frame].link = 0))
    BY DEF IInv, HoldsSound, Saved
  <2>2. tr[frame] \in TraceType /\ 0 \in TraceNo
    BY <2>1, Sorts DEF IInv, TypeOK, TraceNo
  <2>. QED BY <2>1, <2>2 DEF TraceType
<1>2. UNCHANGED Heap
  BY DEF Heap
<1>3. /\ at' \in Kept \cup {Null} /\ frame' = Null /\ UNCHANGED <<event, from, restart, bcskip>>
      /\ \/ UNCHANGED <<state, parent, exitno, jpc, asked>>
         \/ /\ state' = "start" /\ jpc' = NoPC /\ asked' = FALSE /\ parent' = 0
            /\ exitno' = tr[frame].no /\ tr[frame].no # 0 /\ tr[frame].link = 0 /\ frame \in Kept
            /\ at' = at
  <2>1. CASE tr[frame].link \notin {0, tr[frame].no} /\ at' = trace[tr[frame].link]
    <3>1. frame \in Kept
      BY <1>0, <2>1
    <3>2. at' \in Kept
      BY <2>1, <3>1, GoesOnKept DEF IInv
    <3>. QED BY <2>1, <3>2
  <2>2. CASE tr[frame].link = 0 /\ tr[frame].no # 0
    BY <1>0, <2>2
  <2>3. CASE tr[frame].link = tr[frame].no
    BY <1>0, <2>3
  <2>. QED BY <1>0, <2>1, <2>2, <2>3
<1>1. TypeOK'
  BY <1>0, <1>3, KeptObj DEF IInv, TypeOK, States, Places
<1>4. PhasesSound'
  BY <1>0, <1>3 DEF IInv, PhasesSound
<1>5. RecorderSound'
  BY <1>0, <1>2, <1>3 DEF IInv, RecorderSound, SetUp, Recording, Heap
<1>6. HoldsSound'
  <2>1. ASSUME frame \in Kept, tr[frame].link = 0 PROVE Untouched(tr[frame].no)
    BY <2>1, KeptObj DEF Untouched
  <2>. QED BY <1>0, <1>2, <1>3, <2>1, QuietKeeps
           DEF IInv, HoldsSound, SetUp, Recording, Heap, Saved, Untouched
<1>7. StitchSound'
  BY <1>3 DEF IInv, StitchSound
<1>. QED BY <1>1, <1>2, <1>4, <1>5, <1>6, <1>7, QuietKeeps DEF IInv

LEMMA ExitStep ==
  ASSUME IInv, NEW pc \in Ret \cup {NoPC}, lj_trace_exit(pc), UNCHANGED prog
  PROVE  IInv'
<1>. USE DEF lj_trace_exit, codevars
<1>0. /\ at \in Kept /\ at \in Obj /\ tr[at].no \in TraceNo \ {0} /\ trace[tr[at].no] = at
      /\ 1 \in TraceNo /\ pc \in Pc \cup {NoPC}
  BY KeptObj, Sorts DEF IInv, HoldsSound, TraceNo, Pc
<1>1. TypeOK'
  BY <1>0 DEF IInv, TypeOK, States
<1>2. UNCHANGED Heap
  BY DEF Heap
<1>3. PhasesSound'
  BY <1>0 DEF IInv, PhasesSound
<1>4. RecorderSound'
  BY DEF IInv, RecorderSound, PhasesSound, SetUp, Recording
<1>5. HoldsSound'
  BY <1>0, <1>2, QuietKeeps DEF IInv, PhasesSound, HoldsSound, SetUp, Recording, Heap, Saved, Untouched
<1>6. StitchSound'
  BY DEF IInv, StitchSound, PhasesSound
<1>. QED BY <1>1, <1>2, <1>3, <1>4, <1>5, <1>6, QuietKeeps DEF IInv

LEMMA HotsideStep ==
  ASSUME IInv, trace_hotside, UNCHANGED prog
  PROVE  IInv'
<1>0. /\ event = "texit" /\ event' = "none"
      /\ UNCHANGED <<codevars, op, parent, exitno, runvars, from>>
      /\ UNCHANGED <<state, jpc, asked>> \/ (state' = "start" /\ jpc' = NoPC /\ asked' = FALSE)
  BY DEF trace_hotside, Start
<1>. USE <1>0 DEF codevars, runvars
<1>1. TypeOK'
  <2>1. CASE UNCHANGED <<state, jpc, asked>>
    BY <2>1 DEF IInv, TypeOK, States
  <2>2. CASE state' = "start" /\ jpc' = NoPC /\ asked' = FALSE
    BY <2>2 DEF IInv, TypeOK, States
  <2>. QED BY <2>1, <2>2
<1>2. UNCHANGED Heap
  BY DEF Heap
<1>3. PhasesSound'
  BY DEF IInv, PhasesSound
<1>4. RecorderSound'
  BY DEF IInv, RecorderSound, PhasesSound, SetUp, Recording
<1>5. HoldsSound'
  BY <1>2, QuietKeeps DEF IInv, PhasesSound, HoldsSound, SetUp, Recording, Heap, Saved, Untouched
<1>6. StitchSound'
  BY DEF IInv, StitchSound, PhasesSound
<1>. QED BY <1>1, <1>2, <1>3, <1>4, <1>5, <1>6, QuietKeeps DEF IInv

LEMMA HandlerExitStep ==
  ASSUME IInv, NEW n \in TraceNo \ {0}, handler_exit(n), UNCHANGED prog, Tame(prog)
  PROVE  IInv'
<1>. USE DEF handler_exit, codevars, runvars
<1>0. event \in {"stop", "abort"} /\ 1 \in TraceNo
  BY Sorts DEF Tame, TraceNo
<1>1. TypeOK'
  BY <1>0 DEF IInv, TypeOK, States
<1>2. UNCHANGED Heap
  BY DEF Heap
<1>3. PhasesSound'
  BY <1>0 DEF IInv, PhasesSound
<1>4. RecorderSound'
  BY <1>0 DEF IInv, RecorderSound, PhasesSound, SetUp, Recording
<1>5. HoldsSound'
  BY <1>0, <1>2, QuietKeeps DEF IInv, PhasesSound, HoldsSound, SetUp, Recording, Heap, Saved, Untouched
<1>6. StitchSound'
  BY <1>0 DEF IInv, StitchSound, PhasesSound
<1>. QED BY <1>1, <1>2, <1>3, <1>4, <1>5, <1>6, QuietKeeps DEF IInv

-----------------------------------------------------------------------------
(* Steps that change no saved trace *)

SameHeap ==
  /\ UNCHANGED <<prog, tr, pttrace>> /\ cur'.nextroot = 0
  /\ \A n \in TraceNo : trace[n] \in Obj \/ trace'[n] \in Obj => trace'[n] = trace[n]

LEMMA SameHeapKeeps ==
  ASSUME IInv, TypeOK', SameHeap
  PROVE  /\ \A p \in Proto : Chain(p)' = Chain(p)
         /\ Kept' = Kept /\ Saved' = Saved /\ Shapes'
         /\ \A o \in Kept : RootOf(o)' = RootOf(o) /\ tr'[o] = tr[o] /\ o \in Obj
         /\ \A n \in TraceNo : trace[n] \in Kept => trace'[n] = trace[n]
         /\ dead' \cap Kept = {} => KeptSound'
         /\ trace'[0] = Null /\ dead' \subseteq Saved => Named'
<1>. USE DEF SameHeap
<1>0. TypeOK /\ cur.nextroot = 0 /\ Heads \subseteq Obj
  BY HeadsObj DEF IInv, RecorderSound
<1>1. Nextroots' = Nextroots
  <2>1. \A n \in TraceNo \ {0} : Nextroots[n] = IF trace[n] \in Obj THEN {tr[trace[n]].nextroot} \ {0} ELSE {}
    BY <1>0, NextrootsAre
  <2>2. ASSUME NEW n \in TraceNo \ {0}
        PROVE  Nextroots'[n] = IF trace'[n] \in Obj THEN {tr'[trace'[n]].nextroot} \ {0} ELSE {}
    <3>1. Nextroots'[n] = {Traceref(n)'.nextroot} \ {0}
      BY DEF Nextroots
    <3>2. trace'[n] \in Obj \cup {Null, Cur}
      BY DEF TypeOK
    <3>3. CASE trace'[n] = Cur
      BY <3>1, <3>3, Sorts DEF Traceref
    <3>4. CASE trace'[n] = Null
      BY <3>1, <3>4, Sorts DEF Traceref, NoTrace
    <3>5. CASE trace'[n] \in Obj
      <4>1. Traceref(n)' = tr'[trace'[n]]
        BY <3>5, Sorts DEF Traceref
      <4>. QED BY <3>1, <3>5, <4>1
    <3>. QED BY <3>2, <3>3, <3>4, <3>5
  <2>3. \A n \in TraceNo \ {0} : Nextroots'[n] = Nextroots[n]
    BY <2>1, <2>2
  <2>. QED BY <2>3 DEF Nextroots
<1>2. \A p \in Proto : Chain(p)' = Chain(p)
  BY <1>1 DEF Chain
<1>3. Heads' = Heads
  <2>1. \A p \in Proto : pttrace[p] # 0 => trace[pttrace[p]] \in Obj /\ pttrace[p] \in TraceNo
    <3>. SUFFICES ASSUME NEW p \in Proto, pttrace[p] # 0 PROVE trace[pttrace[p]] \in Obj /\ pttrace[p] \in TraceNo
      OBVIOUS
    <3>1. trace[pttrace[p]] \in Heads
      BY DEF Heads
    <3>. QED BY <1>0, <3>1 DEF TypeOK
  <2>. QED BY <2>1 DEF Heads
<1>4. MarkLinks' = MarkLinks /\ SideLinks' = SideLinks
  <2>1. \A o \in Obj : tr[o] \in TraceType
    BY <1>0 DEF TypeOK
  <2>2. ASSUME NEW o \in Obj PROVE (Marks(tr[o]) \cap Obj)' = Marks(tr[o]) \cap Obj
    BY <2>1 DEF Marks, TraceType
  <2>3. ASSUME NEW o \in Obj, tr[o].nextside # 0
        PROVE  ({trace[tr[o].nextside]} \cap Obj)' = {trace[tr[o].nextside]} \cap Obj
    BY <2>1, <2>3 DEF TraceType
  <2>. QED BY <2>2, <2>3 DEF MarkLinks, SideLinks
<1>5. Kept' = Kept /\ \A o : SideList(o)' = SideList(o)
  BY <1>3, <1>4 DEF Kept, SideList
<1>6. Saved' = Saved /\ Shapes'
  BY DEF Saved, Shapes, IInv
<1>7. \A o \in Kept : RootOf(o)' = RootOf(o) /\ o \in Obj /\ RootOf(o) \in Obj /\ tr[o] \in TraceType
  <2>. SUFFICES ASSUME NEW o \in Kept
                PROVE  RootOf(o)' = RootOf(o) /\ o \in Obj /\ RootOf(o) \in Obj /\ tr[o] \in TraceType
    OBVIOUS
  <2>1. o \in Obj /\ RootOf(o) \in Obj /\ tr[o] \in TraceType
    <3>1. RootOf(o) \in Kept /\ o \in Obj
      BY Rooted DEF IInv
    <3>. QED BY <1>0, <3>1, KeptObj
  <2>. QED BY <2>1 DEF RootOf, TraceType
<1>8. \A n \in TraceNo : trace[n] \in Kept => trace'[n] = trace[n]
  BY <1>7
<1>9. ASSUME dead' \cap Kept = {} PROVE KeptSound'
  <2>. SUFFICES ASSUME NEW o \in Kept PROVE o \notin dead' /\ tr'[o].no # 0 /\ LinkSound(o)'
    BY <1>5 DEF KeptSound
  <2>1. o \notin dead /\ tr[o].no # 0 /\ LinkSound(o)
    BY DEF IInv, KeptSound
  <2>2. /\ tr[o].link \in TraceNo /\ tr[o].nextroot \in TraceNo /\ tr[o].nextside \in TraceNo
        /\ tr[o].no \in TraceNo /\ trace[tr[o].no] = o
    BY <1>7, <2>1 DEF TraceType, IInv, Named
  <2>3. tr[o].link # 0 => trace'[tr[o].link] = trace[tr[o].link]
    BY <1>7, <2>1, <2>2 DEF LinkSound
  <2>4. \A n \in {tr[o].link, tr[o].nextroot} \ {0, tr[o].no} : trace'[n] = trace[n]
    BY <2>1, <2>2 DEF LinkSound
  <2>5. tr[o].nextside # 0 => trace'[tr[o].nextside] = trace[tr[o].nextside]
    BY <2>1, <2>2 DEF LinkSound
  <2>. QED BY <1>5, <1>7, <1>9, <2>1, <2>3, <2>4, <2>5 DEF LinkSound
<1>10. ASSUME trace'[0] = Null, dead' \subseteq Saved PROVE Named'
  BY <1>6, <1>10, <1>0 DEF IInv, Named, TypeOK, TraceType
<1>. QED BY <1>2, <1>5, <1>6, <1>7, <1>8, <1>9, <1>10

\* Fewer instructions lead into traces.
LEMMA FewerJloops ==
  ASSUME IInv, TypeOK', SameHeap,
         \A pc \in Pc : op'[pc] = "JLOOP" \/ pc = patch' => jd'[pc] = jd[pc] /\ (op[pc] = "JLOOP" \/ pc = patch),
         patch' # NoPC => patch' \in Ret
  PROVE  ChainsSound'
<1>1. ASSUME NEW p \in Proto, NEW n \in Chain(p)
      PROVE  trace'[n] = trace[n] /\ tr' = tr /\ trace[n] \in Obj
  BY <1>1, ChainIs DEF SameHeap, IInv, ChainsSound
<1>2. \A p \in Proto : Chain(p)' = Chain(p)
  BY SameHeapKeeps
<1>3. \A pc \in Pc : ProtoOf[pc] \in Proto
  BY Sorts
<1>4. ASSUME NEW p \in Proto, NEW n \in Chain(p)
      PROVE  trace'[n] \in Obj /\ tr'[trace'[n]].kind \in {"LOOP", "RET"} /\ ProtoOf[tr'[trace'[n]].startpc] = p
  BY <1>1, <1>4 DEF IInv, ChainsSound
<1>5. ASSUME NEW pc \in Pc, op'[pc] = "JLOOP" \/ pc = patch'
      PROVE  jd'[pc] \in Chain(ProtoOf[pc]) /\ tr'[trace'[jd'[pc]]].startpc = pc
  BY <1>1, <1>3, <1>5 DEF IInv, ChainsSound
<1>. QED BY <1>2, <1>3, <1>4, <1>5 DEF ChainsSound

\* A set of numbers that is not empty has a least one.
LEMMA LeastOf ==
  ASSUME NEW S, S \subseteq Nat, S # {}
  PROVE  \E n \in S : \A m \in S : n <= m
<1>. DEFINE R == OpToRel(<, Nat)
<1>1. R = {p \in Nat \X Nat : p[1] < p[2]}
  BY DEF OpToRel
<1>2. IsWellFoundedOn(R, Nat)
  BY NatLessThanWellFounded
<1>. HIDE DEF R
<1>3. PICK n \in S : \A m \in S : ~(<<m, n>> \in R)
  BY <1>2, WFMin, Zenon
<1>4. \A m \in S : ~(m < n)
  <2>. SUFFICES ASSUME NEW m \in S, m < n PROVE FALSE
    OBVIOUS
  <2>1. <<m, n>> \in R
    BY <1>1
  <2>. QED BY <1>3, <2>1
<1>. QED BY <1>4

\* trace_findfree finds the first free number from freetrace on.
LEMMA FreeNoIs ==
  ASSUME IInv, FreeNo # 0
  PROVE  /\ FreeNo \in TraceNo \ {0} /\ trace[FreeNo] = Null /\ freetrace <= FreeNo
         /\ FreeNo + 1 \in 0 .. MaxTrace + 1
         /\ \A n \in TraceNo \ {0} : n < FreeNo => trace[n] # Null
<1>. DEFINE N == {n \in 1 .. prog.maxtrace : n >= freetrace /\ trace[n] = Null}
<1>0. prog.maxtrace \in 1 .. MaxTrace /\ freetrace \in Nat /\ MaxTrace \in Nat
  BY Prog, Sorts DEF IInv, TypeOK
<1>1. N # {} /\ N \subseteq Nat
  BY <1>0 DEF FreeNo
<1>2. \E n \in N : \A k \in N : n <= k
  BY <1>1, LeastOf
<1>3. FreeNo \in N /\ \A k \in N : FreeNo <= k
  BY <1>1, <1>2 DEF FreeNo
<1>4. FreeNo \in TraceNo \ {0} /\ FreeNo \in Nat
  BY <1>0, <1>3 DEF TraceNo
<1>5. ASSUME NEW n \in TraceNo \ {0}, n < FreeNo PROVE trace[n] # Null
  <2>1. CASE n < freetrace
    BY <2>1 DEF IInv, FreeNumbersFound
  <2>2. CASE freetrace <= n
    BY <1>0, <1>3, <1>4, <1>5, <2>2 DEF TraceNo
  <2>. QED BY <1>0, <2>1, <2>2 DEF TraceNo
<1>. QED BY <1>0, <1>3, <1>4, <1>5 DEF TraceNo

\* How the parts of the invariant about traces survive such a step.
LEMMA SameHeapSound ==
  ASSUME IInv, TypeOK', SameHeap, dead' \cap Kept = {}, dead' \subseteq Saved, trace'[0] = Null,
         \A pc \in Pc : op'[pc] = "JLOOP" \/ pc = patch' => jd'[pc] = jd[pc] /\ (op[pc] = "JLOOP" \/ pc = patch),
         patch' # NoPC => patch' \in Ret
  PROVE  Named' /\ Shapes' /\ ChainsSound' /\ KeptSound'
BY SameHeapKeeps, FewerJloops

\* a function may not be compiled
LEMMA StartNojitStep ==
  ASSUME IInv, NEW p \in Proto, trace_start(p), nojit[p], UNCHANGED prog
  PROVE  IInv'
<1>0. /\ state = "start" /\ event = "none" /\ (jpc # NoPC => p = ProtoOf[jpc])
      /\ \/ jpc \in Ret /\ state' = "err" /\ err' = "other"
         \/ jpc \notin Ret /\ state' = "idle" /\ UNCHANGED err
      /\ op' = IF parent = 0 /\ exitno = 0 THEN [op EXCEPT ![jpc] = "ILOOP"] ELSE op
      /\ UNCHANGED <<cur, trace, freetrace, penalty, bcskip, jd, pttrace, nojit, tr, event,
                     parent, exitno, jpc, patch, tno, at, frame, restart, ip, dead, from, asked>>
  BY DEF trace_start, trace_start_fails, runvars
<1>1. /\ parent = 0 /\ exitno = 0 => jpc \in Pc
      /\ jpc \in Ret => parent = 0 /\ exitno = 0
      /\ cur.no = 0 /\ at = Null /\ patch = NoPC /\ ~asked
  BY <1>0, Sorts DEF IInv, TypeOK, RecorderSound, PhasesSound, Pc
<1>2. TypeOK'
  BY <1>0, <1>1 DEF IInv, TypeOK, States
<1>3. SameHeap
  BY <1>0 DEF SameHeap, IInv, RecorderSound
<1>4. \A pc \in Pc : op'[pc] = "JLOOP" \/ pc = patch' => jd'[pc] = jd[pc] /\ (op[pc] = "JLOOP" \/ pc = patch)
  BY <1>0, <1>1 DEF IInv, TypeOK
<1>5. Named' /\ Shapes' /\ ChainsSound' /\ KeptSound'
  BY <1>0, <1>1, <1>2, <1>3, <1>4, SameHeapSound DEF IInv, KeptSound, Named
<1>6. FreeNumbersFound' /\ CurOnce'
  BY <1>0 DEF IInv, FreeNumbersFound, CurOnce
<1>7. PhasesSound'
  BY <1>0, <1>1 DEF IInv, PhasesSound
<1>8. RecorderSound'
  BY <1>0, <1>1 DEF IInv, RecorderSound, SetUp, Recording
<1>9. HoldsSound'
  BY <1>0, <1>1, <1>2, <1>3, SameHeapKeeps DEF IInv, HoldsSound, SetUp, Recording
<1>10. StitchSound'
  BY <1>0 DEF IInv, StitchSound
<1>. QED BY <1>2, <1>5, <1>6, <1>7, <1>8, <1>9, <1>10 DEF IInv

\* a trace number is taken
LEMMA StartRecordStep ==
  ASSUME IInv, NEW p \in Proto, trace_start(p), ~nojit[p], FreeNo # 0, UNCHANGED prog
  PROVE  IInv'
<1>0. /\ state = "start" /\ event = "none"
      /\ state' = "record" /\ bcskip' = FALSE /\ event' = "start"
      /\ cur' = [NoTrace EXCEPT !.no = FreeNo]
      /\ trace' = [trace EXCEPT ![FreeNo] = Cur] /\ freetrace' = FreeNo + 1
      /\ UNCHANGED <<err, penalty, op, jd, pttrace, nojit, tr,
                     parent, exitno, jpc, patch, tno, at, frame, restart, ip, dead, from, asked>>
  BY DEF trace_start, runvars, bcvars
<1>f. /\ FreeNo \in TraceNo \ {0} /\ trace[FreeNo] = Null /\ freetrace <= FreeNo
      /\ FreeNo + 1 \in 0 .. MaxTrace + 1
      /\ \A n \in TraceNo \ {0} : n < FreeNo => trace[n] # Null
  BY FreeNoIs
<1>c. /\ cur'.no = FreeNo /\ cur'.kind = "none" /\ cur'.startpc = NoPC /\ cur'.root = 0
      /\ cur'.link = 0 /\ cur'.stitch = FALSE /\ cur'.nextroot = 0 /\ cur'.nextside = 0
      /\ cur'.jump = Null /\ cur'.side = Null /\ cur' \in TraceType
  <2>1. NoTrace \in TraceType
    BY Sorts DEF NoTrace, TraceType, TraceNo
  <2>2. cur' = [no |-> FreeNo, kind |-> "none", startpc |-> NoPC, root |-> 0, link |-> 0,
                stitch |-> FALSE, nextroot |-> 0, nextside |-> 0, jump |-> Null, side |-> Null]
    BY <1>0 DEF NoTrace
  <2>. QED BY <1>f, <2>1, <2>2 DEF NoTrace, TraceType
<1>1. cur.no = 0 /\ at = Null /\ patch = NoPC /\ ~asked /\ Cur \notin Obj /\ Null \notin Obj /\ Cur # Null
  BY <1>0, Sorts DEF IInv, TypeOK, RecorderSound, PhasesSound, Pc
<1>2. TypeOK'
  BY <1>0, <1>c, <1>f DEF IInv, TypeOK, States
<1>3. SameHeap
  BY <1>0, <1>1, <1>c, <1>f DEF SameHeap, IInv, TypeOK
<1>4. \A pc \in Pc : op'[pc] = "JLOOP" \/ pc = patch' => jd'[pc] = jd[pc] /\ (op[pc] = "JLOOP" \/ pc = patch)
  BY <1>0, <1>1 DEF IInv, TypeOK
<1>5. Named' /\ Shapes' /\ ChainsSound' /\ KeptSound'
  <2>1. trace'[0] = Null /\ dead' \subseteq Saved /\ dead' \cap Kept = {} /\ (patch' # NoPC => patch' \in Ret)
    BY <1>0, <1>1, <1>f DEF IInv, KeptSound, Named, TypeOK
  <2>. QED BY <1>2, <1>3, <1>4, <2>1, SameHeapSound
<1>6. FreeNumbersFound' /\ CurOnce'
  <2>1. \A n \in TraceNo \ {0} : trace[n] # Cur
    BY <1>1 DEF IInv, CurOnce
  <2>2. CurOnce'
    BY <1>0, <1>c, <2>1 DEF IInv, CurOnce, TypeOK
  <2>3. FreeNumbersFound'
    BY <1>0, <1>1, <1>f DEF IInv, FreeNumbersFound, TypeOK, TraceNo
  <2>. QED BY <2>2, <2>3
<1>7. PhasesSound'
  BY <1>0, <1>1 DEF IInv, PhasesSound
<1>8. RecorderSound'
  <2>1. trace'[cur'.no] = Cur
    BY <1>0, <1>c, <1>f DEF IInv, TypeOK
  <2>. QED BY <1>0, <1>1, <1>c, <1>f, <2>1 DEF IInv, RecorderSound, SetUp, Recording
<1>9. HoldsSound'
  <2>1. /\ Kept' = Kept /\ Saved' = Saved /\ \A n \in TraceNo : trace[n] \in Kept => trace'[n] = trace[n]
        /\ \A o \in Kept : tr'[o] = tr[o] /\ o \in Obj
    BY <1>2, <1>3, SameHeapKeeps
  <2>2. parent \in TraceNo /\ exitno \in TraceNo
    BY DEF IInv, TypeOK
  <2>. QED BY <1>0, <1>1, <1>c, <2>1, <2>2 DEF IInv, HoldsSound, SetUp, Recording, Untouched
<1>10. StitchSound'
  BY <1>0, <1>c DEF IInv, StitchSound
<1>. QED BY <1>2, <1>5, <1>6, <1>7, <1>8, <1>9, <1>10 DEF IInv

LEMMA SetupStep ==
  ASSUME IInv, lj_record_setup, UNCHANGED prog
  PROVE  IInv'
<1>0. /\ event = "start" /\ event' = "none" /\ state = "record"
      /\ UNCHANGED <<parent, exitno, jpc, trace, freetrace, penalty, patch, bcskip, op, jd, pttrace,
                     nojit, tr, tno, at, frame, restart, ip, dead, from, asked>>
      /\ state' \in {"record", "end", "err"} /\ (UNCHANGED err \/ err' = "other")
      /\ state' = "err" => err' = "other"
  BY DEF lj_record_setup, Fail, runvars, bcvars, IInv, PhasesSound
<1>1. /\ cur.no # 0 /\ cur.kind = "none" /\ cur.link = 0 /\ cur.root = 0 /\ cur.startpc = NoPC
      /\ cur.nextroot = 0 /\ cur.nextside = 0 /\ cur.jump = Null /\ cur.side = Null
      /\ cur \in TraceType /\ trace[cur.no] = Cur /\ at = Null /\ patch = NoPC /\ ~asked
      /\ \/ parent = 0 /\ exitno = 0 /\ jpc # NoPC
         \/ parent = 0 /\ exitno # 0 /\ jpc = NoPC
         \/ parent # 0 /\ jpc = NoPC
      /\ Cur \notin Obj /\ Null \notin Obj /\ Cur # Null /\ NoPC \notin Pc
  BY <1>0, Sorts DEF IInv, TypeOK, RecorderSound, PhasesSound
<1>2. ASSUME parent # 0
      PROVE  /\ from \in Kept /\ trace[parent] = from
             /\ cur' = [cur EXCEPT !.root = tr[RootOf(from)].no, !.kind = "JMP"]
             /\ tr[RootOf(from)].no \in TraceNo \ {0}
  <2>1. from \in Kept /\ trace[parent] = from /\ parent \in TraceNo
    BY <1>0, <1>2 DEF IInv, HoldsSound, Recording, TypeOK
  <2>2. RootOf(from) \in Kept /\ from \in Obj /\ Traceref(parent) = tr[from] /\ tr[from].no = parent
    BY <1>2, <2>1, Rooted, TracerefIs DEF IInv, Named
  <2>3. tr[RootOf(from)].no \in TraceNo \ {0} /\ tr[from] \in TraceType
    BY <2>1, <2>2, KeptObj
  <2>4. (IF tr[from].root = 0 THEN parent ELSE tr[from].root) = tr[RootOf(from)].no
    <3>1. CASE tr[from].root = 0
      BY <2>2, <3>1 DEF RootOf
    <3>2. CASE tr[from].root # 0
      <4>1. RootOf(from) = trace[tr[from].root] /\ tr[from].root \in TraceNo /\ RootOf(from) \in Obj
        BY <2>2, <2>3, <3>2, KeptObj DEF RootOf, TraceType
      <4>. QED BY <3>2, <4>1 DEF IInv, Named
    <3>. QED BY <3>1, <3>2
  <2>5. cur' = [cur EXCEPT !.root = (IF tr[from].root = 0 THEN parent ELSE tr[from].root), !.kind = "JMP"]
    BY <1>2, <2>2 DEF lj_record_setup
  <2>. QED BY <2>1, <2>3, <2>4, <2>5
<1>3. ASSUME parent = 0
      PROVE  /\ cur' = [cur EXCEPT !.startpc = jpc,
                                   !.kind = CASE jpc \in Loop -> "LOOP" [] jpc \in Ret -> "RET"
                                              [] OTHER -> "CALL"]
             /\ jpc \in Loop \/ jpc \in Ret \/ (jpc = NoPC /\ exitno # 0)
             /\ jpc # NoPC => exitno = 0
  BY <1>1, <1>3 DEF lj_record_setup, IInv, TypeOK, Pc
<1>c. /\ cur'.no = cur.no /\ cur'.link = 0 /\ cur'.stitch = cur.stitch /\ cur'.nextroot = 0
      /\ cur'.nextside = 0 /\ cur'.jump = Null /\ cur'.side = Null
      /\ parent # 0 => cur'.kind = "JMP" /\ cur'.root = tr[RootOf(from)].no /\ cur'.startpc = NoPC
      /\ parent = 0 => cur'.root = 0 /\ cur'.startpc = jpc
      /\ parent = 0 /\ jpc = NoPC => cur'.kind = "CALL" /\ exitno # 0
      /\ parent = 0 /\ jpc # NoPC => exitno = 0 /\ ((cur'.kind = "LOOP" /\ jpc \in Loop) \/ (cur'.kind = "RET" /\ jpc \in Ret))
      /\ cur' \in TraceType
  <2>1. CASE parent # 0
    BY <1>1, <1>2, <2>1 DEF TraceType
  <2>2. CASE parent = 0
    <3>1. CASE jpc \in Loop
      <4>1. jpc \notin Ret /\ jpc # NoPC /\ jpc \in Pc
        BY <3>1, Sorts DEF Pc
      <4>2. cur' = [cur EXCEPT !.startpc = jpc, !.kind = "LOOP"]
        BY <1>3, <2>2, <3>1, <4>1
      <4>. QED BY <1>1, <1>3, <2>2, <3>1, <4>1, <4>2 DEF TraceType
    <3>2. CASE jpc \in Ret /\ jpc \notin Loop
      BY <1>1, <1>3, <2>2, <3>2 DEF TraceType, Pc
    <3>3. CASE jpc = NoPC
      BY <1>1, <1>3, <2>2, <3>3 DEF TraceType, Pc
    <3>. QED BY <1>3, <2>2, <3>1, <3>2, <3>3
  <2>. QED BY <2>1, <2>2
<1>4. TypeOK'
  BY <1>0, <1>c DEF IInv, TypeOK, States
<1>5. SameHeap
  BY <1>0, <1>c DEF SameHeap
<1>6. Named' /\ Shapes' /\ ChainsSound' /\ KeptSound'
  BY <1>0, <1>1, <1>4, <1>5, SameHeapSound DEF IInv, KeptSound, Named
<1>7. FreeNumbersFound' /\ CurOnce'
  BY <1>0, <1>c DEF IInv, FreeNumbersFound, CurOnce
<1>8. PhasesSound'
  BY <1>0, <1>1 DEF IInv, PhasesSound
<1>9. RecorderSound'
  BY <1>0, <1>1, <1>c DEF IInv, RecorderSound, SetUp, Recording
<1>10. HoldsSound'
  <2>1. /\ Kept' = Kept /\ Saved' = Saved /\ \A o \in Kept : RootOf(o)' = RootOf(o)
    BY <1>4, <1>5, SameHeapKeeps
  <2>. QED BY <1>0, <1>1, <1>2, <1>c, <2>1 DEF IInv, HoldsSound, SetUp, Recording, Untouched
<1>11. StitchSound'
  BY <1>0, <1>1, <1>c DEF IInv, StitchSound
<1>. QED BY <1>4, <1>6, <1>7, <1>8, <1>9, <1>10, <1>11 DEF IInv

\* trace_pendpatch puts the JLOOP back, at a place where one is due.
LEMMA PendpatchIs ==
  ASSUME IInv, NEW force \in BOOLEAN, Pendpatch(force)
  PROVE  /\ Repatched(force) \in [Pc -> {"LOOP", "JLOOP", "ILOOP"}] /\ bcskip' \in BOOLEAN
         /\ patch' \in {patch, NoPC} /\ (force => patch' = NoPC)
         /\ \A pc \in Pc : Repatched(force)[pc] = "JLOOP" \/ pc = patch' => op[pc] = "JLOOP" \/ pc = patch
         /\ \A pc \in Pc : op[pc] = "JLOOP" => Repatched(force)[pc] = "JLOOP"
<1>1. /\ op \in [Pc -> {"LOOP", "JLOOP", "ILOOP"}] /\ patch \in Pc \cup {NoPC} /\ bcskip \in BOOLEAN
      /\ NoPC \notin Pc
  BY Sorts DEF IInv, TypeOK
<1>2. bcskip' \in BOOLEAN /\ patch' \in {patch, NoPC} /\ (force => patch' = NoPC)
  <2>1. CASE Due(force)
    BY <1>1, <2>1 DEF Pendpatch
  <2>2. CASE ~Due(force)
    BY <1>1, <2>2 DEF Pendpatch, Due
  <2>. QED BY <2>1, <2>2
<1>3. CASE Due(force)
  BY <1>1, <1>2, <1>3 DEF Repatched, Due
<1>4. CASE ~Due(force)
  BY <1>1, <1>2, <1>4 DEF Repatched
<1>. QED BY <1>2, <1>3, <1>4

LEMMA InsStep ==
  ASSUME IInv, NEW i \in {"lua", "ret"} \cup Pc, lj_trace_ins(i), UNCHANGED prog
  PROVE  IInv'
<1>0. /\ event = "none" /\ event' = "record" /\ state = "record" /\ op' = Repatched(FALSE)
      /\ Pendpatch(FALSE) /\ ip' = i
      /\ UNCHANGED <<state, cur, parent, exitno, jpc, err, trace, freetrace, penalty, jd, pttrace,
                     nojit, tr, tno, at, frame, restart, dead, from, asked>>
  BY DEF lj_trace_ins, Interp, Quiet
<1>1. /\ op' \in [Pc -> {"LOOP", "JLOOP", "ILOOP"}] /\ bcskip' \in BOOLEAN /\ patch' \in {patch, NoPC}
      /\ \A pc \in Pc : op'[pc] = "JLOOP" \/ pc = patch' => op[pc] = "JLOOP" \/ pc = patch
  BY <1>0, PendpatchIs
<1>p. ip' \in Places
  BY <1>0 DEF Places
<1>2. TypeOK'
  BY <1>0, <1>1, <1>p DEF IInv, TypeOK, States
<1>3. SameHeap
  BY <1>0 DEF SameHeap, IInv, RecorderSound
<1>4. Named' /\ Shapes' /\ ChainsSound' /\ KeptSound'
  <2>1. patch' # NoPC => patch' \in Ret
    BY <1>1 DEF IInv, ChainsSound
  <2>. QED BY <1>0, <1>1, <1>2, <1>3, <2>1, SameHeapSound DEF IInv, KeptSound, Named
<1>5. FreeNumbersFound' /\ CurOnce'
  BY <1>0 DEF IInv, FreeNumbersFound, CurOnce
<1>6. PhasesSound'
  BY <1>0, <1>1 DEF IInv, PhasesSound
<1>7. RecorderSound'
  BY <1>0 DEF IInv, RecorderSound, SetUp, Recording
<1>8. HoldsSound'
  <2>1. Kept' = Kept /\ Saved' = Saved /\ \A o : RootOf(o)' = RootOf(o)
    BY <1>0, <1>2, <1>3, SameHeapKeeps DEF RootOf
  <2>2. SetUp' = SetUp /\ Recording' = Recording /\ \A n : Untouched(n)' = Untouched(n)
    BY <1>0, <2>1 DEF SetUp, Recording, Untouched
  <2>. QED BY <1>0, <2>1, <2>2 DEF IInv, HoldsSound
<1>9. StitchSound'
  BY <1>0 DEF IInv, StitchSound
<1>. QED BY <1>2, <1>4, <1>5, <1>6, <1>7, <1>8, <1>9 DEF IInv

LEMMA RecordStep ==
  ASSUME IInv, lj_record_ins, UNCHANGED prog
  PROVE  IInv'
<1>0. /\ event = "record" /\ event' = "none" /\ state = "record"
      /\ UNCHANGED <<parent, exitno, trace, freetrace, penalty, patch, bcskip, op, jd, pttrace,
                     nojit, tr, tno, at, frame, restart, dead, from, asked>>
      /\ cur.no # 0 /\ cur.link = 0 /\ cur \in TraceType /\ at = Null /\ ip' \in {ip, "lua"}
  BY DEF lj_record_ins, rec_loop_jit, bcvars, IInv, PhasesSound, RecorderSound, HoldsSound, TypeOK
<1>1. \/ UNCHANGED <<state, cur, jpc, err>>
      \/ /\ state' = "end" /\ UNCHANGED <<jpc, err>>
         /\ \E link \in TraceNo, s \in BOOLEAN :
              /\ cur' = [cur EXCEPT !.link = link, !.stitch = s]
              /\ link \in {0, cur.no} \/ (trace[link] \in Kept /\ tr[trace[link]].root = 0)
              /\ s => "stitch" \in prog.ops
      \/ /\ state' = "err" /\ UNCHANGED cur /\ err' \in {"other", "RETRY"} /\ UNCHANGED jpc
      \/ /\ state' = "err" /\ UNCHANGED cur /\ err' = "DOWNREC" /\ jpc' \in Ret \cap prog.pcs
  <2>1. CASE UNCHANGED <<state, cur, jpc, err>>
    BY <2>1
  <2>2. ASSUME NEW link \in {0, cur.no} \cup {jd[pc] : pc \in {q \in Pc : op[q] = "JLOOP"}},
               Stop(link, FALSE), UNCHANGED <<jpc, err>>
        PROVE  /\ state' = "end" /\ link \in TraceNo /\ cur' = [cur EXCEPT !.link = link, !.stitch = FALSE]
               /\ link \in {0, cur.no} \/ (trace[link] \in Kept /\ tr[trace[link]].root = 0)
    <3>1. CASE link \in {0, cur.no}
      BY <1>0, <2>2, <3>1, Sorts DEF Stop, TraceType, TraceNo
    <3>2. CASE link \in {jd[pc] : pc \in {q \in Pc : op[q] = "JLOOP"}}
      BY <2>2, <3>2, JloopKept DEF Stop
    <3>. QED BY <2>2, <3>1, <3>2
  <2>3. CASE "stitch" \in prog.ops /\ Stop(0, TRUE) /\ UNCHANGED <<jpc, err>>
    <3>1. state' = "end" /\ cur' = [cur EXCEPT !.link = 0, !.stitch = TRUE] /\ 0 \in TraceNo
      BY <2>3, Sorts DEF Stop, TraceNo
    <3>. QED BY <2>3, <3>1
  <2>4. CASE (\E e \in {"other", "RETRY"} : Fail(e)) /\ UNCHANGED <<jpc, cur>>
    BY <2>4 DEF Fail
  <2>5. CASE Fail("DOWNREC") /\ jpc' \in Ret \cap prog.pcs /\ UNCHANGED cur
    BY <2>5 DEF Fail
  <2>6. \/ UNCHANGED <<state, cur, jpc, err>>
        \/ /\ \E link \in {0, cur.no} \cup {jd[pc] : pc \in {q \in Pc : op[q] = "JLOOP"}} : Stop(link, FALSE)
           /\ UNCHANGED <<jpc, err>>
        \/ "stitch" \in prog.ops /\ Stop(0, TRUE) /\ UNCHANGED <<jpc, err>>
        \/ (\E e \in {"other", "RETRY"} : Fail(e)) /\ UNCHANGED <<jpc, cur>>
        \/ Fail("DOWNREC") /\ jpc' \in Ret \cap prog.pcs /\ UNCHANGED cur
    <3>1. CASE ip \in Pc /\ op[ip] = "JLOOP" /\ rec_loop_jit /\ UNCHANGED <<jpc, err>>
      <4>1. jd[ip] \in {jd[pc] : pc \in {q \in Pc : op[q] = "JLOOP"}}
        BY <3>1
      <4>2. UNCHANGED <<state, cur>> \/ Stop(jd[ip], FALSE) \/ Stop(cur.no, FALSE)
        BY <3>1 DEF rec_loop_jit
      <4>. QED BY <3>1, <4>1, <4>2
    <3>2. CASE ~(ip \in Pc /\ op[ip] = "JLOOP" /\ rec_loop_jit /\ UNCHANGED <<jpc, err>>)
      BY <3>2 DEF lj_record_ins
    <3>. QED BY <3>1, <3>2
  <2>. QED BY <2>1, <2>2, <2>3, <2>4, <2>5, <2>6
<1>2. /\ cur' \in TraceType /\ cur'.no = cur.no /\ cur'.kind = cur.kind /\ cur'.startpc = cur.startpc
      /\ cur'.root = cur.root /\ cur'.nextroot = cur.nextroot /\ cur'.nextside = cur.nextside
      /\ cur'.jump = cur.jump /\ cur'.side = cur.side /\ cur'.link \in TraceNo
      /\ cur'.link \in {0, cur.no} \/ (trace[cur'.link] \in Kept /\ tr[trace[cur'.link]].root = 0)
      /\ state' = "record" => cur'.link = 0
  <2>1. CASE UNCHANGED cur
    BY <1>0, <1>1, <2>1, Sorts DEF TraceType
  <2>2. ASSUME NEW link \in TraceNo, NEW s \in BOOLEAN, cur' = [cur EXCEPT !.link = link, !.stitch = s],
               link \in {0, cur.no} \/ (trace[link] \in Kept /\ tr[trace[link]].root = 0),
               s => "stitch" \in prog.ops, state' = "end"
        PROVE  /\ cur' \in TraceType /\ cur'.no = cur.no /\ cur'.kind = cur.kind /\ cur'.startpc = cur.startpc
               /\ cur'.root = cur.root /\ cur'.nextroot = cur.nextroot /\ cur'.nextside = cur.nextside
               /\ cur'.jump = cur.jump /\ cur'.side = cur.side /\ cur'.link = link
    BY <1>0, <2>2 DEF TraceType
  <2>. QED BY <1>0, <1>1, <2>1, <2>2
<1>s. cur'.stitch => cur.stitch \/ "stitch" \in prog.ops
  <2>1. CASE UNCHANGED cur
    BY <2>1
  <2>2. ASSUME NEW link \in TraceNo, NEW s \in BOOLEAN, cur' = [cur EXCEPT !.link = link, !.stitch = s],
               s => "stitch" \in prog.ops
        PROVE  cur'.stitch => "stitch" \in prog.ops
    <3>2. cur'.stitch = s
      BY <1>0, <2>2, Zenon DEF TraceType
    <3>3. cur'.stitch => "stitch" \in prog.ops
      BY <2>2, <3>2, Zenon
    <3>. QED BY <3>3
  <2>. QED BY <1>1, <2>1, <2>2
<1>3. /\ state' \in {"record", "end", "err"} /\ err' \in {err, "other", "RETRY", "DOWNREC"}
      /\ jpc' \in {jpc} \cup (Ret \cap prog.pcs) /\ NoPC \notin Ret
      /\ state' = "err" /\ err' = "DOWNREC" => jpc' # NoPC
      /\ state' = "err" => err' # "MCODELM" 
  BY <1>0, <1>1, Sorts DEF Pc
<1>p. ip' \in Places
  BY <1>0 DEF IInv, TypeOK, Places
<1>4. TypeOK'
  BY <1>0, <1>2, <1>3, <1>p DEF IInv, TypeOK, States, Pc
<1>5. SameHeap
  BY <1>0, <1>2 DEF SameHeap, IInv, RecorderSound
<1>6. Named' /\ Shapes' /\ ChainsSound' /\ KeptSound'
  BY <1>0, <1>4, <1>5, SameHeapSound DEF IInv, KeptSound, Named, ChainsSound
<1>7. FreeNumbersFound' /\ CurOnce'
  BY <1>0, <1>2 DEF IInv, FreeNumbersFound, CurOnce
<1>8. PhasesSound'
  BY <1>0, <1>3 DEF IInv, PhasesSound
<1>9. RecorderSound'
  BY <1>0, <1>2, <1>3 DEF IInv, RecorderSound, SetUp, Recording
<1>10. HoldsSound'
  <2>1. Kept' = Kept /\ Saved' = Saved /\ \A o : RootOf(o)' = RootOf(o)
    BY <1>0, <1>4, <1>5, SameHeapKeeps DEF RootOf
  <2>2. SetUp' /\ SetUp /\ Recording /\ Recording' /\ \A n : Untouched(n)' = Untouched(n)
    BY <1>0, <1>2, <1>3, <2>1 DEF SetUp, Recording, Untouched
  <2>. QED BY <1>0, <1>2, <1>3, <2>1, <2>2 DEF IInv, HoldsSound
<1>11. StitchSound'
  BY <1>0, <1>2, <1>3, <1>s DEF IInv, StitchSound
<1>. QED BY <1>4, <1>6, <1>7, <1>8, <1>9, <1>10, <1>11 DEF IInv

LEMMA EndStep ==
  ASSUME IInv, trace_end, UNCHANGED prog
  PROVE  IInv'
<1>0. /\ event = "none" /\ state = "end" /\ op' = Repatched(TRUE) /\ Pendpatch(TRUE)
      /\ \/ state' = "asm" /\ UNCHANGED cur
         \/ state' = "record" /\ cur' = [cur EXCEPT !.link = 0]
      /\ UNCHANGED <<parent, exitno, jpc, err, trace, freetrace, penalty, jd, pttrace,
                     nojit, tr, event, tno, at, frame, restart, ip, dead, from, asked>>
  BY DEF trace_end, runvars
<1>n. cur.no # 0 /\ cur \in TraceType /\ at = Null
  BY <1>0 DEF IInv, PhasesSound, RecorderSound, TypeOK
<1>1. /\ op' \in [Pc -> {"LOOP", "JLOOP", "ILOOP"}] /\ bcskip' \in BOOLEAN /\ patch' = NoPC
      /\ \A pc \in Pc : op'[pc] = "JLOOP" \/ pc = patch' => op[pc] = "JLOOP" \/ pc = patch
  BY <1>0, PendpatchIs
<1>2. /\ cur' \in TraceType /\ cur'.no = cur.no /\ cur'.kind = cur.kind /\ cur'.startpc = cur.startpc
      /\ cur'.root = cur.root /\ cur'.nextroot = cur.nextroot /\ cur'.nextside = cur.nextside
      /\ cur'.jump = cur.jump /\ cur'.side = cur.side /\ cur'.stitch = cur.stitch
      /\ cur'.link \in {0, cur.link} /\ (state' = "record" => cur'.link = 0)
  BY <1>0, <1>n, Sorts DEF TraceType, TraceNo
<1>4. TypeOK'
  BY <1>0, <1>1, <1>2 DEF IInv, TypeOK, States, Pc
<1>5. SameHeap
  BY <1>0, <1>2 DEF SameHeap, IInv, RecorderSound
<1>6. Named' /\ Shapes' /\ ChainsSound' /\ KeptSound'
  BY <1>0, <1>1, <1>4, <1>5, SameHeapSound DEF IInv, KeptSound, Named, ChainsSound
<1>7. FreeNumbersFound' /\ CurOnce'
  BY <1>0, <1>2 DEF IInv, FreeNumbersFound, CurOnce
<1>8. PhasesSound'
  BY <1>0, <1>1, <1>n DEF IInv, PhasesSound
<1>9. RecorderSound'
  BY <1>0, <1>2, <1>n DEF IInv, RecorderSound, SetUp, Recording
<1>10. HoldsSound'
  <2>1. Kept' = Kept /\ Saved' = Saved /\ \A o : RootOf(o)' = RootOf(o)
    BY <1>0, <1>4, <1>5, SameHeapKeeps DEF RootOf
  <2>2. SetUp' /\ SetUp /\ Recording /\ Recording' /\ \A n : Untouched(n)' = Untouched(n)
    BY <1>0, <1>2, <1>n, <2>1 DEF SetUp, Recording, Untouched
  <2>. QED BY <1>0, <1>2, <2>1, <2>2 DEF IInv, HoldsSound
<1>11. StitchSound'
  BY <1>0, <1>2 DEF IInv, StitchSound
<1>. QED BY <1>4, <1>6, <1>7, <1>8, <1>9, <1>10, <1>11 DEF IInv

\* the number is given back
LEMMA DropStep ==
  ASSUME IInv, trace_abort_end, err # "MCODEAL", UNCHANGED prog
  PROVE  IInv'
<1>0. /\ event \in {"abort", "dropped"} /\ event' = "none" /\ asked' = FALSE
      /\ trace' = IF tno = 0 THEN trace ELSE [trace EXCEPT ![tno] = Null]
      /\ freetrace' = IF tno # 0 /\ tno < freetrace THEN tno ELSE freetrace
      /\ cur' = [cur EXCEPT !.no = 0]
      /\ \/ err = "DOWNREC" /\ state' = "start" /\ parent' = 0 /\ exitno' = 0
         \/ state' = "idle" /\ UNCHANGED <<parent, exitno>>
      /\ UNCHANGED <<penalty, op, jd, pttrace, nojit, tr, jpc, err, patch, bcskip, tno,
                     at, frame, restart, ip, dead, from>>
  BY DEF trace_abort_end, Drop, runvars, bcvars
<1>1. /\ at = Null /\ patch = NoPC /\ cur \in TraceType /\ tno \in TraceNo /\ cur.no \in {0, tno}
      /\ trace[tno] \in {Cur, Null} /\ (err = "DOWNREC" => jpc # NoPC)
      /\ Cur \notin Obj /\ Null \notin Obj /\ Cur # Null /\ 0 \in TraceNo /\ trace[0] = Null
  BY <1>0, Sorts DEF IInv, PhasesSound, RecorderSound, TypeOK, TraceNo, Named
<1>2. /\ cur' \in TraceType /\ cur'.no = 0 /\ cur'.kind = cur.kind /\ cur'.startpc = cur.startpc
      /\ cur'.root = cur.root /\ cur'.nextroot = cur.nextroot /\ cur'.nextside = cur.nextside
      /\ cur'.jump = cur.jump /\ cur'.side = cur.side /\ cur'.stitch = cur.stitch /\ cur'.link = cur.link
  BY <1>0, <1>1 DEF TraceType
<1>3. /\ trace' \in [TraceNo -> Obj \cup {Null, Cur}] /\ trace'[tno] = Null /\ trace'[0] = Null
      /\ \A n \in TraceNo \ {tno} : trace'[n] = trace[n]
      /\ freetrace' \in 0 .. MaxTrace + 1
  BY <1>0, <1>1, Sorts DEF IInv, TypeOK, TraceNo
<1>4. TypeOK'
  BY <1>0, <1>1, <1>2, <1>3 DEF IInv, TypeOK, States
<1>5. SameHeap
  BY <1>0, <1>1, <1>2, <1>3 DEF SameHeap, IInv, RecorderSound
<1>6. Named' /\ Shapes' /\ ChainsSound' /\ KeptSound'
  BY <1>0, <1>1, <1>3, <1>4, <1>5, SameHeapSound DEF IInv, KeptSound, Named, ChainsSound
<1>7. FreeNumbersFound' /\ CurOnce'
  <2>1. CurOnce'
    BY <1>1, <1>2, <1>3 DEF IInv, CurOnce
  <2>2. ASSUME NEW n \in TraceNo \ {0}, n < freetrace' PROVE trace'[n] # Null
    <3>1. n < freetrace /\ n # tno
      BY <1>0, <1>1, <1>3, <2>2, Sorts DEF IInv, TypeOK, TraceNo
    <3>. QED BY <1>3, <3>1 DEF IInv, FreeNumbersFound
  <2>. QED BY <2>1, <2>2 DEF FreeNumbersFound
<1>8. PhasesSound'
  BY <1>0, <1>1 DEF IInv, PhasesSound
<1>9. RecorderSound'
  BY <1>0, <1>1, <1>2 DEF IInv, RecorderSound, SetUp, Recording
<1>10. HoldsSound'
  <2>1. Kept' = Kept /\ Saved' = Saved
    BY <1>4, <1>5, SameHeapKeeps
  <2>. QED BY <1>0, <1>1, <1>2, <2>1 DEF IInv, HoldsSound, SetUp, Recording
<1>11. StitchSound'
  BY <1>0, <1>1, <1>2 DEF IInv, StitchSound
<1>. QED BY <1>4, <1>6, <1>7, <1>8, <1>9, <1>10, <1>11 DEF IInv

\* luaJIT_setmode is called: nothing is recorded, or no longer.
LEMMA CallsAre ==
  ASSUME IInv, Calls, Tame(prog)
  PROVE  /\ frame = Null
         /\ \/ state = "idle" /\ event = "none" /\ at = Null /\ restart = NoPC
            \/ state = "aborted" /\ event = "none" /\ at = Null /\ restart = NoPC /\ "hook" \in prog.ops
            \/ event \in {"stop", "abort"} /\ state \in {"asm", "aborted", "err"} /\ at = Null
         /\ ~Recording \/ event = "abort" \/ event = "stop"
         /\ patch = NoPC
         /\ state = "aborted" /\ event = "none" => cur.kind # "CALL"
<1>1. frame = Null
  BY DEF Calls, Tame
<1>2. \/ state = "idle" /\ event = "none" /\ at = Null /\ restart = NoPC
      \/ /\ state = "aborted" /\ event = "none" /\ at = Null /\ restart = NoPC /\ "hook" \in prog.ops
         /\ prog.pcs \subseteq Loop /\ "stitch" \notin prog.ops
      \/ event \in {"stop", "abort"} /\ state \in {"asm", "aborted", "err"} /\ at = Null
  <2>1. CASE event \in prog.flushin
    BY <2>1 DEF Tame, IInv, PhasesSound
  <2>2. CASE event \notin prog.flushin
    BY <2>2 DEF Calls, Quiet, Handler, Tame
  <2>. QED BY <2>1, <2>2
<1>3. patch = NoPC
  <2>1. CASE state = "aborted" /\ event = "none"
    <3>1. prog.pcs \subseteq Loop /\ Loop \cap Ret = {}
      BY <1>2, <2>1, Sorts
    <3>2. patch # NoPC => patch \in Ret /\ patch \in prog.pcs
      <4>. SUFFICES ASSUME patch # NoPC PROVE patch \in Ret /\ patch \in prog.pcs
        OBVIOUS
      <4>1. patch \in Pc
        BY DEF IInv, TypeOK
      <4>. QED BY <4>1, JloopKept DEF IInv, ChainsSound
    <3>. QED BY <3>1, <3>2
  <2>2. CASE ~(state = "aborted" /\ event = "none")
    BY <1>2, <2>2 DEF IInv, PhasesSound
  <2>. QED BY <2>1, <2>2
<1>4. state = "aborted" /\ event = "none" => cur.kind # "CALL"
  BY <1>2 DEF IInv, StitchSound
<1>. QED BY <1>1, <1>2, <1>3, <1>4 DEF Recording

\* What a call of luaJIT_setmode leaves of the recorder.
LEMMA AskedSound ==
  ASSUME IInv, Calls, Tame(prog), AskAbort, UNCHANGED modevars, UNCHANGED prog,
         cur'.no \in {0, cur.no}, cur'.no # 0 => trace'[cur'.no] = Cur,
         cur'.kind = cur.kind, cur'.startpc = cur.startpc, cur'.root = cur.root,
         cur'.nextroot = 0, cur'.nextside = 0, cur'.jump = Null, cur'.side = Null,
         cur'.stitch = cur.stitch,
         \A n \in TraceNo : trace[n] \in {Cur, Null} => trace'[n] \in {Cur, Null},
         \A o \in Obj : tr'[o].stitch = tr[o].stitch
  PROVE  /\ PhasesSound' /\ RecorderSound' /\ HoldsSound' /\ StitchSound'
         /\ state' \in States /\ asked' \in BOOLEAN
<1>0. /\ UNCHANGED <<parent, exitno, jpc, err, patch, bcskip, event, tno, at, frame, restart, ip, dead, from>>
      /\ state' = IF state = "idle" THEN "idle" ELSE "aborted"
      /\ asked' = (state # "idle")
  BY DEF modevars, runvars, AskAbort, Aborted
<1>1. /\ frame = Null
      /\ \/ state = "idle" /\ event = "none" /\ at = Null /\ restart = NoPC
         \/ state = "aborted" /\ event = "none" /\ at = Null /\ restart = NoPC
         \/ event \in {"stop", "abort"} /\ state \in {"asm", "aborted", "err"} /\ at = Null
      /\ patch = NoPC /\ (state = "aborted" /\ event = "none" => cur.kind # "CALL")
  BY CallsAre
<1>2. PhasesSound'
  BY <1>0, <1>1 DEF IInv, PhasesSound
<1>3. tno \in TraceNo
  BY DEF IInv, TypeOK
<1>4. RecorderSound'
  BY <1>0, <1>1, <1>3 DEF IInv, RecorderSound, SetUp, Recording
<1>5. HoldsSound'
  BY <1>0, <1>1 DEF IInv, HoldsSound, SetUp, Recording
<1>6. StitchSound'
  BY <1>0, <1>1 DEF IInv, StitchSound
<1>7. state' \in States /\ asked' \in BOOLEAN
  BY <1>0 DEF States
<1>. QED BY <1>2, <1>4, <1>5, <1>6, <1>7

LEMMA OnStep ==
  ASSUME IInv, NEW p \in Proto, setptmode_on(p), UNCHANGED prog, Tame(prog)
  PROVE  IInv'
<1>0. /\ Calls /\ AskAbort
      /\ nojit' = [nojit EXCEPT ![p] = FALSE]
      /\ op' = [pc \in Pc |-> IF ProtoOf[pc] = p /\ op[pc] = "ILOOP" THEN "LOOP" ELSE op[pc]]
      /\ UNCHANGED <<cur, trace, freetrace, penalty, jd, pttrace, tr>> /\ UNCHANGED modevars
  BY DEF setptmode_on
<1>1. PhasesSound' /\ RecorderSound' /\ HoldsSound' /\ StitchSound' /\ state' \in States /\ asked' \in BOOLEAN
  BY <1>0, AskedSound DEF IInv, RecorderSound
<1>2. TypeOK'
  BY <1>0, <1>1 DEF IInv, TypeOK, modevars, runvars
<1>3. SameHeap
  BY <1>0 DEF SameHeap, IInv, RecorderSound
<1>4. \A pc \in Pc : op'[pc] = "JLOOP" \/ pc = patch' => jd'[pc] = jd[pc] /\ (op[pc] = "JLOOP" \/ pc = patch)
  BY <1>0 DEF modevars
<1>5. Named' /\ Shapes' /\ ChainsSound' /\ KeptSound'
  BY <1>0, <1>2, <1>3, <1>4, SameHeapSound DEF IInv, KeptSound, Named, ChainsSound, modevars
<1>6. FreeNumbersFound' /\ CurOnce'
  BY <1>0 DEF IInv, FreeNumbersFound, CurOnce
<1>. QED BY <1>1, <1>2, <1>5, <1>6 DEF IInv

LEMMA ExitEndStep ==
  ASSUME IInv, lj_trace_exit_end, UNCHANGED prog
  PROVE  IInv'
<1>0. /\ restart # NoPC /\ event = "none" /\ ~Inside /\ restart' = NoPC
      /\ \/ /\ op[restart] = "JLOOP" /\ restart \in Ret /\ state = "record"
            /\ op' = [op EXCEPT ![restart] = "LOOP"] /\ patch' = restart /\ bcskip' = TRUE
         \/ UNCHANGED <<op, patch, bcskip>>
      /\ UNCHANGED <<state, cur, parent, exitno, jpc, err, trace, freetrace, penalty, jd, pttrace,
                 nojit, tr, event, tno, at, frame, ip, dead, from, asked>>
  BY DEF lj_trace_exit_end
<1>1. restart \in Pc /\ at = Null
  BY <1>0 DEF IInv, TypeOK, PhasesSound
<1>2. TypeOK'
  <2>1. CASE UNCHANGED <<op, patch, bcskip>>
    BY <1>0, <1>1, <2>1 DEF IInv, TypeOK
  <2>2. CASE op' = [op EXCEPT ![restart] = "LOOP"] /\ patch' = restart /\ bcskip' = TRUE
    BY <1>0, <1>1, <2>2 DEF IInv, TypeOK
  <2>. QED BY <1>0, <2>1, <2>2
<1>3. SameHeap
  BY <1>0 DEF SameHeap, IInv, RecorderSound
<1>4. \A pc \in Pc : op'[pc] = "JLOOP" \/ pc = patch' => jd'[pc] = jd[pc] /\ (op[pc] = "JLOOP" \/ pc = patch)
  BY <1>0, <1>1 DEF IInv, TypeOK
<1>5. Named' /\ Shapes' /\ ChainsSound' /\ KeptSound'
  <2>1. patch' # NoPC => patch' \in Ret
    BY <1>0 DEF IInv, ChainsSound
  <2>. QED BY <1>0, <1>2, <1>3, <1>4, <2>1, SameHeapSound DEF IInv, KeptSound, Named
<1>6. FreeNumbersFound' /\ CurOnce'
  BY <1>0 DEF IInv, FreeNumbersFound, CurOnce
<1>7. PhasesSound'
  BY <1>0, <1>1 DEF IInv, PhasesSound
<1>8. RecorderSound'
  BY <1>0 DEF IInv, RecorderSound, SetUp, Recording
<1>9. HoldsSound'
  <2>1. Kept' = Kept /\ Saved' = Saved /\ \A o : RootOf(o)' = RootOf(o)
    BY <1>0, <1>2, <1>3, SameHeapKeeps DEF RootOf
  <2>2. SetUp' = SetUp /\ Recording' = Recording /\ \A n : Untouched(n)' = Untouched(n)
    BY <1>0, <2>1 DEF SetUp, Recording, Untouched
  <2>. QED BY <1>0, <2>1, <2>2 DEF IInv, HoldsSound
<1>10. StitchSound'
  BY <1>0 DEF IInv, StitchSound
<1>. QED BY <1>2, <1>5, <1>6, <1>7, <1>8, <1>9, <1>10 DEF IInv

\* The collector marks whatever bytecode keeps, and the trace of the continuation frame.
LEMMA MarkedIs ==
  ASSUME IInv
  PROVE  Kept \subseteq Marked /\ (frame \in Obj => frame \in Marked)
<1>1. Heads \subseteq Obj /\ MarkLinks \in [Obj -> SUBSET Obj]
  BY HeadsObj, LinkTypes DEF IInv
<1>. DEFINE X == Roots \cap Obj
<1>2. Heads \subseteq X /\ (frame \in Obj => frame \in X) /\ X \in SUBSET Obj /\ Marked = Reach(X, MarkLinks)
  BY <1>1 DEF Heads, Roots, Marked
<1>. HIDE DEF X
<1>3. X \subseteq Marked /\ Marked \subseteq Obj /\ \A o \in Marked : MarkLinks[o] \subseteq Marked
  BY <1>1, <1>2, ReachIs
<1>4. Kept \subseteq Marked
  BY <1>1, <1>2, <1>3, ReachLeast DEF Kept
<1>. QED BY <1>2, <1>3, <1>4

LEMMA AtomicStep ==
  ASSUME IInv, atomic, UNCHANGED prog
  PROVE  IInv'
<1>0. /\ dead' = Saved \ Marked
      /\ UNCHANGED <<state, cur, parent, exitno, jpc, err, trace, freetrace, penalty, patch, bcskip, 
                     op, jd, pttrace, nojit, tr, event, tno, at, frame, restart, ip, from, asked>>
  BY DEF atomic, jvars, bcvars, runvars
<1>1. Kept \subseteq Marked /\ (frame \in Obj => frame \in Marked) /\ Saved \subseteq Obj
  BY MarkedIs DEF Saved
<1>2. TypeOK'
  BY <1>0, <1>1 DEF IInv, TypeOK
<1>3. SameHeap
  BY <1>0 DEF SameHeap, IInv, RecorderSound
<1>4. Named' /\ Shapes' /\ ChainsSound' /\ KeptSound'
  BY <1>0, <1>1, <1>2, <1>3, SameHeapSound DEF IInv, Named, ChainsSound
<1>5. FreeNumbersFound' /\ CurOnce'
  BY <1>0 DEF IInv, FreeNumbersFound, CurOnce
<1>6. PhasesSound'
  BY <1>0 DEF IInv, PhasesSound
<1>7. RecorderSound'
  BY <1>0 DEF IInv, RecorderSound, SetUp, Recording
<1>8. HoldsSound'
  <2>1. Kept' = Kept /\ Saved' = Saved /\ \A o : RootOf(o)' = RootOf(o)
    BY <1>0, <1>2, <1>3, SameHeapKeeps DEF RootOf
  <2>2. SetUp' = SetUp /\ Recording' = Recording /\ \A n : Untouched(n)' = Untouched(n)
    BY <1>0, <2>1 DEF SetUp, Recording, Untouched
  <2>3. frame # Null => frame \in Saved \ dead'
    BY <1>0, <1>1 DEF IInv, HoldsSound, TypeOK
  <2>. QED BY <1>0, <2>1, <2>2, <2>3 DEF IInv, HoldsSound
<1>9. StitchSound'
  BY <1>0 DEF IInv, StitchSound
<1>. QED BY <1>2, <1>4, <1>5, <1>6, <1>7, <1>8, <1>9 DEF IInv

-----------------------------------------------------------------------------
(* Flushing *)

LEMMA ReachNone ==
  ASSUME NEW N
  PROVE  Reach({}, N) = {}
<1>. SUFFICES ASSUME NEW y \in Reach({}, N) PROVE FALSE
  OBVIOUS
<1>1. {} \in SUBSET DOMAIN N /\ {} \subseteq {} /\ \A x \in {} : N[x] \subseteq {}
  OBVIOUS
<1>2. \A S \in SUBSET DOMAIN N : {} \subseteq S /\ (\A x \in S : N[x] \subseteq S) => y \in S
  BY Zenon DEF Reach
<1>. QED BY <1>1, <1>2, Zenon

LEMMA FlushallIs ==
  ASSUME IInv, Flushall, patch = NoPC, patch' = NoPC, UNCHANGED <<prog, dead>>
  PROVE  /\ op' \in [Pc -> {"LOOP", "ILOOP"}] /\ pttrace' = [p \in Proto |-> 0]
         /\ tr' \in [Obj -> TraceType] /\ cur' \in TraceType
         /\ trace' \in [TraceNo -> Obj \cup {Null, Cur}] /\ freetrace' = 0
         /\ penalty' \in [Loop -> 0 .. MaxPenalty] /\ UNCHANGED <<jd, nojit>>
         /\ \A n \in TraceNo : trace'[n] = Null
         /\ cur'.no = 0 /\ cur'.kind = cur.kind /\ cur'.startpc = cur.startpc /\ cur'.root = cur.root
         /\ cur'.nextroot = cur.nextroot /\ cur'.nextside = cur.nextside /\ cur'.jump = cur.jump
         /\ cur'.side = cur.side /\ cur'.stitch = cur.stitch /\ cur'.link \in {0, cur.link}
         /\ \A o \in Obj : /\ tr'[o].no = 0 /\ tr'[o].kind = tr[o].kind /\ tr'[o].stitch = tr[o].stitch
                           /\ tr'[o].link \in {0, tr[o].link} /\ (tr[o].no # 0 => tr'[o].link = 0)
         /\ Saved' = Saved /\ Kept' = {}
         /\ Named' /\ Shapes' /\ ChainsSound' /\ KeptSound' /\ FreeNumbersFound' /\ CurOnce'
<1>. DEFINE all == {n \in TraceNo \ {0} : trace[n] # Null}
<1>0. /\ op' = Unpatched({n \in all : Traceref(n).root = 0})
      /\ pttrace' = [p \in Proto |-> 0]
      /\ tr' = [o \in Obj |-> IF \E n \in all : trace[n] = o
                               THEN [tr[o] EXCEPT !.no = 0, !.link = 0, !.nextroot = 0]
                               ELSE tr[o]]
      /\ cur' = [cur EXCEPT !.no = 0, !.link = IF \E n \in all : trace[n] = Cur THEN 0 ELSE @]
      /\ trace' = [n \in TraceNo |-> IF n = 0 THEN trace[0] ELSE Null]
      /\ freetrace' = 0 /\ penalty' = [pc \in Loop |-> 0]
      /\ UNCHANGED <<jd, nojit>>
  BY DEF Flushall
<1>1. /\ cur \in TraceType /\ 0 \in TraceNo /\ trace[0] = Null /\ NoPC \notin Pc /\ Null \notin Obj
      /\ \A o \in Obj : tr[o] \in TraceType
      /\ op \in [Pc -> {"LOOP", "JLOOP", "ILOOP"}] /\ MaxTrace \in Nat /\ MaxPenalty \in Nat
  BY Sorts DEF IInv, TypeOK, TraceNo, Named
<1>2. op' \in [Pc -> {"LOOP", "ILOOP"}]
  <2>1. ASSUME NEW pc \in Pc, op[pc] = "JLOOP"
        PROVE  \E n \in {n \in all : Traceref(n).root = 0} : Traceref(n).startpc = pc
    <3>1. /\ jd[pc] \in TraceNo \ {0} /\ trace[jd[pc]] \in Obj /\ tr[trace[jd[pc]]].root = 0
          /\ tr[trace[jd[pc]]].startpc = pc
      BY <2>1, JloopKept
    <3>2. Traceref(jd[pc]) = tr[trace[jd[pc]]]
      BY <3>1, TracerefIs DEF IInv
    <3>. QED BY <1>1, <3>1, <3>2
  <2>. HIDE DEF all
  <2>2. op' = [pc \in Pc |-> IF op[pc] = "JLOOP" THEN "LOOP" ELSE op[pc]]
    BY <1>0, <2>1 DEF Unpatched
  <2>. QED BY <1>1, <2>2
<1>3. /\ cur'.no = 0 /\ cur'.kind = cur.kind /\ cur'.startpc = cur.startpc /\ cur'.root = cur.root
      /\ cur'.nextroot = cur.nextroot /\ cur'.nextside = cur.nextside /\ cur'.jump = cur.jump
      /\ cur'.side = cur.side /\ cur'.stitch = cur.stitch /\ cur'.link \in {0, cur.link}
      /\ cur' \in TraceType
  <2>. HIDE DEF all
  <2>. QED BY <1>0, <1>1 DEF TraceType
<1>4. ASSUME NEW o \in Obj
      PROVE  /\ tr'[o].no = 0 /\ tr'[o].kind = tr[o].kind /\ tr'[o].stitch = tr[o].stitch
             /\ tr'[o].root = tr[o].root /\ tr'[o].startpc = tr[o].startpc
             /\ tr'[o].link \in {0, tr[o].link} /\ (tr[o].no # 0 => tr'[o].link = 0)
             /\ tr'[o] \in TraceType /\ (tr[o].kind = "none" => tr'[o] = NoTrace)
  <2>1. CASE tr[o].no # 0
    <3>1. o \in Saved /\ tr[o].no \in all /\ trace[tr[o].no] = o
      BY <1>1, <1>4, <2>1 DEF IInv, Named, TraceType
    <3>2. tr'[o] = [tr[o] EXCEPT !.no = 0, !.link = 0, !.nextroot = 0]
      BY <1>0, <3>1, Zenon
    <3>. QED BY <1>1, <3>1, <3>2 DEF TraceType, Saved
  <2>2. CASE tr[o].no = 0
    <3>1. ~(\E n \in all : trace[n] = o)
      BY <1>1, <2>2 DEF IInv, Named
    <3>2. tr'[o] = tr[o]
      BY <1>0, <3>1, Zenon
    <3>. QED BY <1>1, <2>2, <3>2 DEF IInv, Named
  <2>. QED BY <2>1, <2>2
<1>5. tr' \in [Obj -> TraceType] /\ Saved' = Saved
  <2>1. tr' = [o \in Obj |-> tr'[o]]
    BY <1>0, Zenon
  <2>2. Saved' = Saved
    BY <1>4 DEF Saved
  <2>. QED BY <1>4, <2>1, <2>2
<1>. HIDE DEF all
<1>6. \A n \in TraceNo : trace'[n] = Null
  BY <1>0, <1>1
<1>7. trace' \in [TraceNo -> Obj \cup {Null, Cur}] /\ penalty' \in [Loop -> 0 .. MaxPenalty]
  <2>1. \A n \in TraceNo : (IF n = 0 THEN trace[0] ELSE Null) \in Obj \cup {Null, Cur}
    BY <1>1
  <2>2. 0 \in 0 .. MaxPenalty
    BY <1>1
  <2>3. trace' = [n \in TraceNo |-> IF n = 0 THEN trace[0] ELSE Null] /\ penalty' = [pc \in Loop |-> 0]
    BY <1>0
  <2>. QED BY <2>1, <2>2, <2>3
<1>8. \A p \in Proto : Chain(p)' = {}
  <2>. SUFFICES ASSUME NEW p \in Proto PROVE Chain(p)' = {}
    OBVIOUS
  <2>1. {pttrace'[p]} \ {0} = {}
    BY <1>0
  <2>2. Chain(p)' = Reach({}, Nextroots')
    BY <2>1 DEF Chain
  <2>. QED BY <2>2, ReachNone
<1>9. Kept' = {}
  <2>1. Heads' = {}
    BY <1>0 DEF Heads
  <2>. QED BY <2>1, ReachNone DEF Kept
<1>10. Named'
  BY <1>1, <1>4, <1>5, <1>6 DEF IInv, Named
<1>11. Shapes'
  BY <1>4, <1>5 DEF IInv, Shapes, Saved
<1>12. ChainsSound'
  <2>1. \A pc \in Pc : op'[pc] # "JLOOP" /\ pc # patch'
    BY <1>1, <1>2
  <2>. QED BY <1>8, <2>1 DEF ChainsSound
<1>13. KeptSound'
  BY <1>9 DEF KeptSound
<1>14. FreeNumbersFound' /\ CurOnce'
  <2>1. \A n \in TraceNo \ {0} : ~(n < freetrace')
    <3>1. freetrace' = 0
      BY <1>0
    <3>. QED BY <1>1, <3>1 DEF TraceNo
  <2>2. \A n \in TraceNo \ {0} : trace'[n] # Cur
    BY <1>6, Sorts
  <2>. QED BY <2>1, <2>2 DEF FreeNumbersFound, CurOnce
<1>. QED BY <1>0, <1>2, <1>3, <1>4, <1>5, <1>6, <1>7, <1>9, <1>10, <1>11, <1>12, <1>13, <1>14

\* a trace on the stack is not linked any more
LEMMA FlushallFrame ==
  ASSUME IInv, Flushall, patch = NoPC, patch' = NoPC, UNCHANGED <<prog, dead, frame>>
  PROVE  frame' # Null => frame' \in Saved' \ dead' /\ tr'[frame'].no = 0 /\ tr'[frame'].link = 0
<1>. SUFFICES ASSUME frame # Null PROVE frame \in Saved' \ dead /\ tr'[frame].no = 0 /\ tr'[frame].link = 0
  OBVIOUS
<1>1. frame \in Obj /\ frame \in Saved \ dead /\ (frame \in Kept \/ (tr[frame].no = 0 /\ tr[frame].link = 0))
  BY DEF IInv, TypeOK, HoldsSound
<1>2. /\ tr'[frame].no = 0 /\ tr'[frame].link \in {0, tr[frame].link}
      /\ (tr[frame].no # 0 => tr'[frame].link = 0) /\ Saved' = Saved
  BY <1>1, FlushallIs
<1>. QED BY <1>1, <1>2, KeptObj

LEMMA StartFlushStep ==
  ASSUME IInv, NEW p \in Proto, trace_start(p), ~nojit[p], FreeNo = 0, UNCHANGED prog
  PROVE  IInv'
<1>0. /\ state = "start" /\ event = "none"
      /\ \/ jpc \in Ret /\ state' = "err" /\ err' = "other"
         \/ jpc \notin Ret /\ state' = "idle" /\ UNCHANGED err
      /\ Flushall
      /\ UNCHANGED <<bcskip, event, parent, exitno, jpc, patch, tno, at, frame, restart, ip, dead, from, asked>>
  BY DEF trace_start, trace_start_fails, runvars
<1>1. /\ jpc \in Ret => parent = 0 /\ exitno = 0
      /\ cur.no = 0 /\ at = Null /\ patch = NoPC /\ ~asked
  BY <1>0, Sorts DEF IInv, TypeOK, RecorderSound, PhasesSound, Pc
<1>2. /\ op' \in [Pc -> {"LOOP", "ILOOP"}] /\ pttrace' = [q \in Proto |-> 0]
      /\ tr' \in [Obj -> TraceType] /\ cur' \in TraceType
      /\ trace' \in [TraceNo -> Obj \cup {Null, Cur}] /\ freetrace' = 0
      /\ penalty' \in [Loop -> 0 .. MaxPenalty] /\ UNCHANGED <<jd, nojit>>
      /\ \A n \in TraceNo : trace'[n] = Null
      /\ cur'.no = 0 /\ cur'.kind = cur.kind /\ cur'.startpc = cur.startpc /\ cur'.root = cur.root
      /\ cur'.nextroot = cur.nextroot /\ cur'.nextside = cur.nextside /\ cur'.jump = cur.jump
      /\ cur'.side = cur.side /\ cur'.stitch = cur.stitch
      /\ \A o \in Obj : tr'[o].stitch = tr[o].stitch
      /\ Saved' = Saved /\ Kept' = {}
      /\ Named' /\ Shapes' /\ ChainsSound' /\ KeptSound' /\ FreeNumbersFound' /\ CurOnce'
  BY <1>0, <1>1, FlushallIs
<1>3. TypeOK'
  <2>1. state' \in States /\ err' \in {err, "other"}
    BY <1>0 DEF States
  <2>2. 0 \in TraceNo /\ 0 \in 0 .. MaxTrace + 1
    BY Sorts DEF TraceNo
  <2>. QED BY <1>0, <1>2, <2>1, <2>2 DEF IInv, TypeOK
<1>4. PhasesSound'
  BY <1>0, <1>1 DEF IInv, PhasesSound
<1>5. RecorderSound'
  BY <1>0, <1>1, <1>2 DEF IInv, RecorderSound, SetUp, Recording
<1>6. HoldsSound'
  BY <1>0, <1>1, <1>2, FlushallFrame DEF HoldsSound, SetUp, Recording
<1>7. StitchSound'
  BY <1>0, <1>2 DEF IInv, StitchSound
<1>. QED BY <1>2, <1>3, <1>4, <1>5, <1>6, <1>7 DEF IInv

\* the machine code areas are exhausted
LEMMA AbortFlushStep ==
  ASSUME IInv, trace_abort_end, err = "MCODEAL", UNCHANGED prog
  PROVE  IInv'
<1>0. /\ event \in {"abort", "dropped"} /\ event' = "none" /\ asked' = FALSE /\ state' = "idle"
      /\ Flushall
      /\ UNCHANGED <<parent, exitno, jpc, err, patch, bcskip, tno, at, frame, restart, ip, dead, from>>
  BY DEF trace_abort_end, runvars
<1>1. at = Null /\ patch = NoPC
  BY <1>0 DEF IInv, PhasesSound
<1>2. /\ op' \in [Pc -> {"LOOP", "ILOOP"}] /\ pttrace' = [q \in Proto |-> 0]
      /\ tr' \in [Obj -> TraceType] /\ cur' \in TraceType
      /\ trace' \in [TraceNo -> Obj \cup {Null, Cur}] /\ freetrace' = 0
      /\ penalty' \in [Loop -> 0 .. MaxPenalty] /\ UNCHANGED <<jd, nojit>>
      /\ \A n \in TraceNo : trace'[n] = Null
      /\ cur'.no = 0 /\ cur'.kind = cur.kind /\ cur'.startpc = cur.startpc /\ cur'.root = cur.root
      /\ cur'.nextroot = cur.nextroot /\ cur'.nextside = cur.nextside /\ cur'.jump = cur.jump
      /\ cur'.side = cur.side /\ cur'.stitch = cur.stitch
      /\ \A o \in Obj : tr'[o].stitch = tr[o].stitch
      /\ Saved' = Saved /\ Kept' = {}
      /\ Named' /\ Shapes' /\ ChainsSound' /\ KeptSound' /\ FreeNumbersFound' /\ CurOnce'
  BY <1>0, <1>1, FlushallIs
<1>3. TypeOK'
  <2>1. state' \in States /\ err' \in {err, "other"}
    BY <1>0 DEF States
  <2>2. 0 \in TraceNo /\ 0 \in 0 .. MaxTrace + 1
    BY Sorts DEF TraceNo
  <2>. QED BY <1>0, <1>2, <2>1, <2>2 DEF IInv, TypeOK
<1>4. PhasesSound'
  BY <1>0, <1>1 DEF IInv, PhasesSound
<1>5. RecorderSound'
  BY <1>0, <1>1, <1>2 DEF IInv, RecorderSound, SetUp, Recording
<1>6. HoldsSound'
  BY <1>0, <1>1, <1>2, FlushallFrame DEF HoldsSound, SetUp, Recording
<1>7. StitchSound'
  BY <1>0, <1>2 DEF IInv, StitchSound
<1>. QED BY <1>2, <1>3, <1>4, <1>5, <1>6, <1>7 DEF IInv

LEMMA SetmodeFlushallStep ==
  ASSUME IInv, luaJIT_setmode_flushall, UNCHANGED prog, Tame(prog)
  PROVE  IInv'
<1>0. Calls /\ AskAbort /\ Flushall /\ UNCHANGED modevars
  BY DEF luaJIT_setmode_flushall
<1>1. patch = NoPC /\ patch' = NoPC /\ UNCHANGED dead
  BY <1>0, CallsAre DEF modevars
<1>2. /\ op' \in [Pc -> {"LOOP", "ILOOP"}] /\ pttrace' = [q \in Proto |-> 0]
      /\ tr' \in [Obj -> TraceType] /\ cur' \in TraceType
      /\ trace' \in [TraceNo -> Obj \cup {Null, Cur}] /\ freetrace' = 0
      /\ penalty' \in [Loop -> 0 .. MaxPenalty] /\ UNCHANGED <<jd, nojit>>
      /\ \A n \in TraceNo : trace'[n] = Null
      /\ cur'.no = 0 /\ cur'.kind = cur.kind /\ cur'.startpc = cur.startpc /\ cur'.root = cur.root
      /\ cur'.nextroot = cur.nextroot /\ cur'.nextside = cur.nextside /\ cur'.jump = cur.jump
      /\ cur'.side = cur.side /\ cur'.stitch = cur.stitch
      /\ \A o \in Obj : tr'[o].stitch = tr[o].stitch
      /\ Named' /\ Shapes' /\ ChainsSound' /\ KeptSound' /\ FreeNumbersFound' /\ CurOnce'
  BY <1>0, <1>1, FlushallIs
<1>3. PhasesSound' /\ RecorderSound' /\ HoldsSound' /\ StitchSound' /\ state' \in States /\ asked' \in BOOLEAN
  <2>1. cur.nextroot = 0 /\ cur.nextside = 0 /\ cur.jump = Null /\ cur.side = Null
    BY DEF IInv, RecorderSound
  <2>. QED BY <1>0, <1>2, <2>1, AskedSound
<1>4. TypeOK'
  BY <1>0, <1>2, <1>3, Sorts DEF IInv, TypeOK, TraceNo, modevars, runvars
<1>. QED BY <1>2, <1>3, <1>4 DEF IInv

\* A flushed prototype keeps nothing.
LEMMA OffStep ==
  ASSUME IInv, NEW p \in Proto, NEW flush \in BOOLEAN, setptmode_off(p, flush), UNCHANGED prog, Tame(prog)
  PROVE  IInv'
<1>0. /\ Calls /\ AskAbort
      /\ nojit' = [nojit EXCEPT ![p] = @ \/ ~flush]
      /\ op' = Unpatched(Chain(p)) /\ pttrace' = [pttrace EXCEPT ![p] = 0]
      /\ UNCHANGED <<cur, trace, freetrace, penalty, jd, tr>> /\ UNCHANGED modevars
  BY DEF setptmode_off
<1>1. PhasesSound' /\ RecorderSound' /\ HoldsSound' /\ StitchSound' /\ state' \in States /\ asked' \in BOOLEAN
  BY <1>0, AskedSound DEF IInv, RecorderSound
<1>2. patch = NoPC /\ patch' = NoPC /\ UNCHANGED dead /\ NoPC \notin Pc
  BY <1>0, CallsAre, Sorts DEF modevars
<1>3. TypeOK'
  <2>1. op' \in [Pc -> {"LOOP", "JLOOP", "ILOOP"}]
    BY <1>0 DEF Unpatched, IInv, TypeOK
  <2>2. pttrace' \in [Proto -> TraceNo]
    BY <1>0, Sorts DEF IInv, TypeOK, TraceNo
  <2>3. nojit' \in [Proto -> BOOLEAN]
    <3>1. nojit \in [Proto -> BOOLEAN]
      BY DEF IInv, TypeOK
    <3>2. \A x, y \in BOOLEAN : (x \/ ~y) \in BOOLEAN
      OBVIOUS
    <3>. QED BY <1>0, <3>1, <3>2, Zenon
  <2>. QED BY <1>0, <1>1, <2>1, <2>2, <2>3 DEF IInv, TypeOK, modevars, runvars
<1>4. Nextroots' = Nextroots /\ MarkLinks' = MarkLinks /\ SideLinks' = SideLinks /\ Saved' = Saved
  BY <1>0 DEF Nextroots, Traceref, MarkLinks, Marks, SideLinks, Saved
<1>5. \A q \in Proto : Chain(q)' = IF q = p THEN {} ELSE Chain(q)
  <2>. SUFFICES ASSUME NEW q \in Proto PROVE Chain(q)' = IF q = p THEN {} ELSE Chain(q)
    OBVIOUS
  <2>1. CASE q = p
    <3>1. {pttrace'[q]} \ {0} = {}
      BY <1>0, <2>1 DEF IInv, TypeOK
    <3>2. Chain(q)' = Reach({}, Nextroots')
      BY <3>1 DEF Chain
    <3>. QED BY <2>1, <3>2, ReachNone
  <2>2. CASE q # p
    <3>1. pttrace'[q] = pttrace[q]
      BY <1>0, <2>2 DEF IInv, TypeOK
    <3>. QED BY <1>4, <2>2, <3>1 DEF Chain
  <2>. QED BY <2>1, <2>2
<1>6. ChainsSound'
  <2>1. ASSUME NEW pc \in Pc, op'[pc] = "JLOOP" PROVE op[pc] = "JLOOP" /\ ProtoOf[pc] # p
    <3>1. op[pc] = "JLOOP" /\ ~(\E n \in Chain(p) : Traceref(n).startpc = pc)
      BY <1>0, <2>1 DEF Unpatched
    <3>2. /\ jd[pc] \in Chain(ProtoOf[pc]) /\ jd[pc] \in TraceNo /\ trace[jd[pc]] \in Obj
          /\ tr[trace[jd[pc]]].startpc = pc
      BY <3>1, JloopKept
    <3>3. Traceref(jd[pc]).startpc = pc
      BY <3>2, TracerefIs DEF IInv
    <3>. QED BY <3>1, <3>2, <3>3
  <2>2. \A pc \in Pc : ProtoOf[pc] \in Proto
    BY Sorts
  <2>. QED BY <1>0, <1>2, <1>5, <2>1, <2>2 DEF IInv, ChainsSound
<1>7. Kept' \subseteq Kept
  <2>1. Heads' \subseteq Heads
    BY <1>0 DEF Heads, IInv, TypeOK
  <2>2. Heads \subseteq Obj /\ MarkLinks \in [Obj -> SUBSET Obj]
    BY HeadsObj, LinkTypes DEF IInv
  <2>. HIDE DEF Heads, MarkLinks
  <2>3. Heads' \subseteq Kept /\ Kept \subseteq Obj /\ \A o \in Kept : MarkLinks[o] \subseteq Kept
    BY <2>1, <2>2, ReachIs DEF Kept
  <2>. QED BY <1>4, <2>2, <2>3, ReachLeast DEF Kept
<1>8. KeptSound'
  <2>1. \A o : SideList(o)' = SideList(o) /\ RootOf(o)' = RootOf(o)
    BY <1>0, <1>4 DEF SideList, RootOf
  <2>2. \A o : LinkSound(o)' <=> LinkSound(o)
    BY <1>0, <2>1 DEF LinkSound
  <2>. QED BY <1>0, <1>2, <1>7, <2>2 DEF IInv, KeptSound
<1>9. Named' /\ Shapes' /\ FreeNumbersFound' /\ CurOnce'
  BY <1>0, <1>2, <1>4, Prog DEF IInv, Named, Shapes, FreeNumbersFound, CurOnce, Saved
<1>. QED BY <1>1, <1>3, <1>6, <1>8, <1>9 DEF IInv

\* Whatever leads to a flushed root trace leads to its successor instead.
LEMMA FlushLinks ==
  ASSUME IInv, NEW n \in TraceNo \ {0}, trace[n] \in Obj,
         UNCHANGED <<trace, cur>>, pttrace' \in [Proto -> TraceNo], TypeOK',
         pttrace' = [p \in Proto |-> IF pttrace[p] = n THEN tr[trace[n]].nextroot ELSE pttrace[p]],
         tr' = [o \in Obj |->
                  IF tr[o].nextroot = n /\ \E m \in TraceNo : trace[m] = o /\ Chained(m)
                  THEN [tr[o] EXCEPT !.nextroot = tr[trace[n]].nextroot] ELSE tr[o]]
  PROVE  \A p \in Proto : Chain(p)' \subseteq Chain(p) /\ Chain(p) \ {n} \subseteq Chain(p)'
<1>. SUFFICES ASSUME NEW p \in Proto
              PROVE  Chain(p)' \subseteq Chain(p) /\ Chain(p) \ {n} \subseteq Chain(p)'
  OBVIOUS
<1>. DEFINE y == tr[trace[n]].nextroot
            X == {pttrace[p]} \ {0}
            Y == {pttrace'[p]} \ {0}
            U == TraceNo \ {0}
            C == Chain(p)
            D == Chain(p)'
            N == Nextroots
            M == Nextroots'
<1>0. TypeOK /\ cur.nextroot = 0 /\ tr[trace[n]] \in TraceType /\ y \in TraceNo
  BY DEF IInv, RecorderSound, TypeOK, TraceType
<1>1. /\ N \in [U -> SUBSET U] /\ M \in [U -> SUBSET U] /\ X \in SUBSET U /\ Y \in SUBSET U
      /\ C = Reach(X, N) /\ D = Reach(Y, M)
  <2>1. N \in [U -> SUBSET U]
    BY <1>0, LinkTypes
  <2>2. M \in [U -> SUBSET U]
    <3>1. M = [m \in U |-> M[m]]
      BY DEF Nextroots
    <3>2. ASSUME NEW m \in U PROVE M[m] \subseteq U
      <4>1. M[m] = {Traceref(m)'.nextroot} \ {0}
        BY DEF Nextroots
      <4>2. Traceref(m)' \in TraceType
        <5>1. NoTrace \in TraceType
          BY Sorts DEF NoTrace, TraceType, TraceNo
        <5>2. /\ trace'[m] \in Obj \cup {Null, Cur} /\ cur' \in TraceType
              /\ tr' \in [Obj -> TraceType] /\ {Null, Cur} \cap Obj = {} /\ Null # Cur
          BY Sorts DEF TypeOK
        <5>. QED BY <5>1, <5>2 DEF Traceref
      <4>. QED BY <4>1, <4>2 DEF TraceType
    <3>. QED BY <3>1, <3>2
  <2>3. X \in SUBSET U /\ Y \in SUBSET U
    BY <1>0 DEF TypeOK
  <2>. QED BY <2>1, <2>2, <2>3 DEF Chain
<1>2. \A m \in U : N[m] = IF trace[m] \in Obj THEN {tr[trace[m]].nextroot} \ {0} ELSE {}
  BY <1>0, NextrootsAre
<1>3. \A m \in U : M[m] = IF trace[m] \in Obj THEN {tr'[trace[m]].nextroot} \ {0} ELSE {}
  <2>. SUFFICES ASSUME NEW m \in U
                PROVE  M[m] = IF trace[m] \in Obj THEN {tr'[trace[m]].nextroot} \ {0} ELSE {}
    OBVIOUS
  <2>1. M[m] = {Traceref(m)'.nextroot} \ {0}
    BY DEF Nextroots
  <2>2. trace[m] \in Obj \cup {Null, Cur}
    BY <1>0 DEF TypeOK
  <2>3. CASE trace[m] = Cur
    BY <1>0, <2>1, <2>3, Sorts DEF Traceref
  <2>4. CASE trace[m] = Null
    BY <2>1, <2>4, Sorts DEF Traceref, NoTrace
  <2>5. CASE trace[m] \in Obj
    <3>1. Traceref(m)' = tr'[trace[m]]
      BY <2>5, Sorts DEF Traceref
    <3>. QED BY <2>1, <2>5, <3>1
  <2>. QED BY <2>2, <2>3, <2>4, <2>5
<1>4. /\ N[n] = {y} \ {0} /\ n \in U
      /\ X = {n} => Y = N[n]
      /\ X # {n} => Y = X
  <2>1. N[n] = {y} \ {0} /\ n \in U
    BY <1>2
  <2>2. CASE pttrace[p] = n
    BY <2>1, <2>2
  <2>3. CASE pttrace[p] # n
    BY <2>1, <2>3
  <2>. QED BY <2>2, <2>3, <2>1
<1>5. ASSUME NEW m \in C PROVE m \in U /\ trace[m] \in Obj /\ (N[m] = {n} => M[m] = N[n]) /\ (N[m] # {n} => M[m] = N[m])
  <2>1. m \in U /\ trace[m] \in Obj /\ Chained(m)
    BY <1>0, <1>5, ChainIs DEF IInv, ChainsSound, Chained
  <2>2. N[m] = {tr[trace[m]].nextroot} \ {0} /\ M[m] = {tr'[trace[m]].nextroot} \ {0}
    BY <1>2, <1>3, <2>1
  <2>3. tr[trace[m]] \in TraceType
    BY <1>0, <2>1 DEF TypeOK
  <2>4. CASE tr[trace[m]].nextroot = n
    <3>1. tr'[trace[m]] = [tr[trace[m]] EXCEPT !.nextroot = y]
      BY <2>1, <2>4
    <3>2. tr'[trace[m]].nextroot = y
      BY <2>3, <3>1 DEF TraceType
    <3>. QED BY <1>4, <2>1, <2>2, <2>4, <3>2
  <2>5. CASE tr[trace[m]].nextroot # n
    <3>1. tr'[trace[m]] = tr[trace[m]]
      BY <2>1, <2>5
    <3>2. N[m] # {n} /\ M[m] = N[m]
      BY <2>2, <2>5, <3>1
    <3>. QED BY <2>1, <3>2
  <2>. QED BY <2>4, <2>5
<1>6. \A m \in U : N[m] = {} \/ \E k \in U : N[m] = {k}
  <2>. SUFFICES ASSUME NEW m \in U, N[m] # {} PROVE \E k \in U : N[m] = {k}
    OBVIOUS
  <2>1. N[m] = {tr[trace[m]].nextroot} \ {0} /\ N[m] \subseteq U
    BY <1>1, <1>2
  <2>. QED BY <2>1
<1>7. X = {} \/ \E k \in U : X = {k}
  BY <1>1
<1>. HIDE DEF y, X, Y, U, C, D, N, M
<1>8. X \subseteq C /\ C \subseteq U /\ \A m \in C : N[m] \subseteq C
  BY <1>1, ReachIs
<1>9. Y \subseteq D /\ D \subseteq U /\ \A m \in D : M[m] \subseteq D
  BY <1>1, ReachIs
<1>10. D \subseteq C
  <2>1. Y \subseteq C
    BY <1>4, <1>8
  <2>2. \A m \in C : M[m] \subseteq C
    BY <1>5, <1>8
  <2>. QED BY <1>1, <1>8, <2>1, <2>2, ReachLeast
<1>11. C \ {n} \subseteq D
  <2>1. CASE X = {n} \/ \E m \in D : N[m] = {n}
    <3>1. N[n] \subseteq D
      BY <1>4, <1>5, <1>9, <1>10, <2>1
    <3>. DEFINE S == D \cup {n}
    <3>2. X \subseteq S /\ S \in SUBSET U
      BY <1>4, <1>9
    <3>3. \A m \in S : N[m] \subseteq S
      <4>. SUFFICES ASSUME NEW m \in D PROVE N[m] \subseteq S
        BY <3>1
      <4>. QED BY <1>5, <1>9, <1>10
    <3>. HIDE DEF S
    <3>4. C \subseteq S
      BY <1>1, <3>2, <3>3, ReachLeast
    <3>. QED BY <3>4 DEF S
  <2>2. CASE X # {n} /\ \A m \in D : N[m] # {n}
    <3>1. X \subseteq D
      BY <1>4, <1>9, <2>2
    <3>2. \A m \in D : N[m] \subseteq D
      BY <1>5, <1>9, <1>10, <2>2
    <3>. QED BY <1>1, <1>9, <3>1, <3>2, ReachLeast
  <2>. QED BY <2>1, <2>2
<1>. QED BY <1>10, <1>11 DEF C, D

LEMMA FlushStep ==
  ASSUME IInv, NEW n \in TraceNo \ {0}, lj_trace_flush(n), UNCHANGED prog, Tame(prog)
  PROVE  IInv'
<1>t. trace[n] \in Obj /\ Traceref(n) = tr[trace[n]] /\ tr[trace[n]].root = 0
  <2>1. trace[n] \in Obj /\ Traceref(n).root = 0
    BY DEF lj_trace_flush
  <2>. QED BY <2>1, TracerefIs DEF IInv
<1>0. /\ Calls /\ AskAbort
      /\ op' = Unpatched({n})
      /\ pttrace' = [p \in Proto |-> IF pttrace[p] = n THEN tr[trace[n]].nextroot ELSE pttrace[p]]
      /\ tr' = [o \in Obj |->
                  IF tr[o].nextroot = n /\ \E m \in TraceNo : trace[m] = o /\ Chained(m)
                  THEN [tr[o] EXCEPT !.nextroot = tr[trace[n]].nextroot] ELSE tr[o]]
      /\ UNCHANGED <<cur, trace, freetrace, penalty, jd, nojit>> /\ UNCHANGED modevars
  BY <1>t DEF lj_trace_flush
<1>a. /\ \A o \in Obj : tr[o] \in TraceType
      /\ patch = NoPC /\ patch' = NoPC /\ UNCHANGED dead /\ NoPC \notin Pc
  BY <1>0, CallsAre, Sorts DEF modevars, IInv, TypeOK
<1>b. ASSUME NEW o \in Obj
      PROVE  /\ tr'[o] \in TraceType /\ tr'[o].no = tr[o].no /\ tr'[o].kind = tr[o].kind
             /\ tr'[o].startpc = tr[o].startpc /\ tr'[o].root = tr[o].root /\ tr'[o].link = tr[o].link
             /\ tr'[o].nextside = tr[o].nextside /\ tr'[o].jump = tr[o].jump /\ tr'[o].side = tr[o].side
             /\ \/ tr'[o] = tr[o]
                \/ /\ tr[o].nextroot = n /\ (\E m \in TraceNo : trace[m] = o /\ Chained(m))
                   /\ tr'[o].nextroot = tr[trace[n]].nextroot
  <2>1. CASE tr[o].nextroot = n /\ \E m \in TraceNo : trace[m] = o /\ Chained(m)
    <3>1. tr'[o] = [tr[o] EXCEPT !.nextroot = tr[trace[n]].nextroot]
      BY <1>0, <2>1
    <3>2. tr[trace[n]].nextroot \in TraceNo
      BY <1>a, <1>t DEF TraceType
    <3>. QED BY <1>a, <2>1, <3>1, <3>2 DEF TraceType
  <2>2. CASE ~(tr[o].nextroot = n /\ \E m \in TraceNo : trace[m] = o /\ Chained(m))
    <3>1. tr'[o] = tr[o]
      BY <1>0, <2>2
    <3>. QED BY <1>a, <3>1
  <2>. QED BY <2>1, <2>2
<1>s. \A o \in Obj : tr'[o].stitch = tr[o].stitch
  <2>. SUFFICES ASSUME NEW o \in Obj PROVE tr'[o].stitch = tr[o].stitch
    OBVIOUS
  <2>1. tr'[o] = tr[o] \/ tr'[o] = [tr[o] EXCEPT !.nextroot = tr[trace[n]].nextroot]
    BY <1>0
  <2>2. "stitch" \in DOMAIN tr[o]
    BY <1>a DEF TraceType
  <2>. QED BY <2>1, <2>2, Zenon
<1>1. PhasesSound' /\ RecorderSound' /\ HoldsSound' /\ StitchSound' /\ state' \in States /\ asked' \in BOOLEAN
  BY <1>0, <1>s, AskedSound DEF IInv, RecorderSound
<1>2. TypeOK'
  <2>1. op' \in [Pc -> {"LOOP", "JLOOP", "ILOOP"}]
    BY <1>0 DEF Unpatched, IInv, TypeOK
  <2>2. pttrace' \in [Proto -> TraceNo]
    <3>1. tr[trace[n]].nextroot \in TraceNo
      BY <1>a, <1>t DEF TraceType
    <3>. QED BY <1>0, <3>1 DEF IInv, TypeOK
  <2>3. tr' \in [Obj -> TraceType]
    <3>1. tr' = [o \in Obj |-> tr'[o]]
      BY <1>0, Zenon
    <3>. QED BY <1>b, <3>1
  <2>4. /\ UNCHANGED <<cur, trace, freetrace, penalty, jd, nojit, parent, exitno, jpc, err, patch, bcskip,
                       event, tno, at, frame, restart, ip, dead, from>>
        /\ state' \in States /\ asked' \in BOOLEAN
    BY <1>0, <1>1 DEF modevars, runvars
  <2>. QED BY <2>1, <2>2, <2>3, <2>4 DEF IInv, TypeOK
<1>3. \A p \in Proto : Chain(p)' \subseteq Chain(p) /\ Chain(p) \ {n} \subseteq Chain(p)'
  BY <1>0, <1>2, <1>t, FlushLinks DEF TypeOK
<1>4. ChainsSound'
  <2>1. ASSUME NEW pc \in Pc, op'[pc] = "JLOOP" PROVE op[pc] = "JLOOP" /\ jd[pc] # n
    <3>1. op[pc] = "JLOOP" /\ ~(\E m \in {n} : Traceref(m).startpc = pc)
      BY <1>0, <2>1 DEF Unpatched
    <3>2. jd[pc] \in TraceNo /\ trace[jd[pc]] \in Obj /\ tr[trace[jd[pc]]].startpc = pc
      BY <3>1, JloopKept
    <3>. QED BY <1>t, <3>1, <3>2
  <2>2. \A pc \in Pc : ProtoOf[pc] \in Proto
    BY Sorts
  <2>3. ASSUME NEW p \in Proto, NEW m \in Chain(p)'
        PROVE  trace'[m] \in Obj /\ tr'[trace'[m]].kind \in {"LOOP", "RET"} /\ ProtoOf[tr'[trace'[m]].startpc] = p
    <3>1. m \in Chain(p)
      BY <1>3, <2>3
    <3>2. trace[m] \in Obj /\ tr[trace[m]].kind \in {"LOOP", "RET"} /\ ProtoOf[tr[trace[m]].startpc] = p
      BY <3>1 DEF IInv, ChainsSound
    <3>. QED BY <1>0, <1>b, <3>2
  <2>4. ASSUME NEW pc \in Pc, op'[pc] = "JLOOP"
        PROVE  jd'[pc] \in Chain(ProtoOf[pc])' /\ tr'[trace'[jd'[pc]]].startpc = pc
    <3>1. op[pc] = "JLOOP" /\ jd[pc] # n /\ jd[pc] \in Chain(ProtoOf[pc]) /\ trace[jd[pc]] \in Obj
          /\ tr[trace[jd[pc]]].startpc = pc
      BY <2>1, <2>4, JloopKept
    <3>2. jd[pc] \in Chain(ProtoOf[pc])'
      BY <1>3, <2>2, <3>1
    <3>. QED BY <1>0, <1>b, <3>1, <3>2
  <2>. QED BY <1>a, <2>3, <2>4 DEF ChainsSound
<1>5. ASSUME NEW o \in Obj, tr'[o].nextroot # tr[o].nextroot, tr'[o].nextroot # 0
      PROVE  /\ trace[tr'[o].nextroot] \in Kept /\ trace[tr'[o].nextroot] \in Obj
             /\ tr[trace[tr'[o].nextroot]].root = 0
  <2>1. PICK m \in TraceNo, p \in Proto : /\ trace[m] = o /\ m \in Chain(p) /\ tr[o].nextroot = n
                                          /\ tr'[o].nextroot = tr[trace[n]].nextroot
    BY <1>b, <1>5 DEF Chained
  <2>2. TypeOK /\ cur.nextroot = 0 /\ m # 0
    BY <1>5, <2>1, Sorts DEF IInv, RecorderSound, Named
  <2>3. n \in Chain(p)
    <3>1. Nextroots[m] = {n}
      BY <1>5, <2>1, <2>2, NextrootsAre
    <3>. QED BY <2>1, <2>2, <3>1, ChainIs
  <2>4. tr'[o].nextroot \in Chain(p)
    <3>1. Nextroots[n] = {tr'[o].nextroot}
      BY <1>5, <1>t, <2>1, <2>2, NextrootsAre
    <3>. QED BY <2>2, <2>3, <3>1, ChainIs
  <2>5. trace[tr'[o].nextroot] \in Kept
    BY <2>2, <2>4, ChainKept DEF IInv
  <2>6. trace[tr'[o].nextroot] \in Obj /\ tr[trace[tr'[o].nextroot]].kind \in {"LOOP", "RET"}
    BY <2>4 DEF IInv, ChainsSound
  <2>7. tr[trace[tr'[o].nextroot]].root = 0
    BY <2>6 DEF IInv, Shapes, Saved
  <2>. QED BY <2>5, <2>6, <2>7
<1>6. Kept' \subseteq Kept
  <2>0. TypeOK /\ Heads \subseteq Obj /\ cur.nextroot = 0 /\ Kept \subseteq Obj
    BY HeadsObj, KeptIs DEF IInv, RecorderSound
  <2>1. Heads' \subseteq Kept
    <3>. SUFFICES ASSUME NEW p \in Proto, pttrace'[p] # 0 PROVE trace[pttrace'[p]] \in Kept
      BY <1>0 DEF Heads
    <3>1. CASE pttrace[p] # n
      <4>1. trace[pttrace[p]] \in Heads /\ pttrace'[p] = pttrace[p]
        BY <1>0, <3>1 DEF Heads
      <4>. QED BY <2>0, <4>1, KeptIs
    <3>2. CASE pttrace[p] = n
      <4>1. n \in Chain(p)
        BY <2>0, <3>2, ChainIs
      <4>2. Nextroots[n] = {pttrace'[p]}
        BY <1>0, <1>t, <2>0, <3>2, NextrootsAre
      <4>3. pttrace'[p] \in Chain(p)
        BY <2>0, <4>1, <4>2, ChainIs
      <4>. QED BY <2>0, <4>3, ChainKept DEF IInv
    <3>. QED BY <3>1, <3>2
  <2>2. ASSUME NEW o \in Kept PROVE MarkLinks'[o] \subseteq Kept
    <3>. SUFFICES ASSUME NEW x \in MarkLinks'[o] PROVE x \in Kept
      OBVIOUS
    <3>1. o \in Obj /\ x \in Obj /\ tr[o].no # 0
      BY <2>0, <2>2, KeptObj DEF MarkLinks
    <3>2. PICK k \in {tr'[o].link, tr'[o].nextroot, tr'[o].nextside} \ {0} : x = trace[k]
      BY <1>0, <3>1 DEF MarkLinks, Marks
    <3>3. CASE k \in {tr[o].link, tr[o].nextroot, tr[o].nextside}
      BY <2>0, <2>2, <3>1, <3>2, <3>3, LinksKept DEF IInv
    <3>4. CASE k \notin {tr[o].link, tr[o].nextroot, tr[o].nextside}
      <4>1. k = tr'[o].nextroot /\ tr'[o].nextroot # tr[o].nextroot
        BY <1>b, <3>1, <3>2, <3>4
      <4>. QED BY <1>5, <3>1, <3>2, <4>1
    <3>. QED BY <3>3, <3>4
  <2>3. MarkLinks' \in [Obj -> SUBSET Obj]
    BY DEF MarkLinks
  <2>. QED BY <2>0, <2>1, <2>2, <2>3, ReachLeast DEF Kept
<1>7. KeptSound'
  <2>1. SideLinks' = SideLinks
    BY <1>0, <1>b DEF SideLinks
  <2>. SUFFICES ASSUME NEW o \in Kept PROVE o \notin dead' /\ tr'[o].no # 0 /\ LinkSound(o)'
    BY <1>6 DEF KeptSound
  <2>2. /\ o \in Obj /\ o \notin dead /\ tr[o].no # 0 /\ LinkSound(o) /\ RootOf(o) \in Obj
        /\ RootOf(o)' = RootOf(o)
    <3>1. o \in Obj /\ o \notin dead /\ tr[o].no # 0 /\ LinkSound(o) /\ RootOf(o) \in Kept
      BY Rooted DEF IInv, KeptSound
    <3>. QED BY <1>0, <1>b, <3>1, KeptObj DEF RootOf
  <2>3. \A k \in {tr'[o].link, tr'[o].nextroot} \ {0, tr'[o].no} : trace'[k] \in Obj /\ tr'[trace'[k]].root = 0
    BY <1>0, <1>b, <1>5, <2>2 DEF LinkSound
  <2>4. tr'[o].nextside # 0 => /\ trace'[tr'[o].nextside] \in Obj
                               /\ tr'[trace'[tr'[o].nextside]].root = tr'[RootOf(o)].no
    BY <1>0, <1>b, <2>2 DEF LinkSound
  <2>5. tr'[o].jump \in {Null, o} \/ (tr'[o].link # 0 /\ tr'[o].jump = trace'[tr'[o].link])
    BY <1>0, <1>b, <2>2 DEF LinkSound
  <2>6. tr'[o].side # Null => tr'[o].side \in SideList(RootOf(o))'
    BY <1>b, <2>1, <2>2 DEF LinkSound, SideList
  <2>. QED BY <1>0, <1>a, <1>b, <2>2, <2>3, <2>4, <2>5, <2>6 DEF LinkSound
<1>8. Saved' = Saved
  BY <1>b DEF Saved
<1>9. Named'
  <2>1. ASSUME NEW o \in Obj, tr'[o].kind = "none" PROVE tr'[o] = NoTrace
    <3>1. tr[o] = NoTrace
      BY <1>b, <2>1 DEF IInv, Named
    <3>2. tr[o].nextroot # n
      BY <3>1 DEF NoTrace
    <3>. QED BY <1>b, <3>1, <3>2
  <2>. QED BY <1>0, <1>a, <1>b, <1>8, <2>1 DEF IInv, Named
<1>10. Shapes'
  BY <1>8, <1>b DEF IInv, Shapes, Saved
<1>11. FreeNumbersFound' /\ CurOnce'
  BY <1>0 DEF IInv, FreeNumbersFound, CurOnce
<1>. QED BY <1>1, <1>2, <1>4, <1>7, <1>9, <1>10, <1>11 DEF IInv

-----------------------------------------------------------------------------
(* Aborting *)

\* The trace is assembled again.
LEMMA AbortAgainStep ==
  ASSUME IInv, trace_abort, state = "err", err = "MCODELM", UNCHANGED prog
  PROVE  IInv'
<1>0. /\ event = "none" /\ Pendpatch(TRUE) /\ UNCHANGED err /\ state' = "asm" /\ op' = Repatched(TRUE)
      /\ UNCHANGED <<cur, penalty, tr, event, tno, parent, exitno, jpc, trace, freetrace, jd, pttrace,
                     nojit, at, frame, restart, ip, dead, from, asked>>
  BY DEF trace_abort, runvars
<1>1. /\ op' \in [Pc -> {"LOOP", "JLOOP", "ILOOP"}] /\ bcskip' \in BOOLEAN /\ patch' = NoPC
      /\ \A pc \in Pc : op'[pc] = "JLOOP" \/ pc = patch' => op[pc] = "JLOOP" \/ pc = patch
  BY <1>0, PendpatchIs
<1>2. cur.no # 0 /\ at = Null
  BY <1>0 DEF IInv, RecorderSound, PhasesSound
<1>3. TypeOK'
  BY <1>0, <1>1 DEF IInv, TypeOK, States
<1>4. SameHeap
  BY <1>0 DEF SameHeap, IInv, RecorderSound
<1>5. Named' /\ Shapes' /\ ChainsSound' /\ KeptSound'
  BY <1>0, <1>1, <1>3, <1>4, SameHeapSound DEF IInv, KeptSound, Named
<1>6. FreeNumbersFound' /\ CurOnce'
  BY <1>0 DEF IInv, FreeNumbersFound, CurOnce
<1>7. PhasesSound'
  BY <1>0, <1>1, <1>2 DEF IInv, PhasesSound
<1>8. RecorderSound'
  BY <1>0, <1>2 DEF IInv, RecorderSound, SetUp, Recording
<1>9. HoldsSound'
  <2>1. Kept' = Kept /\ Saved' = Saved /\ \A o : RootOf(o)' = RootOf(o)
    BY <1>0, <1>3, <1>4, SameHeapKeeps DEF RootOf
  <2>2. SetUp' /\ SetUp /\ Recording' /\ Recording /\ \A n : Untouched(n)' = Untouched(n)
    BY <1>0, <1>2, <2>1 DEF SetUp, Recording, Untouched
  <2>. QED BY <1>0, <2>1, <2>2 DEF IInv, HoldsSound
<1>10. StitchSound'
  BY <1>0 DEF IInv, StitchSound
<1>. QED BY <1>3, <1>5, <1>6, <1>7, <1>8, <1>9, <1>10 DEF IInv

\* No loop is penalized more often than the program allows.
Penalized == penalty \in [Loop -> Nat] /\ \A pc \in Loop : penalty[pc] <= prog.penalties

\* what trace_abort does to the traces
SelfLinks(n) ==
  /\ n \in TraceNo \ {0} /\ Untouched(n)
  /\ tr' = [tr EXCEPT ![trace[n]].link = n]

\* A trace that is linked to itself keeps no other one.
LEMMA SelfLinkKeeps ==
  ASSUME IInv, NEW n, SelfLinks(n), UNCHANGED <<prog, trace, pttrace, dead, jd>>, cur'.nextroot = 0,
         \A pc \in Pc : op'[pc] = "JLOOP" \/ pc = patch' => (op[pc] = "JLOOP" \/ pc = patch),
         patch' # NoPC => patch' \in Ret
  PROVE  /\ Kept' = Kept /\ Saved' = Saved /\ Named' /\ Shapes' /\ ChainsSound' /\ KeptSound'
         /\ tr' \in [Obj -> TraceType] /\ \A o \in Obj : tr'[o].stitch = tr[o].stitch
         /\ \A o \in Obj \ Kept : tr'[o] = tr[o]
<1>. DEFINE u == trace[n]
<1>0. /\ n \in TraceNo \ {0} /\ u \in Kept /\ u \in Obj /\ u \in Saved /\ tr[u].no = n /\ tr[u].link = 0
      /\ \A o \in Obj : tr[o] \in TraceType
      /\ TypeOK /\ Heads \subseteq Obj /\ cur.nextroot = 0 /\ Kept \subseteq Obj
      /\ tr' = [tr EXCEPT ![u].link = n]
  BY KeptObj, HeadsObj, KeptIs DEF SelfLinks, Untouched, IInv, Named, TypeOK, RecorderSound
<1>1. \A o \in Obj \ {u} : tr'[o] = tr[o]
  BY <1>0 DEF TypeOK
<1>2. /\ tr'[u].link = n /\ tr'[u].no = n /\ tr'[u].kind = tr[u].kind /\ tr'[u].startpc = tr[u].startpc
      /\ tr'[u].root = tr[u].root /\ tr'[u].nextroot = tr[u].nextroot
      /\ tr'[u].nextside = tr[u].nextside /\ tr'[u].jump = tr[u].jump /\ tr'[u].side = tr[u].side
      /\ tr'[u] \in TraceType
  BY <1>0 DEF TypeOK, TraceType
<1>3. \A o \in Obj : tr'[o].stitch = tr[o].stitch
  <2>. SUFFICES ASSUME NEW o \in Obj PROVE tr'[o].stitch = tr[o].stitch
    OBVIOUS
  <2>1. tr \in [Obj -> TraceType]
    BY <1>0 DEF TypeOK
  <2>2. tr'[o] = tr[o] \/ tr'[o] = [tr[o] EXCEPT !.link = n]
    BY <1>0, <2>1
  <2>3. "stitch" \in DOMAIN tr[o]
    BY <1>0 DEF TraceType
  <2>. QED BY <2>2, <2>3, Zenon
<1>. HIDE DEF u
<1>4. tr' \in [Obj -> TraceType]
  <2>1. tr' = [o \in Obj |-> tr'[o]]
    BY <1>0, Zenon DEF TypeOK
  <2>. QED BY <1>0, <1>1, <1>2, <2>1
<1>5. Saved' = Saved /\ Shapes'
  <2>1. \A o \in Obj : tr'[o].kind = tr[o].kind /\ tr'[o].root = tr[o].root /\ tr'[o].startpc = tr[o].startpc
    BY <1>1, <1>2
  <2>. QED BY <2>1 DEF Saved, Shapes, IInv
<1>6. Named'
  BY <1>0, <1>1, <1>2, <1>5 DEF IInv, Named, Saved
<1>7. \A p : Chain(p)' = Chain(p)
  <2>1. \A m \in TraceNo \ {0} : Traceref(m)'.nextroot = Traceref(m).nextroot
    <3>. SUFFICES ASSUME NEW m \in TraceNo \ {0} PROVE Traceref(m)'.nextroot = Traceref(m).nextroot
      OBVIOUS
    <3>0. trace[m] \in Obj \cup {Null, Cur}
      BY <1>0 DEF TypeOK
    <3>1. CASE trace[m] \in Obj
      <4>1. Traceref(m) = tr[trace[m]] /\ Traceref(m)' = tr'[trace[m]]
        BY <3>1, Sorts DEF Traceref
      <4>. QED BY <1>1, <1>2, <3>1, <4>1
    <3>2. CASE trace[m] \notin Obj
      <4>1. CASE trace[m] = Cur
        BY <1>0, <4>1, Sorts DEF Traceref
      <4>2. CASE trace[m] = Null
        <5>1. Traceref(m)' = NoTrace /\ Traceref(m) = NoTrace
          BY <4>2, Sorts DEF Traceref
        <5>. QED BY <5>1
      <4>. QED BY <3>0, <3>2, <4>1, <4>2
    <3>. QED BY <3>1, <3>2
  <2>2. Nextroots' = Nextroots
    BY <2>1 DEF Nextroots
  <2>. QED BY <2>2 DEF Chain
<1>8. ChainsSound'
  <2>1. \A p \in Proto : \A m \in Chain(p) :
          trace[m] \in Obj /\ tr'[trace[m]].kind = tr[trace[m]].kind
            /\ tr'[trace[m]].startpc = tr[trace[m]].startpc
    BY <1>1, <1>2 DEF IInv, ChainsSound
  <2>2. \A pc \in Pc : ProtoOf[pc] \in Proto
    BY Sorts
  <2>. QED BY <1>7, <2>1, <2>2 DEF IInv, ChainsSound
<1>9. Kept' = Kept
  <2>1. Heads' = Heads
    BY DEF Heads
  <2>2. MarkLinks \in [Obj -> SUBSET Obj] /\ MarkLinks' \in [Obj -> SUBSET Obj]
    BY <1>0, LinkTypes DEF MarkLinks
  <2>3. \A o \in Obj \ {u} : MarkLinks'[o] = MarkLinks[o]
    BY <1>1 DEF MarkLinks, Marks
  <2>4. MarkLinks'[u] = MarkLinks[u] \cup {u}
    BY <1>0, <1>2, Sorts DEF MarkLinks, Marks, u
  <2>5. Heads \subseteq Kept /\ \A o \in Kept : MarkLinks'[o] \subseteq Kept
    BY <1>0, <2>3, <2>4, KeptIs
  <2>6. Kept' \subseteq Kept
    <3>. HIDE DEF Heads, MarkLinks
    <3>. QED BY <1>0, <2>1, <2>2, <2>5, ReachLeast DEF Kept
  <2>7. Kept' \subseteq Obj /\ Heads \subseteq Kept' /\ \A o \in Kept' : MarkLinks'[o] \subseteq Kept'
    <3>. HIDE DEF Heads, MarkLinks
    <3>. QED BY <1>0, <2>1, <2>2, ReachIs DEF Kept
  <2>8. \A o \in Kept' : MarkLinks[o] \subseteq Kept'
    BY <2>3, <2>4, <2>7
  <2>9. Kept \subseteq Kept'
    <3>. HIDE DEF Heads, MarkLinks
    <3>. QED BY <1>0, <2>2, <2>7, <2>8, ReachLeast DEF Kept
  <2>. QED BY <2>6, <2>9
<1>10. KeptSound'
  <2>. SUFFICES ASSUME NEW o \in Kept PROVE o \notin dead' /\ tr'[o].no # 0 /\ LinkSound(o)'
    BY <1>9 DEF KeptSound
  <2>1. SideLinks' = SideLinks
    BY <1>1, <1>2 DEF SideLinks
  <2>2. /\ o \in Obj /\ o \notin dead /\ tr[o].no # 0 /\ LinkSound(o) /\ RootOf(o) \in Obj
        /\ RootOf(o)' = RootOf(o)
    <3>1. o \in Obj /\ o \notin dead /\ tr[o].no # 0 /\ LinkSound(o) /\ RootOf(o) \in Kept
      BY Rooted DEF IInv, KeptSound
    <3>. QED BY <1>1, <1>2, <3>1, KeptObj DEF RootOf
  <2>3. ASSUME NEW k \in {tr'[o].link, tr'[o].nextroot} \ {0, tr'[o].no}
        PROVE  trace'[k] \in Obj /\ tr'[trace'[k]].root = 0
    <3>1. k \in {tr[o].link, tr[o].nextroot} \ {0, tr[o].no}
      BY <1>0, <1>1, <1>2, <2>2, <2>3
    <3>2. trace[k] \in Obj /\ tr[trace[k]].root = 0
      BY <2>2, <3>1 DEF LinkSound
    <3>. QED BY <1>1, <1>2, <3>2
  <2>4. tr'[o].nextside # 0 => /\ trace'[tr'[o].nextside] \in Obj
                               /\ tr'[trace'[tr'[o].nextside]].root = tr'[RootOf(o)].no
    BY <1>0, <1>1, <1>2, <2>2 DEF LinkSound
  <2>5. tr'[o].jump \in {Null, o} \/ (tr'[o].link # 0 /\ tr'[o].jump = trace'[tr'[o].link])
    BY <1>0, <1>1, <1>2, <2>2 DEF LinkSound
  <2>6. tr'[o].side # Null => tr'[o].side \in SideList(RootOf(o))'
    BY <1>1, <1>2, <2>1, <2>2 DEF LinkSound, SideList
  <2>7. tr'[o].no # 0
    BY <1>0, <1>1, <1>2, <2>2
  <2>. QED BY <2>2, <2>3, <2>4, <2>5, <2>6, <2>7 DEF LinkSound
<1>. QED BY <1>0, <1>1, <1>3, <1>4, <1>5, <1>6, <1>8, <1>9, <1>10

LEMMA AbortStep ==
  ASSUME IInv, Penalized, trace_abort, ~(state = "err" /\ err = "MCODELM"), UNCHANGED prog
  PROVE  IInv'
<1>0. /\ \/ state = "err" /\ event = "none" /\ err' = err
         \/ state = "aborted" /\ event = "none" /\ at = Null /\ err' = "other"
      /\ Pendpatch(TRUE)
      /\ op' = IF Blacklisted(err') THEN [Repatched(TRUE) EXCEPT ![cur.startpc] = "ILOOP"]
               ELSE Repatched(TRUE)
      /\ penalty' = IF parent = 0 /\ exitno = 0 /\ cur.kind = "LOOP" /\ err' # "RETRY" /\ ~Blacklisted(err')
                    THEN [penalty EXCEPT ![cur.startpc] = @ + 1] ELSE penalty
      /\ IF parent = 0 /\ exitno # 0 /\ cur.kind # "RET"
         THEN trace[exitno] \in Obj /\ tr' = [tr EXCEPT ![trace[exitno]].link = exitno]
         ELSE UNCHANGED tr
      /\ tno' = cur.no /\ state' = "err"
      /\ cur' = IF cur.no = 0 THEN cur ELSE [cur EXCEPT !.link = 0]
      /\ event' = IF cur.no = 0 THEN "dropped" ELSE "abort"
      /\ UNCHANGED <<parent, exitno, jpc, trace, freetrace, jd, pttrace, nojit,
                 at, frame, restart, ip, dead, from, asked>>
  BY DEF trace_abort, Interp, Quiet, runvars
<1>1. /\ cur \in TraceType /\ 0 \in TraceNo /\ at = Null /\ trace[0] = Null
      /\ penalty \in [Loop -> 0 .. MaxPenalty] /\ exitno \in TraceNo
  BY <1>0, Sorts DEF IInv, TypeOK, PhasesSound, TraceNo, Named
<1>2. /\ cur' \in TraceType /\ cur'.no = cur.no /\ cur'.kind = cur.kind /\ cur'.startpc = cur.startpc
      /\ cur'.root = cur.root /\ cur'.nextroot = cur.nextroot /\ cur'.nextside = cur.nextside
      /\ cur'.jump = cur.jump /\ cur'.side = cur.side /\ cur'.stitch = cur.stitch
  BY <1>0, <1>1 DEF TraceType
<1>3. /\ Repatched(TRUE) \in [Pc -> {"LOOP", "JLOOP", "ILOOP"}] /\ bcskip' \in BOOLEAN /\ patch' = NoPC
      /\ \A pc \in Pc : Repatched(TRUE)[pc] = "JLOOP" \/ pc = patch' => op[pc] = "JLOOP" \/ pc = patch
  BY <1>0, PendpatchIs
<1>4. /\ op' \in [Pc -> {"LOOP", "JLOOP", "ILOOP"}]
      /\ \A pc \in Pc : op'[pc] = "JLOOP" \/ pc = patch' => op[pc] = "JLOOP" \/ pc = patch
  <2>1. CASE Blacklisted(err')
    <3>1. op' = [Repatched(TRUE) EXCEPT ![cur.startpc] = "ILOOP"]
      BY <1>0, <2>1
    <3>2. op' \in [Pc -> {"LOOP", "JLOOP", "ILOOP"}] /\ \A pc \in Pc : op'[pc] = "JLOOP" => Repatched(TRUE)[pc] = "JLOOP"
      BY <1>3, <3>1
    <3>. QED BY <1>3, <3>2
  <2>2. CASE ~Blacklisted(err')
    BY <1>0, <1>3, <2>2
  <2>. QED BY <2>1, <2>2
<1>5. penalty' \in [Loop -> 0 .. MaxPenalty]
  <2>1. CASE parent = 0 /\ exitno = 0 /\ cur.kind = "LOOP" /\ err' # "RETRY" /\ ~Blacklisted(err')
    <3>1. cur.startpc \in Loop /\ penalty[cur.startpc] # prog.penalties
      BY <2>1 DEF IInv, RecorderSound, Blacklisted
    <3>2. penalty[cur.startpc] <= prog.penalties /\ prog.penalties \in 0 .. MaxPenalty /\ MaxPenalty \in Nat
      BY <3>1, Prog, Sorts DEF Penalized
    <3>3. penalty[cur.startpc] + 1 \in 0 .. MaxPenalty
      BY <1>1, <3>1, <3>2
    <3>4. penalty' = [penalty EXCEPT ![cur.startpc] = penalty[cur.startpc] + 1]
      BY <1>0, <2>1
    <3>. QED BY <1>1, <3>1, <3>3, <3>4
  <2>2. CASE ~(parent = 0 /\ exitno = 0 /\ cur.kind = "LOOP" /\ err' # "RETRY" /\ ~Blacklisted(err'))
    BY <1>0, <1>1, <2>2
  <2>. QED BY <2>1, <2>2
<1>6. SelfLinks(exitno) \/ UNCHANGED tr
  <2>. SUFFICES ASSUME parent = 0, exitno # 0, cur.kind # "RET" PROVE SelfLinks(exitno)
    BY <1>0
  <2>1. tr' = [tr EXCEPT ![trace[exitno]].link = exitno]
    BY <1>0
  <2>2. Untouched(exitno)
    <3>1. CASE state = "err"
      <4>1. Recording
        BY <1>0, <3>1 DEF Recording
      <4>. QED BY <1>0, <4>1 DEF IInv, HoldsSound
    <3>2. CASE state = "aborted"
      <4>1. cur.kind = "CALL"
        BY <1>0, <3>2 DEF IInv, RecorderSound
      <4>. QED BY <1>0, <3>2, <4>1 DEF IInv, HoldsSound
    <3>. QED BY <1>0, <3>1, <3>2
  <2>. QED BY <1>1, <2>1, <2>2 DEF SelfLinks
<1>p. patch' # NoPC => patch' \in Ret
  BY <1>3
<1>t. tr' \in [Obj -> TraceType]
  <2>1. CASE UNCHANGED tr
    BY <2>1 DEF IInv, TypeOK
  <2>2. CASE SelfLinks(exitno)
    BY <1>0, <1>2, <1>4, <1>p, <2>2, SelfLinkKeeps DEF IInv, RecorderSound
  <2>. QED BY <1>6, <2>1, <2>2
<1>7. TypeOK'
  BY <1>0, <1>1, <1>2, <1>3, <1>4, <1>5, <1>t DEF IInv, TypeOK, States, TraceType
<1>8. /\ Kept' = Kept /\ Saved' = Saved /\ Named' /\ Shapes' /\ ChainsSound' /\ KeptSound'
      /\ \A o \in Obj : tr'[o].stitch = tr[o].stitch
      /\ \A o \in Obj \ Kept : tr'[o] = tr[o]
  <2>1. CASE UNCHANGED tr
    <3>1. SameHeap
      BY <1>0, <1>2, <2>1 DEF SameHeap, IInv, RecorderSound
    <3>2. Named' /\ Shapes' /\ ChainsSound' /\ KeptSound'
      BY <1>0, <1>1, <1>4, <1>p, <1>7, <3>1, SameHeapSound DEF IInv, KeptSound, Named
    <3>. QED BY <1>7, <2>1, <3>1, <3>2, SameHeapKeeps
  <2>2. CASE SelfLinks(exitno)
    BY <1>0, <1>2, <1>4, <1>p, <2>2, SelfLinkKeeps DEF IInv, RecorderSound
  <2>. QED BY <1>6, <2>1, <2>2
<1>9. FreeNumbersFound' /\ CurOnce'
  BY <1>0, <1>2 DEF IInv, FreeNumbersFound, CurOnce
<1>10. PhasesSound'
  BY <1>0, <1>1, <1>3 DEF IInv, PhasesSound
<1>11. RecorderSound'
  BY <1>0, <1>1, <1>2 DEF IInv, RecorderSound, SetUp, Recording
<1>12. HoldsSound'
  <2>1. frame # Null => frame \in Obj
    BY DEF IInv, TypeOK
  <2>. QED BY <1>0, <1>1, <1>2, <1>8, <2>1 DEF IInv, HoldsSound, SetUp, Recording
<1>13. StitchSound'
  BY <1>0, <1>2, <1>8 DEF IInv, StitchSound
<1>. QED BY <1>7, <1>8, <1>9, <1>10, <1>11, <1>12, <1>13 DEF IInv

-----------------------------------------------------------------------------
(* The sweep *)

LEMMA FreeStep ==
  ASSUME IInv, NEW o \in Obj, lj_trace_free(o), UNCHANGED prog
  PROVE  IInv'
<1>0. /\ o \in dead /\ dead' = dead \ {o} /\ tr' = [tr EXCEPT ![o] = NoTrace]
      /\ trace' = IF tr[o].no # 0 THEN [trace EXCEPT ![tr[o].no] = Null] ELSE trace
      /\ freetrace' = IF tr[o].no # 0 /\ tr[o].no < freetrace THEN tr[o].no ELSE freetrace
      /\ UNCHANGED <<state, cur, parent, exitno, jpc, err, penalty, patch, bcskip, op, jd, pttrace,
                     nojit, event, tno, at, frame, restart, ip, from, asked>>
  BY DEF lj_trace_free, runvars
<1>1. /\ tr \in [Obj -> TraceType] /\ \A x \in Obj : tr[x] \in TraceType /\ tr[x].no \in TraceNo
      /\ o \in Saved /\ o \notin Kept /\ Kept \subseteq Obj /\ Heads \subseteq Obj /\ TypeOK
      /\ cur.nextroot = 0 /\ trace[0] = Null /\ Null \notin Obj /\ Cur \notin Obj /\ Null # Cur
      /\ (tr[o].no # 0 => trace[tr[o].no] = o) /\ o # Null
  BY <1>0, HeadsObj, KeptIs, Sorts DEF IInv, TypeOK, TraceType, Named, KeptSound, RecorderSound
<1>2. NoTrace \in TraceType /\ NoTrace.no = 0 /\ NoTrace.kind = "none"
  BY Sorts DEF NoTrace, TraceType, TraceNo
<1>3. /\ tr' \in [Obj -> TraceType] /\ tr'[o] = NoTrace /\ \A x \in Obj \ {o} : tr'[x] = tr[x]
  BY <1>0, <1>1, <1>2
\* the trace is found under its own number only
<1>4. \A n \in TraceNo : trace'[n] = IF trace[n] = o THEN Null ELSE trace[n]
  <2>. SUFFICES ASSUME NEW n \in TraceNo PROVE trace'[n] = IF trace[n] = o THEN Null ELSE trace[n]
    OBVIOUS
  <2>1. trace[n] = o => n = tr[o].no /\ tr[o].no # 0
    BY <1>1 DEF IInv, Named
  <2>2. trace \in [TraceNo -> Obj \cup {Null, Cur}]
    BY <1>1 DEF TypeOK
  <2>. QED BY <1>0, <1>1, <2>1, <2>2
<1>5. TypeOK'
  <2>1. trace' \in [TraceNo -> Obj \cup {Null, Cur}]
    BY <1>0, <1>1 DEF TypeOK
  <2>2. freetrace' \in 0 .. MaxTrace + 1
    BY <1>0, <1>1, Sorts DEF TypeOK, TraceNo
  <2>. QED BY <1>0, <1>1, <1>3, <2>1, <2>2 DEF TypeOK
<1>6. \A n \in TraceNo : trace[n] \in Kept => trace'[n] = trace[n] /\ tr'[trace[n]] = tr[trace[n]]
  BY <1>1, <1>3, <1>4
<1>7. \A p \in Proto : Chain(p)' = Chain(p)
  <2>. SUFFICES ASSUME NEW p \in Proto PROVE Chain(p)' = Chain(p)
    OBVIOUS
  <2>. DEFINE X == {pttrace[p]} \ {0}
              U == TraceNo \ {0}
              N == Nextroots
              M == Nextroots'
              C == Chain(p)
  <2>1. N \in [U -> SUBSET U] /\ X \in SUBSET U /\ C \in SUBSET U /\ X \subseteq C
    BY <1>1, LinkTypes, ChainIs DEF TypeOK
  <2>2. M \in [U -> SUBSET U]
    <3>1. M = [m \in U |-> M[m]]
      BY DEF Nextroots
    <3>2. ASSUME NEW m \in U PROVE M[m] \subseteq U
      <4>1. M[m] = {Traceref(m)'.nextroot} \ {0}
        BY DEF Nextroots
      <4>2. Traceref(m)' \in TraceType
        <5>1. /\ trace'[m] \in Obj \cup {Null, Cur} /\ cur' \in TraceType
              /\ tr' \in [Obj -> TraceType] /\ {Null, Cur} \cap Obj = {} /\ Null # Cur
          BY <1>1, <1>5 DEF TypeOK
        <5>. QED BY <1>2, <5>1 DEF Traceref
      <4>. QED BY <4>1, <4>2 DEF TraceType
    <3>. QED BY <3>1, <3>2
  <2>3. ASSUME NEW m \in C PROVE N[m] \subseteq C /\ M[m] = N[m]
    <3>1. m \in U /\ N[m] \subseteq C /\ trace[m] \in Kept
      BY <1>1, <2>1, ChainIs, ChainKept DEF IInv
    <3>2. Traceref(m)' = Traceref(m)
      BY <1>1, <1>6, <3>1 DEF Traceref
    <3>. QED BY <3>1, <3>2 DEF Nextroots
  <2>4. C = Reach(X, N) /\ Chain(p)' = Reach(X, M)
    BY <1>0 DEF Chain
  <2>. HIDE DEF X, U, N, M, C
  <2>5. Reach(X, M) = Reach(X, N)
    BY <2>1, <2>2, <2>3, ReachSame
  <2>. QED BY <2>4, <2>5 DEF C
<1>8. \A x \in Kept : MarkLinks'[x] = MarkLinks[x] /\ SideLinks'[x] = SideLinks[x]
  <2>. SUFFICES ASSUME NEW x \in Kept PROVE MarkLinks'[x] = MarkLinks[x] /\ SideLinks'[x] = SideLinks[x]
    OBVIOUS
  <2>1. x \in Obj /\ tr'[x] = tr[x] /\ tr[x].no # 0 /\ tr[x].nextside \in TraceNo
        /\ {tr[x].link, tr[x].nextroot, tr[x].nextside} \subseteq TraceNo
    BY <1>1, <1>3, KeptObj DEF TraceType
  <2>2. \A n \in {tr[x].link, tr[x].nextroot, tr[x].nextside} \ {0} :
          trace[n] # o /\ trace'[n] = trace[n]
    <3>. SUFFICES ASSUME NEW n \in {tr[x].link, tr[x].nextroot, tr[x].nextside} \ {0}
                  PROVE  trace[n] # o
      BY <1>4, <2>1
    <3>1. trace[n] \in Obj => trace[n] \in Kept
      BY <1>1, <2>1, LinksKept DEF IInv
    <3>. QED BY <1>1, <3>1
  <2>. QED BY <2>1, <2>2 DEF MarkLinks, Marks, SideLinks
<1>9. Kept' = Kept
  <2>1. Heads' = Heads
    <3>1. ASSUME NEW p \in Proto, pttrace[p] # 0 PROVE trace'[pttrace[p]] = trace[pttrace[p]]
      <4>1. trace[pttrace[p]] \in Heads
        BY <3>1 DEF Heads
      <4>2. trace[pttrace[p]] \in Kept /\ pttrace[p] \in TraceNo
        BY <1>1, <4>1, KeptIs DEF TypeOK
      <4>. QED BY <1>6, <4>2
    <3>. QED BY <1>0, <3>1 DEF Heads
  <2>2. MarkLinks \in [Obj -> SUBSET Obj] /\ MarkLinks' \in [Obj -> SUBSET Obj]
    BY <1>1, LinkTypes DEF MarkLinks
  <2>3. Heads \subseteq Kept /\ \A x \in Kept : MarkLinks[x] \subseteq Kept
    BY <1>1, KeptIs
  <2>. DEFINE N == MarkLinks
              M == MarkLinks'
              H == Heads
              W == Kept
  <2>4. /\ N \in [Obj -> SUBSET Obj] /\ M \in [Obj -> SUBSET Obj] /\ H \in SUBSET Obj
        /\ W \in SUBSET Obj /\ H \subseteq W /\ \A x \in W : N[x] \subseteq W /\ M[x] = N[x]
    BY <1>1, <1>8, <2>2, <2>3
  <2>5. W = Reach(H, N) /\ Kept' = Reach(H, M)
    BY <2>1 DEF Kept
  <2>. HIDE DEF N, M, H, W
  <2>6. Reach(H, M) = Reach(H, N)
    BY <2>4, ReachSame
  <2>. QED BY <2>5, <2>6 DEF W
<1>10. \A x \in Kept : /\ x \in Obj /\ RootOf(x) \in Kept /\ RootOf(x)' = RootOf(x) /\ tr'[x] = tr[x]
                       /\ tr'[RootOf(x)] = tr[RootOf(x)] /\ tr[x].no # 0 /\ LinkSound(x) /\ x \notin dead
  <2>. SUFFICES ASSUME NEW x \in Kept
                PROVE  /\ x \in Obj /\ RootOf(x) \in Kept /\ RootOf(x)' = RootOf(x) /\ tr'[x] = tr[x]
                       /\ tr'[RootOf(x)] = tr[RootOf(x)] /\ tr[x].no # 0 /\ LinkSound(x) /\ x \notin dead
    OBVIOUS
  <2>1. x \in Obj /\ RootOf(x) \in Kept /\ tr[x].no # 0 /\ LinkSound(x) /\ x \notin dead
    BY Rooted DEF IInv, KeptSound
  <2>2. tr'[x] = tr[x] /\ tr'[RootOf(x)] = tr[RootOf(x)]
    BY <1>1, <1>3, <2>1
  <2>3. RootOf(x)' = RootOf(x)
    <3>1. CASE tr[x].root = 0
      BY <2>2, <3>1 DEF RootOf
    <3>2. CASE tr[x].root # 0
      <4>1. tr[x].root \in TraceNo /\ trace[tr[x].root] \in Kept
        BY <1>1, <2>1, <3>2 DEF RootOf, TraceType
      <4>. QED BY <1>6, <2>2, <3>2, <4>1 DEF RootOf
    <3>. QED BY <3>1, <3>2
  <2>. QED BY <2>1, <2>2, <2>3
<1>11. \A R \in Kept : SideList(R)' = SideList(R)
  <2>. DEFINE N == SideLinks
              M == SideLinks'
              W == Kept
  <2>1. N \in [Obj -> SUBSET Obj] /\ M \in [Obj -> SUBSET Obj] /\ W \in SUBSET Obj
    BY <1>1, LinkTypes DEF SideLinks
  <2>2. \A x \in W : N[x] \subseteq W /\ M[x] = N[x]
    BY <1>1, <1>8, SidesKept DEF IInv
  <2>3. \A R \in W : SideList(R) = Reach({R}, N) /\ SideList(R)' = Reach({R}, M)
    BY DEF SideList
  <2>. HIDE DEF N, M, W
  <2>4. ASSUME NEW X \in SUBSET Obj, X \subseteq W PROVE Reach(X, M) = Reach(X, N)
    BY <2>1, <2>2, <2>4, ReachSame
  <2>5. \A R \in W : {R} \in SUBSET Obj /\ {R} \subseteq W
    BY <2>1
  <2>. QED BY <2>3, <2>4, <2>5 DEF W
<1>12. KeptSound'
  <2>. SUFFICES ASSUME NEW x \in Kept PROVE x \notin dead' /\ tr'[x].no # 0 /\ LinkSound(x)'
    BY <1>9 DEF KeptSound
  <2>1. \A n \in {tr[x].link, tr[x].nextroot, tr[x].nextside} \ {0} :
          trace[n] \in Obj => trace[n] \in Kept /\ trace'[n] = trace[n] /\ tr'[trace[n]] = tr[trace[n]]
    BY <1>1, <1>6, <1>10, LinksKept DEF IInv, TraceType
  <2>2. /\ x \in Obj /\ tr'[x] = tr[x] /\ LinkSound(x) /\ x \notin dead /\ tr[x].no # 0
        /\ RootOf(x)' = RootOf(x) /\ tr'[RootOf(x)] = tr[RootOf(x)]
        /\ SideList(RootOf(x))' = SideList(RootOf(x))
    <3>1. Reach({RootOf(x)}, SideLinks') = Reach({RootOf(x)}, SideLinks)
      BY <1>10, <1>11 DEF SideList
    <3>. QED BY <1>10, <3>1 DEF SideList
  <2>3. \A n \in {tr'[x].link, tr'[x].nextroot} \ {0, tr'[x].no} : trace'[n] \in Obj /\ tr'[trace'[n]].root = 0
    BY <2>1, <2>2 DEF LinkSound
  <2>4. tr'[x].nextside # 0 => /\ trace'[tr'[x].nextside] \in Obj
                               /\ tr'[trace'[tr'[x].nextside]].root = tr'[RootOf(x)].no
    BY <2>1, <2>2 DEF LinkSound
  <2>5. tr'[x].jump \in {Null, x} \/ (tr'[x].link # 0 /\ tr'[x].jump = trace'[tr'[x].link])
    <3>1. CASE tr[x].jump \in {Null, x}
      BY <2>2, <3>1
    <3>2. CASE tr[x].link # 0 /\ tr[x].jump = trace[tr[x].link]
      <4>1. trace[tr[x].link] \in Obj
        <5>1. CASE tr[x].link = tr[x].no
          BY <2>2, <5>1 DEF IInv, Named
        <5>2. CASE tr[x].link # tr[x].no
          BY <2>2, <3>2, <5>2 DEF LinkSound
        <5>. QED BY <5>1, <5>2
      <4>. QED BY <2>1, <2>2, <3>2, <4>1
    <3>. QED BY <2>2, <3>1, <3>2 DEF LinkSound
  <2>6. tr'[x].side # Null => tr'[x].side \in SideList(RootOf(x))'
    BY <2>2 DEF LinkSound
  <2>. QED BY <1>0, <2>2, <2>3, <2>4, <2>5, <2>6 DEF LinkSound
<1>13. Saved' = Saved \ {o}
  BY <1>1, <1>2, <1>3 DEF Saved
<1>14. Named'
  <2>1. trace'[0] = Null
    BY <1>1, <1>4, Sorts DEF TraceNo
  <2>2. \A n \in TraceNo : trace'[n] \in Obj => tr'[trace'[n]].no = n
    BY <1>1, <1>3, <1>4 DEF IInv, Named
  <2>3. \A x \in Obj : tr'[x].no # 0 => x \in Saved' /\ trace'[tr'[x].no] = x
    BY <1>1, <1>2, <1>3, <1>4, <1>13 DEF IInv, Named
  <2>4. \A x \in Obj : tr'[x].kind = "none" => tr'[x] = NoTrace
    BY <1>3 DEF IInv, Named
  <2>5. dead' \subseteq Saved'
    BY <1>0, <1>13 DEF IInv, Named
  <2>. QED BY <2>1, <2>2, <2>3, <2>4, <2>5 DEF Named
<1>15. Shapes'
  BY <1>1, <1>3, <1>13 DEF IInv, Shapes, Saved
<1>16. ChainsSound'
  <2>1. \A p \in Proto : \A m \in Chain(p) :
          m \in TraceNo /\ trace[m] \in Kept /\ trace'[m] = trace[m] /\ tr'[trace[m]] = tr[trace[m]]
    BY <1>1, <1>6, ChainIs, ChainKept DEF IInv
  <2>2. \A pc \in Pc : ProtoOf[pc] \in Proto
    BY Sorts
  <2>. QED BY <1>0, <1>7, <2>1, <2>2 DEF IInv, ChainsSound
<1>17. FreeNumbersFound' /\ CurOnce'
  <2>1. CurOnce'
    BY <1>0, <1>1, <1>4 DEF IInv, CurOnce
  <2>2. ASSUME NEW n \in TraceNo \ {0}, n < freetrace' PROVE trace'[n] # Null
    <3>1. n < freetrace /\ n # tr[o].no
      BY <1>0, <1>1, <2>2, Sorts DEF TypeOK, TraceNo
    <3>2. trace[n] # o
      BY <1>1, <3>1 DEF IInv, Named
    <3>. QED BY <1>4, <3>1, <3>2 DEF IInv, FreeNumbersFound
  <2>. QED BY <2>1, <2>2 DEF FreeNumbersFound
<1>18. PhasesSound'
  BY <1>0 DEF IInv, PhasesSound
<1>19. RecorderSound'
  <2>1. cur.no \in TraceNo /\ tno \in TraceNo
    BY <1>1 DEF TypeOK, TraceType
  <2>2. /\ cur.no # 0 => trace'[cur.no] = Cur
        /\ event \in {"abort", "dropped"} => trace'[tno] \in {Cur, Null}
    BY <1>1, <1>4, <2>1 DEF IInv, RecorderSound
  <2>. QED BY <1>0, <2>2 DEF IInv, RecorderSound, SetUp, Recording
<1>20. HoldsSound'
  <2>1. \A n \in TraceNo : Untouched(n) => Untouched(n)'
    BY <1>1, <1>6, <1>9 DEF Untouched
  <2>2. frame # Null => /\ frame \in Saved' \ dead'
                        /\ frame \in Kept \/ (tr'[frame].no = 0 /\ tr'[frame].link = 0)
    <3>. SUFFICES ASSUME frame # Null
                  PROVE  frame \in Saved' \ dead' /\ (frame \in Kept \/ (tr'[frame].no = 0 /\ tr'[frame].link = 0))
      OBVIOUS
    <3>1. frame \in Obj /\ frame \in Saved \ dead /\ (frame \in Kept \/ (tr[frame].no = 0 /\ tr[frame].link = 0))
      BY <1>1 DEF IInv, HoldsSound, TypeOK
    <3>. QED BY <1>0, <1>3, <1>13, <3>1
  <2>3. (Recording \/ state = "start" \/ event = "texit") /\ parent # 0 => from \in Kept /\ trace'[parent] = from
    BY <1>1, <1>6 DEF IInv, HoldsSound, TypeOK
  <2>4. SetUp /\ cur.kind = "JMP" => cur.root # 0 /\ cur.root = tr'[RootOf(from)].no /\ RootOf(from)' = RootOf(from)
    <3>. SUFFICES ASSUME SetUp, cur.kind = "JMP"
                  PROVE  cur.root # 0 /\ cur.root = tr'[RootOf(from)].no /\ RootOf(from)' = RootOf(from)
      OBVIOUS
    <3>1. parent # 0 /\ Recording
      BY DEF IInv, RecorderSound, SetUp
    <3>2. from \in Kept
      BY <3>1 DEF IInv, HoldsSound
    <3>3. tr'[RootOf(from)] = tr[RootOf(from)]
      BY <1>10, <3>2
    <3>4. RootOf(from)' = RootOf(from)
      BY <1>0, <1>10, <3>2 DEF RootOf
    <3>. QED BY <3>3, <3>4 DEF IInv, HoldsSound
  <2>5. SetUp => cur.link \in {0, cur.no} \/ (trace'[cur.link] \in Kept /\ tr'[trace'[cur.link]].root = 0)
    <3>1. cur.link \in TraceNo
      BY <1>1 DEF TypeOK, TraceType
    <3>. QED BY <1>6, <3>1 DEF IInv, HoldsSound
  <2>6. SetUp' = SetUp /\ Recording' = Recording /\ exitno \in TraceNo
    BY <1>0, <1>1 DEF SetUp, Recording, TypeOK
  <2>. QED BY <1>0, <1>9, <2>1, <2>2, <2>3, <2>4, <2>5, <2>6 DEF IInv, HoldsSound
<1>21. StitchSound'
  <2>1. ASSUME "stitch" \notin prog.ops PROVE \A x \in Obj : ~tr'[x].stitch
    <3>1. ~NoTrace.stitch
      BY DEF NoTrace
    <3>. QED BY <1>3, <2>1, <3>1 DEF IInv, StitchSound
  <2>. QED BY <1>0, <2>1 DEF IInv, StitchSound
<1>. QED BY <1>5, <1>12, <1>14, <1>15, <1>16, <1>17, <1>18, <1>19, <1>20, <1>21 DEF IInv

-----------------------------------------------------------------------------
(* Saving a trace *)

\* What trace_stop does to the traces: o is new; P is the prototype whose first trace it is, unless
\* it is linked to a side trace: to root R, as the one that the exit of F goes on to; or to u, whose
\* end it continues.
Adds(o, R, F, u, P) ==
  /\ o \in Obj \ Saved /\ cur.no \in TraceNo \ {0} /\ trace[cur.no] = Cur /\ cur.kind # "none"
  /\ trace' = [trace EXCEPT ![cur.no] = o]
  /\ tr' \in [Obj -> TraceType]
  /\ tr'[o].no = cur.no /\ tr'[o].kind = cur.kind /\ tr'[o].startpc = cur.startpc
  /\ tr'[o].root = cur.root /\ tr'[o].link = cur.link /\ tr'[o].side = Null
  /\ tr'[o].jump \in {Null, o} \/ (cur.link \notin {0, cur.no} /\ tr'[o].jump = trace[cur.link])
  /\ \A x \in Obj \ {o} :
       /\ tr'[x].no = tr[x].no /\ tr'[x].kind = tr[x].kind /\ tr'[x].startpc = tr[x].startpc
       /\ tr'[x].root = tr[x].root /\ tr'[x].nextroot = tr[x].nextroot /\ tr'[x].jump = tr[x].jump
       /\ tr'[x].link = IF x = u THEN cur.no ELSE tr[x].link
       /\ tr'[x].nextside = IF x = R THEN cur.no ELSE tr[x].nextside
       /\ tr'[x].side = IF x = F THEN o ELSE tr[x].side
  /\ u # Null => u \in Kept /\ tr[u].link = 0 /\ cur.root = 0
  /\ IF R = Null THEN tr'[o].nextside = 0 /\ cur.root = 0
     ELSE /\ R \in Kept /\ tr[R].root = 0 /\ cur.root # 0 /\ cur.root = tr[R].no
          /\ tr'[o].nextside = tr[R].nextside
  /\ F # Null => F \in Kept /\ R # Null /\ R = RootOf(F)
  /\ pttrace' = [q \in Proto |-> IF q \in P THEN cur.no ELSE pttrace[q]]
  /\ IF P = {} THEN tr'[o].nextroot = 0 /\ UNCHANGED <<op, jd>>
     ELSE /\ cur.kind \in {"LOOP", "RET"} /\ cur.startpc \in Pc /\ P = {ProtoOf[cur.startpc]}
          /\ tr'[o].nextroot = pttrace[ProtoOf[cur.startpc]]
          /\ op' = [op EXCEPT ![cur.startpc] = "JLOOP"] /\ jd' = [jd EXCEPT ![cur.startpc] = cur.no]

LEMMA StopAdds ==
  ASSUME IInv, NEW o \in Obj, trace_stop(o)
  PROVE  \E R, F, u \in Obj \cup {Null}, P \in SUBSET Proto : Adds(o, R, F, u, P)
<1>. DEFINE no == cur.no
            jump == CASE cur.link = 0 -> Null [] cur.link = no -> o [] OTHER -> trace[cur.link]
            new == [cur EXCEPT !.jump = jump]
<1>0. /\ state = "asm" /\ event = "none" /\ o \in prog.objs \ Saved
      /\ \/ /\ cur.kind \in {"LOOP", "RET"}
            /\ op' = [op EXCEPT ![cur.startpc] = "JLOOP"] /\ jd' = [jd EXCEPT ![cur.startpc] = no]
            /\ tr' = [tr EXCEPT ![o] = [new EXCEPT !.nextroot = pttrace[ProtoOf[cur.startpc]]]]
            /\ pttrace' = [pttrace EXCEPT ![ProtoOf[cur.startpc]] = no]
         \/ /\ cur.kind = "JMP" /\ Patchexit \in Obj /\ trace[cur.root] \in Obj
            /\ tr' = [x \in Obj |->
                 IF x = o THEN [new EXCEPT !.nextside = Traceref(cur.root).nextside]
                 ELSE [tr[x] EXCEPT !.side = IF x = Patchexit THEN o ELSE @,
                                    !.nextside = IF x = trace[cur.root] THEN no ELSE @]]
            /\ UNCHANGED <<op, jd, pttrace>>
         \/ /\ cur.kind = "CALL" /\ trace[exitno] \in Obj
            /\ tr' = [tr EXCEPT ![o] = new, ![trace[exitno]].link = no]
            /\ UNCHANGED <<op, jd, pttrace>>
      /\ trace' = [trace EXCEPT ![no] = o]
  BY DEF trace_stop
<1>1. /\ cur \in TraceType /\ no \in TraceNo \ {0} /\ trace[no] = Cur /\ SetUp /\ Recording
      /\ tr \in [Obj -> TraceType] /\ Null \notin Obj /\ Cur \notin Obj
      /\ cur.nextroot = 0 /\ cur.nextside = 0 /\ cur.side = Null /\ cur.jump = Null
      /\ pttrace \in [Proto -> TraceNo] /\ Cur # Null /\ trace \in [TraceNo -> Obj \cup {Null, Cur}]
  BY <1>0, Sorts DEF IInv, TypeOK, RecorderSound, SetUp, Recording, TraceType
<1>2. jump \in Obj \cup {Null} /\ (jump \in {Null, o} \/ (cur.link \notin {0, no} /\ jump = trace[cur.link]))
  <2>1. CASE cur.link = 0
    BY <2>1
  <2>2. CASE cur.link = no
    BY <1>1, <2>2
  <2>3. CASE cur.link \notin {0, no}
    <3>1. trace[cur.link] \in Kept
      BY <1>1, <2>3 DEF IInv, HoldsSound
    <3>. QED BY <2>3, <3>1, KeptObj
  <2>. QED BY <2>1, <2>2, <2>3
<1>. HIDE DEF jump
<1>3. /\ new.no = no /\ new.kind = cur.kind /\ new.startpc = cur.startpc /\ new.root = cur.root
      /\ new.link = cur.link /\ new.side = Null /\ new.jump = jump /\ new.nextroot = 0
      /\ new.nextside = 0 /\ new \in TraceType
  BY <1>1, <1>2 DEF TraceType
<1>. HIDE DEF new
<1>4. CASE cur.kind \in {"LOOP", "RET"}
  <2>. DEFINE p == ProtoOf[cur.startpc]
              P == {p}
  <2>1. cur.startpc \in Pc /\ p \in Proto /\ cur.root = 0 /\ pttrace[p] \in TraceNo
    BY <1>1, <1>4, Sorts DEF IInv, RecorderSound, Pc
  <2>2. /\ op' = [op EXCEPT ![cur.startpc] = "JLOOP"] /\ jd' = [jd EXCEPT ![cur.startpc] = no]
        /\ tr' = [tr EXCEPT ![o] = [new EXCEPT !.nextroot = pttrace[p]]]
        /\ pttrace' = [pttrace EXCEPT ![p] = no]
    BY <1>0, <1>4
  <2>3. /\ tr'[o] = [new EXCEPT !.nextroot = pttrace[p]]
        /\ \A x \in Obj \ {o} : tr'[x] = tr[x]
    BY <1>1, <2>2
  <2>4. /\ tr'[o].no = no /\ tr'[o].kind = cur.kind /\ tr'[o].startpc = cur.startpc /\ tr'[o].root = cur.root
        /\ tr'[o].link = cur.link /\ tr'[o].side = Null /\ tr'[o].jump = jump
        /\ tr'[o].nextroot = pttrace[p] /\ tr'[o].nextside = 0 /\ tr'[o] \in TraceType
    BY <1>3, <2>1, <2>3 DEF TraceType
  <2>5. tr' \in [Obj -> TraceType]
    <3>1. [new EXCEPT !.nextroot = pttrace[p]] \in TraceType
      BY <2>3, <2>4
    <3>. QED BY <1>1, <2>2, <3>1
  <2>6. pttrace' = [q \in Proto |-> IF q \in P THEN no ELSE pttrace[q]]
    BY <1>1, <2>2
  <2>7. P # {} /\ P \in SUBSET Proto
    BY <2>1
  <2>8. Adds(o, Null, Null, Null, P)
    BY <1>0, <1>1, <1>2, <1>4, <2>1, <2>2, <2>3, <2>4, <2>5, <2>6, <2>7 DEF Adds
  <2>. QED BY <2>7, <2>8
<1>5. CASE cur.kind = "JMP"
  <2>. DEFINE R == RootOf(from)
  <2>1. parent # 0 /\ parent \in TraceNo /\ cur.root # 0 /\ cur.root = tr[R].no
    BY <1>1, <1>5 DEF IInv, RecorderSound, HoldsSound, TypeOK
  <2>2. from \in Kept /\ trace[parent] = from
    BY <1>1, <2>1 DEF IInv, HoldsSound
  <2>3. R \in Kept /\ tr[R].root = 0 /\ from \in Obj
    BY <2>2, Rooted DEF IInv
  <2>4. R \in Obj /\ trace[cur.root] = R /\ R \in Saved /\ from \in Saved
    BY <2>1, <2>2, <2>3, KeptObj
  <2>r. R = RootOf(from) /\ R # Null /\ from # Null
    BY <1>1, <2>3, <2>4
  <2>. HIDE DEF R
  <2>5. /\ tr' = [x \in Obj |->
             IF x = o THEN [new EXCEPT !.nextside = tr[R].nextside]
             ELSE [tr[x] EXCEPT !.side = IF x = from THEN o ELSE @,
                                !.nextside = IF x = R THEN no ELSE @]]
        /\ UNCHANGED <<op, jd, pttrace>>
    <3>1. Traceref(cur.root) = tr[R]
      BY <1>1, <2>4, TracerefIs DEF IInv, TraceType
    <3>. QED BY <1>0, <1>5, <2>2, <2>4, <3>1 DEF Patchexit
  <2>6. /\ tr'[o].no = no /\ tr'[o].kind = cur.kind /\ tr'[o].startpc = cur.startpc /\ tr'[o].root = cur.root
        /\ tr'[o].link = cur.link /\ tr'[o].side = Null /\ tr'[o].jump = jump
        /\ tr'[o].nextroot = 0 /\ tr'[o].nextside = tr[R].nextside /\ tr'[o] \in TraceType
    <3>1. tr'[o] = [new EXCEPT !.nextside = tr[R].nextside] /\ tr[R].nextside \in TraceNo
      BY <1>1, <2>4, <2>5 DEF TraceType
    <3>. QED BY <1>3, <3>1 DEF TraceType
  <2>7. ASSUME NEW x \in Obj \ {o}
        PROVE  /\ tr'[x].no = tr[x].no /\ tr'[x].kind = tr[x].kind /\ tr'[x].startpc = tr[x].startpc
               /\ tr'[x].root = tr[x].root /\ tr'[x].nextroot = tr[x].nextroot /\ tr'[x].jump = tr[x].jump
               /\ tr'[x].link = tr[x].link
               /\ tr'[x].nextside = (IF x = R THEN no ELSE tr[x].nextside)
               /\ tr'[x].side = (IF x = from THEN o ELSE tr[x].side)
               /\ tr'[x] \in TraceType
    <3>1. tr'[x] = [tr[x] EXCEPT !.side = IF x = from THEN o ELSE tr[x].side,
                                 !.nextside = IF x = R THEN no ELSE tr[x].nextside]
      BY <2>5
    <3>2. /\ tr[x] \in TraceType
          /\ (IF x = from THEN o ELSE tr[x].side) \in Obj \cup {Null}
          /\ (IF x = R THEN no ELSE tr[x].nextside) \in TraceNo
      BY <1>1 DEF TraceType
    <3>. QED BY <3>1, <3>2 DEF TraceType
  <2>8. tr' \in [Obj -> TraceType]
    <3>1. tr' = [x \in Obj |-> tr'[x]]
      BY <2>5, Zenon
    <3>. QED BY <2>6, <2>7, <3>1
  <2>9. pttrace' = [q \in Proto |-> IF q \in {} THEN no ELSE pttrace[q]]
    BY <1>1, <2>5
  <2>10. Adds(o, R, from, Null, {})
    <3>1. \A x \in Obj \ {o} : tr'[x].link = IF x = Null THEN no ELSE tr[x].link
      BY <1>1, <2>7
    <3>2. tr'[o].jump \in {Null, o} \/ (cur.link \notin {0, no} /\ tr'[o].jump = trace[cur.link])
      BY <1>2, <2>6
    <3>3. o \in Obj \ Saved /\ trace' = [trace EXCEPT ![no] = o]
      BY <1>0
    <3>4. tr'[o].nextroot = 0 /\ UNCHANGED <<op, jd>> /\ cur.kind # "none"
      BY <1>5, <2>5, <2>6
    <3>. QED BY <1>1, <1>5, <2>1, <2>2, <2>3, <2>6, <2>7, <2>8, <2>9, <2>r, <3>1, <3>2, <3>3, <3>4, Zenon DEF Adds
  <2>. QED BY <2>3, <2>4, <2>10
<1>6. CASE cur.kind = "CALL"
  <2>. DEFINE u == trace[exitno]
  <2>1. parent = 0 /\ exitno # 0 /\ cur.root = 0
    BY <1>1, <1>6 DEF IInv, RecorderSound
  <2>2. u \in Kept /\ tr[u].link = 0
    BY <1>1, <2>1 DEF IInv, HoldsSound, Untouched
  <2>3. u \in Obj /\ u \in Saved /\ u # o /\ u # Null
    BY <1>0, <2>2, KeptObj
  <2>4. tr' = [tr EXCEPT ![o] = new, ![u].link = no] /\ UNCHANGED <<op, jd, pttrace>>
    BY <1>0, <1>6
  <2>. HIDE DEF u
  <2>5. tr'[o] = new /\ tr'[u] = [tr[u] EXCEPT !.link = no] /\ \A x \in Obj \ {o, u} : tr'[x] = tr[x]
    BY <1>1, <2>3, <2>4
  <2>6. /\ tr'[u].no = tr[u].no /\ tr'[u].kind = tr[u].kind /\ tr'[u].startpc = tr[u].startpc
        /\ tr'[u].root = tr[u].root /\ tr'[u].nextroot = tr[u].nextroot /\ tr'[u].jump = tr[u].jump
        /\ tr'[u].link = no /\ tr'[u].nextside = tr[u].nextside /\ tr'[u].side = tr[u].side
        /\ tr'[u] \in TraceType
    BY <1>1, <2>3, <2>5 DEF TraceType
  <2>7. tr' \in [Obj -> TraceType]
    <3>1. tr' = [x \in Obj |-> tr'[x]]
      BY <1>1, <2>4, Zenon
    <3>2. \A x \in Obj : tr'[x] \in TraceType
      BY <1>1, <1>3, <2>5, <2>6
    <3>. QED BY <3>1, <3>2
  <2>8. pttrace' = [q \in Proto |-> IF q \in {} THEN no ELSE pttrace[q]]
    BY <1>1, <2>4
  <2>9. ASSUME NEW x \in Obj \ {o}
        PROVE  /\ tr'[x].no = tr[x].no /\ tr'[x].kind = tr[x].kind /\ tr'[x].startpc = tr[x].startpc
               /\ tr'[x].root = tr[x].root /\ tr'[x].nextroot = tr[x].nextroot /\ tr'[x].jump = tr[x].jump
               /\ tr'[x].link = (IF x = u THEN no ELSE tr[x].link)
               /\ tr'[x].nextside = tr[x].nextside /\ tr'[x].side = tr[x].side
    <3>1. CASE x = u
      BY <2>6, <3>1
    <3>2. CASE x # u
      BY <2>5, <3>2
    <3>. QED BY <3>1, <3>2
  <2>10. Adds(o, Null, Null, u, {})
    BY <1>0, <1>1, <1>2, <1>3, <1>6, <2>1, <2>2, <2>3, <2>4, <2>5, <2>7, <2>8, <2>9 DEF Adds
  <2>. QED BY <2>3, <2>10
<1>. QED BY <1>0, <1>4, <1>5, <1>6

LEMMA AddsNew ==
  ASSUME IInv, NEW o, NEW R, NEW F, NEW u, NEW P, Adds(o, R, F, u, P)
  PROVE  /\ o \in Obj /\ tr[o] = NoTrace /\ o \notin Kept /\ o \notin Saved /\ trace'[cur.no] = o
         /\ \A n \in TraceNo \ {cur.no} : trace'[n] = trace[n]
         /\ \A n \in TraceNo : trace[n] \in Obj => trace'[n] = trace[n] /\ trace[n] # o /\ n # cur.no
         /\ MarkLinks[o] = {} /\ SideLinks[o] = {}
         /\ cur.no \in TraceNo \ {0} /\ cur.kind # "none"
<1>1. /\ o \in Obj /\ o \notin Saved /\ cur.no \in TraceNo \ {0} /\ trace[cur.no] = Cur
      /\ trace' = [trace EXCEPT ![cur.no] = o] /\ trace \in [TraceNo -> Obj \cup {Null, Cur}]
      /\ Cur \notin Obj /\ Null \notin Obj /\ trace[0] = Null
  BY Sorts DEF Adds, IInv, TypeOK, Named
<1>2. tr[o] = NoTrace /\ o \notin Kept
  BY <1>1, KeptObj DEF IInv, Named, Saved
<1>3. \A n \in TraceNo : trace[n] # o
  BY <1>1, <1>2 DEF IInv, Named, NoTrace
<1>4. MarkLinks[o] = {} /\ SideLinks[o] = {}
  BY <1>1, <1>2 DEF MarkLinks, Marks, SideLinks, NoTrace
<1>5. cur.kind # "none"
  BY DEF Adds
<1>. QED BY <1>1, <1>2, <1>3, <1>4, <1>5

LEMMA AddsChains ==
  ASSUME IInv, NEW o, NEW R, NEW F, NEW u, NEW P \in SUBSET Proto, Adds(o, R, F, u, P),
         cur'.nextroot = 0, TypeOK', patch = NoPC, patch' = NoPC
  PROVE  /\ \A q \in Proto : Chain(q)' = IF q \in P THEN Chain(q) \cup {cur.no} ELSE Chain(q)
         /\ ChainsSound'
<1>. DEFINE U == TraceNo \ {0}
            N == Nextroots
            M == Nextroots'
<1>0. /\ TypeOK /\ cur.nextroot = 0 /\ cur.no \in U /\ trace[cur.no] = Cur /\ Cur \notin Obj /\ Null \notin Obj
      /\ Cur # Null
  BY Sorts DEF IInv, RecorderSound, Adds
<1>1. /\ o \in Obj /\ trace'[cur.no] = o
      /\ \A n \in TraceNo \ {cur.no} : trace'[n] = trace[n]
      /\ \A n \in TraceNo : trace[n] \in Obj => trace'[n] = trace[n] /\ trace[n] # o /\ n # cur.no
  BY AddsNew
<1>2. N \in [U -> SUBSET U] /\ \A m \in U : N[m] = IF trace[m] \in Obj THEN {tr[trace[m]].nextroot} \ {0} ELSE {}
  BY <1>0, LinkTypes, NextrootsAre
<1>3. \A m \in U : M[m] = IF m = cur.no THEN {tr'[o].nextroot} \ {0} ELSE N[m]
  <2>. SUFFICES ASSUME NEW m \in U PROVE M[m] = IF m = cur.no THEN {tr'[o].nextroot} \ {0} ELSE N[m]
    OBVIOUS
  <2>0. M[m] = {Traceref(m)'.nextroot} \ {0} /\ N[m] = {Traceref(m).nextroot} \ {0}
    BY DEF Nextroots
  <2>1. CASE m = cur.no
    <3>1. Traceref(m)' = tr'[o]
      BY <1>0, <1>1, <2>1 DEF Traceref
    <3>. QED BY <2>0, <2>1, <3>1
  <2>2. CASE m # cur.no
    <3>1. trace'[m] = trace[m] /\ trace[m] \in Obj \cup {Null, Cur}
      BY <1>0, <1>1, <2>2 DEF TypeOK
    <3>2. CASE trace[m] = Cur
      BY <1>0, <2>0, <2>2, <3>1, <3>2 DEF Traceref
    <3>3. CASE trace[m] = Null
      BY <1>0, <2>0, <2>2, <3>1, <3>3 DEF Traceref
    <3>4. CASE trace[m] \in Obj
      <4>1. Traceref(m)' = tr'[trace[m]] /\ Traceref(m) = tr[trace[m]]
        BY <1>0, <3>1, <3>4 DEF Traceref
      <4>2. tr'[trace[m]].nextroot = tr[trace[m]].nextroot
        BY <1>1, <3>4 DEF Adds
      <4>. QED BY <2>0, <2>2, <4>1, <4>2
    <3>. QED BY <3>1, <3>2, <3>3, <3>4
  <2>. QED BY <2>1, <2>2
<1>4. M \in [U -> SUBSET U]
  <2>1. M = [m \in U |-> M[m]]
    BY DEF Nextroots
  <2>2. tr'[o].nextroot \in TraceNo
    BY <1>1 DEF TypeOK, TraceType
  <2>. QED BY <1>2, <1>3, <2>1, <2>2
<1>5. ASSUME NEW q \in Proto
      PROVE  Chain(q)' = IF q \in P THEN Chain(q) \cup {cur.no} ELSE Chain(q)
  <2>. DEFINE C == Chain(q)
              D == Chain(q)'
              X == {pttrace[q]} \ {0}
              Y == {pttrace'[q]} \ {0}
  <2>1. /\ X \in SUBSET U /\ Y \in SUBSET U /\ C = Reach(X, N) /\ D = Reach(Y, M)
    BY <1>0 DEF TypeOK, Chain
  <2>2. X \subseteq C /\ C \subseteq U /\ cur.no \notin C /\ \A m \in C : N[m] \subseteq C
    <3>1. X \subseteq C /\ C \subseteq U /\ \A m \in C : N[m] \subseteq C
      BY <1>0, ChainIs
    <3>2. cur.no \notin C
      BY <1>0 DEF IInv, ChainsSound
    <3>. QED BY <3>1, <3>2
  <2>a. /\ q \in P => Y = {cur.no} /\ {tr'[o].nextroot} \ {0} = X
        /\ q \notin P => Y = X
    <3>1. CASE q \in P
      <4>1. pttrace'[q] = cur.no /\ q = ProtoOf[cur.startpc] /\ tr'[o].nextroot = pttrace[q]
        BY <3>1 DEF Adds
      <4>. QED BY <1>0, <3>1, <4>1
    <3>2. CASE q \notin P
      BY <3>2 DEF Adds
    <3>. QED BY <3>1, <3>2
  <2>. HIDE DEF C, D, X, Y, N, M, U
  <2>3. CASE q \notin P
    <3>1. \A m \in C : N[m] \subseteq C /\ M[m] = N[m]
      BY <1>3, <2>2
    <3>2. N \in [U -> SUBSET U] /\ X \in SUBSET U /\ C \in SUBSET U /\ X \subseteq C
      BY <1>2, <2>1, <2>2
    <3>3. Reach(X, M) = Reach(X, N)
      BY <1>4, <3>1, <3>2, ReachSame
    <3>. QED BY <2>1, <2>3, <2>a, <3>3 DEF C, D
  <2>4. CASE q \in P
    <3>0. Y = {cur.no} /\ M[cur.no] = X /\ N[cur.no] = {}
      BY <1>0, <1>2, <1>3, <2>4, <2>a
    <3>. DEFINE S == C \cup {cur.no}
    <3>1. S \in SUBSET U /\ Y \subseteq S /\ \A m \in S : M[m] \subseteq S
      BY <1>0, <1>3, <2>2, <3>0
    <3>2. D \subseteq S
      <4>. HIDE DEF S
      <4>. QED BY <1>4, <2>1, <3>1, ReachLeast
    <3>3. Y \subseteq D /\ D \subseteq U /\ \A m \in D : M[m] \subseteq D
      BY <1>4, <2>1, ReachIs
    <3>4. X \subseteq D /\ \A m \in D : N[m] \subseteq D
      BY <1>3, <3>0, <3>3
    <3>5. C \subseteq D
      BY <1>2, <2>1, <3>3, <3>4, ReachLeast
    <3>6. D = S
      BY <3>0, <3>2, <3>3, <3>5
    <3>. QED BY <2>4, <3>6 DEF C, D
  <2>. QED BY <2>3, <2>4
<1>. HIDE DEF U, N, M
<1>6. ASSUME NEW q \in Proto, NEW n \in Chain(q)'
      PROVE  trace'[n] \in Obj /\ tr'[trace'[n]].kind \in {"LOOP", "RET"} /\ ProtoOf[tr'[trace'[n]].startpc] = q
  <2>1. CASE n \in Chain(q)
    <3>1. n \in TraceNo /\ trace[n] \in Obj /\ tr[trace[n]].kind \in {"LOOP", "RET"} /\ ProtoOf[tr[trace[n]].startpc] = q
      BY <1>0, <2>1, ChainIs DEF IInv, ChainsSound
    <3>2. trace'[n] = trace[n] /\ trace[n] # o
      BY <1>1, <3>1
    <3>. QED BY <3>1, <3>2 DEF Adds
  <2>2. CASE n \notin Chain(q)
    <3>1. q \in P /\ n = cur.no
      BY <1>5, <1>6, <2>2
    <3>2. trace'[n] = o /\ P = {ProtoOf[cur.startpc]} /\ cur.kind \in {"LOOP", "RET"}
      BY <1>1, <3>1 DEF Adds
    <3>. QED BY <1>1, <3>1, <3>2 DEF Adds
  <2>. QED BY <2>1, <2>2
<1>7. ASSUME NEW pc \in Pc, op'[pc] = "JLOOP"
      PROVE  jd'[pc] \in Chain(ProtoOf[pc])' /\ tr'[trace'[jd'[pc]]].startpc = pc
  <2>0. ProtoOf[pc] \in Proto /\ op \in [Pc -> {"LOOP", "JLOOP", "ILOOP"}] /\ jd \in [Pc -> TraceNo]
    BY <1>0, Sorts DEF TypeOK
  <2>1. CASE P # {} /\ pc = cur.startpc
    <3>1. jd'[pc] = cur.no /\ P = {ProtoOf[pc]}
      BY <2>0, <2>1 DEF Adds
    <3>2. tr'[o].startpc = pc
      BY <2>1 DEF Adds
    <3>. QED BY <1>1, <1>5, <2>0, <3>1, <3>2
  <2>2. CASE ~(P # {} /\ pc = cur.startpc)
    <3>1. op[pc] = "JLOOP" /\ jd'[pc] = jd[pc]
      <4>1. CASE P = {}
        BY <1>7, <4>1 DEF Adds
      <4>2. CASE P # {}
        <5>1. op' = [op EXCEPT ![cur.startpc] = "JLOOP"] /\ jd' = [jd EXCEPT ![cur.startpc] = cur.no]
          BY <4>2 DEF Adds
        <5>. QED BY <1>7, <2>0, <2>2, <4>2, <5>1
      <4>. QED BY <4>1, <4>2
    <3>2. /\ jd[pc] \in Chain(ProtoOf[pc]) /\ jd[pc] \in TraceNo /\ trace[jd[pc]] \in Obj
          /\ tr[trace[jd[pc]]].startpc = pc
      BY <3>1, JloopKept
    <3>3. trace'[jd[pc]] = trace[jd[pc]] /\ tr'[trace[jd[pc]]].startpc = pc
      BY <1>1, <3>2 DEF Adds
    <3>. QED BY <1>5, <2>0, <3>1, <3>2, <3>3
  <2>. QED BY <2>1, <2>2
<1>8. ChainsSound'
  <2>1. \A pc \in Pc : pc # patch'
    BY Sorts
  <2>. QED BY <1>6, <1>7, <2>1 DEF ChainsSound
<1>. QED BY <1>5, <1>8

\* The new trace is all that the prototypes may keep besides.
LEMMA AddsKept ==
  ASSUME IInv, NEW o, NEW R, NEW F, NEW u, NEW P \in SUBSET Proto, Adds(o, R, F, u, P), SetUp
  PROVE  Kept \subseteq Kept' /\ Kept' \subseteq Kept \cup {o}
<1>. DEFINE N == MarkLinks
            M == MarkLinks'
            H == Heads
            G == Heads'
            K == Kept
            L == Kept'
            no == cur.no
<1>0. /\ TypeOK /\ K \subseteq Obj /\ H \subseteq K /\ \A x \in K : N[x] \subseteq K
      /\ N \in [Obj -> SUBSET Obj] /\ M \in [Obj -> SUBSET Obj] /\ cur.link \in TraceNo
      /\ no \in TraceNo \ {0} /\ trace[no] = Cur /\ cur.nextroot = 0
  BY HeadsObj, KeptIs, LinkTypes DEF IInv, RecorderSound, MarkLinks, Adds, TypeOK, TraceType
<1>1. /\ o \in Obj /\ tr[o] = NoTrace /\ o \notin K /\ trace'[no] = o
      /\ \A n \in TraceNo \ {no} : trace'[n] = trace[n]
      /\ \A n \in TraceNo : trace[n] \in Obj => trace'[n] = trace[n] /\ trace[n] # o /\ n # no
      /\ N[o] = {}
  BY AddsNew
<1>2. ASSUME NEW q \in Proto, pttrace[q] # 0
      PROVE  trace[pttrace[q]] \in K /\ trace'[pttrace[q]] = trace[pttrace[q]] /\ pttrace[q] \in TraceNo
  <2>1. trace[pttrace[q]] \in Heads
    BY <1>2 DEF Heads
  <2>2. trace[pttrace[q]] \in K /\ pttrace[q] \in TraceNo
    BY <1>0, <2>1 DEF TypeOK
  <2>. QED BY <1>0, <1>1, <2>2
<1>3. \A q \in Proto : pttrace'[q] = IF q \in P THEN no ELSE pttrace[q]
  BY DEF Adds
\* what kept traces lead to
<1>4. ASSUME NEW x \in K
      PROVE  /\ x \in Obj /\ x # o /\ tr[x].no # 0 /\ tr'[x].no = tr[x].no
             /\ {tr[x].link, tr[x].nextroot, tr[x].nextside} \subseteq TraceNo
             /\ \A n \in {tr[x].link, tr[x].nextroot, tr[x].nextside} \ {0} :
                  trace[n] \in K /\ trace'[n] = trace[n]
             /\ tr'[x].link = (IF x = u THEN no ELSE tr[x].link)
             /\ tr'[x].nextside = (IF x = R THEN no ELSE tr[x].nextside)
             /\ tr'[x].nextroot = tr[x].nextroot
             /\ (x = u => tr[x].link = 0) /\ (x = R => tr'[o].nextside = tr[x].nextside)
  <2>1. x \in Obj /\ tr[x].no # 0 /\ x # o /\ tr[x] \in TraceType /\ LinkSound(x) /\ trace[tr[x].no] = x
    BY <1>1, <1>4, KeptObj DEF IInv, KeptSound
  <2>2. \A n \in {tr[x].link, tr[x].nextroot, tr[x].nextside} \ {0} : trace[n] \in Obj /\ n \in TraceNo
    BY <2>1 DEF LinkSound, TraceType
  <2>3. \A n \in {tr[x].link, tr[x].nextroot, tr[x].nextside} \ {0} : trace[n] \in K /\ trace'[n] = trace[n]
    BY <1>0, <1>1, <1>4, <2>1, <2>2, LinksKept DEF IInv
  <2>4. x = u => tr[x].link = 0
    <3>1. u # Null => tr[u].link = 0
      BY DEF Adds
    <3>2. Null \notin Obj
      BY Sorts
    <3>. QED BY <2>1, <3>1, <3>2
  <2>5. x = R => tr'[o].nextside = tr[x].nextside
    <3>1. R # Null => tr'[o].nextside = tr[R].nextside
      BY DEF Adds
    <3>2. Null \notin Obj
      BY Sorts
    <3>. QED BY <2>1, <3>1, <3>2
  <2>6. /\ tr'[x].link = (IF x = u THEN no ELSE tr[x].link)
        /\ tr'[x].nextside = (IF x = R THEN no ELSE tr[x].nextside)
        /\ tr'[x].nextroot = tr[x].nextroot /\ tr'[x].no = tr[x].no
    BY <2>1 DEF Adds
  <2>. QED BY <2>1, <2>3, <2>4, <2>5, <2>6 DEF TraceType
\* ... and the new one
<1>5. \A n \in {tr'[o].link, tr'[o].nextroot, tr'[o].nextside} \ {0} : trace'[n] \in K \cup {o}
  <2>1. tr'[o].link # 0 => trace'[tr'[o].link] \in K \cup {o}
    <3>1. tr'[o].link = cur.link
      BY DEF Adds
    <3>2. cur.link \in {0, no} \/ trace[cur.link] \in K
      BY DEF IInv, HoldsSound
    <3>3. trace[cur.link] \in K => trace'[cur.link] = trace[cur.link]
      BY <1>0, <1>1
    <3>. QED BY <1>1, <3>1, <3>2, <3>3
  <2>2. tr'[o].nextroot # 0 => trace'[tr'[o].nextroot] \in K
    <3>. SUFFICES ASSUME tr'[o].nextroot # 0 PROVE trace'[tr'[o].nextroot] \in K
      OBVIOUS
    <3>1. P = {ProtoOf[cur.startpc]} /\ tr'[o].nextroot = pttrace[ProtoOf[cur.startpc]]
      BY DEF Adds
    <3>. QED BY <1>2, <3>1
  <2>3. tr'[o].nextside # 0 => trace'[tr'[o].nextside] \in K
    <3>. SUFFICES ASSUME tr'[o].nextside # 0 PROVE trace'[tr'[o].nextside] \in K
      OBVIOUS
    <3>1. R \in K /\ tr'[o].nextside = tr[R].nextside
      BY DEF Adds
    <3>. QED BY <1>4, <3>1
  <2>. QED BY <2>1, <2>2, <2>3
<1>6. \A x \in Obj : \A y : y \in M[x] <=>
         /\ y \in Obj /\ tr'[x].no # 0
         /\ \E n \in {tr'[x].link, tr'[x].nextroot, tr'[x].nextside} \ {0} : y = trace'[n]
  BY Zenon DEF MarkLinks, Marks
<1>7. \A x \in Obj : \A y : y \in N[x] =>
         \E n \in {tr[x].link, tr[x].nextroot, tr[x].nextside} \ {0} : y = trace[n]
  BY Zenon DEF MarkLinks, Marks
<1>8. L = Reach(G, M) /\ K = Reach(H, N)
  BY DEF Kept
<1>9. G \subseteq K \cup {o}
  <2>. SUFFICES ASSUME NEW q \in Proto, pttrace'[q] # 0 PROVE trace'[pttrace'[q]] \in K \cup {o}
    BY DEF Heads
  <2>. QED BY <1>1, <1>2, <1>3
<1>10. \A x \in K \cup {o} : M[x] \subseteq K \cup {o}
  <2>1. \A y \in M[o] : y \in K \cup {o}
    BY <1>1, <1>5, <1>6
  <2>2. ASSUME NEW x \in K, NEW y \in M[x] PROVE y \in K \cup {o}
    <3>1. PICK n \in {tr'[x].link, tr'[x].nextroot, tr'[x].nextside} \ {0} : y = trace'[n]
      BY <1>4, <1>6, <2>2
    <3>2. n = no \/ n \in {tr[x].link, tr[x].nextroot, tr[x].nextside} \ {0}
      BY <1>4, <2>2
    <3>3. n # no => trace'[n] \in K
      BY <1>4, <2>2, <3>2
    <3>. QED BY <1>1, <3>1, <3>3
  <2>. QED BY <2>1, <2>2
<1>. HIDE DEF N, M, H, G, K, L
<1>11. L \subseteq K \cup {o}
  <2>1. K \cup {o} \in SUBSET Obj
    BY <1>0, <1>1
  <2>. QED BY <1>0, <1>8, <1>9, <1>10, <2>1, ReachLeast
<1>12. G \subseteq L /\ L \subseteq Obj /\ \A x \in L : M[x] \subseteq L
  <2>1. G \in SUBSET Obj
    BY <1>0, <1>1, <1>9
  <2>. QED BY <1>0, <1>8, <2>1, ReachIs
<1>13. H \subseteq L
  <2>. SUFFICES ASSUME NEW q \in Proto, pttrace[q] # 0 PROVE trace[pttrace[q]] \in L
    BY DEF Heads, H
  <2>1. CASE q \notin P
    <3>1. trace[pttrace[q]] \in G
      BY <1>2, <1>3, <2>1 DEF Heads, G
    <3>. QED BY <1>12, <3>1
  <2>2. CASE q \in P
    <3>1. o \in G
      <4>1. pttrace'[q] = no
        BY <1>3, <2>2
      <4>. QED BY <1>0, <1>1, <4>1 DEF Heads, G
    <3>2. tr'[o].nextroot = pttrace[q] /\ tr'[o].no # 0
      <4>1. P = {ProtoOf[cur.startpc]} /\ tr'[o].nextroot = pttrace[ProtoOf[cur.startpc]]
        BY <2>2 DEF Adds
      <4>2. tr'[o].no = no
        BY DEF Adds
      <4>. QED BY <1>0, <2>2, <4>1, <4>2
    <3>3. trace[pttrace[q]] \in M[o]
      <4>1. trace'[pttrace[q]] \in Obj
        BY <1>0, <1>2
      <4>. QED BY <1>1, <1>2, <1>6, <3>2, <4>1
    <3>. QED BY <1>12, <3>1, <3>3
  <2>. QED BY <2>1, <2>2
<1>14. ASSUME NEW x \in L PROVE N[x] \subseteq L
  <2>1. CASE x = o
    BY <1>1, <2>1
  <2>2. CASE x # o
    <3>1. x \in K
      BY <1>11, <2>2
    <3>. SUFFICES ASSUME NEW y \in N[x] PROVE y \in L
      OBVIOUS
    <3>2. PICK n \in {tr[x].link, tr[x].nextroot, tr[x].nextside} \ {0} : y = trace[n]
      BY <1>4, <1>7, <3>1
    <3>3. y \in K /\ y \in Obj /\ trace'[n] = y
      BY <1>0, <1>4, <3>1, <3>2
    <3>4. CASE n \in {tr'[x].link, tr'[x].nextroot, tr'[x].nextside}
      <4>1. y \in M[x]
        BY <1>4, <1>6, <3>1, <3>2, <3>3, <3>4
      <4>. QED BY <1>12, <4>1
    <3>5. CASE n \notin {tr'[x].link, tr'[x].nextroot, tr'[x].nextside}
      <4>1. x = R /\ n = tr[x].nextside /\ tr'[x].nextside = no /\ tr'[o].nextside = n
        BY <1>4, <3>1, <3>2, <3>5
      <4>2. o \in M[x]
        BY <1>0, <1>1, <1>4, <1>6, <3>1, <4>1
      <4>3. tr'[o].no # 0
        BY <1>0 DEF Adds
      <4>4. y \in M[o]
        BY <1>1, <1>6, <3>2, <3>3, <4>1, <4>3
      <4>. QED BY <1>12, <4>2, <4>4
    <3>. QED BY <3>4, <3>5
  <2>. QED BY <2>1, <2>2
<1>15. K \subseteq L
  BY <1>0, <1>8, <1>12, <1>13, <1>14, ReachLeast
<1>. QED BY <1>11, <1>15 DEF K, L

\* A list of side traces keeps what it has, and gets the new trace.
LEMMA AddsSides ==
  ASSUME IInv, NEW o, NEW R, NEW F, NEW u, NEW P \in SUBSET Proto, Adds(o, R, F, u, P), TypeOK'
  PROVE  /\ \A Q \in Obj : SideList(Q) \subseteq SideList(Q)'
         /\ R # Null => o \in SideList(R)'
<1>. DEFINE N == SideLinks
            M == SideLinks'
            no == cur.no
<1>0. /\ N \in [Obj -> SUBSET Obj] /\ tr \in [Obj -> TraceType] /\ Null \notin Obj
      /\ no \in TraceNo \ {0}
  BY LinkTypes, Sorts DEF IInv, TypeOK, Adds
<1>a. M \in [Obj -> SUBSET Obj]
  BY DEF SideLinks
<1>1. /\ o \in Obj /\ trace'[no] = o /\ N[o] = {}
      /\ \A n \in TraceNo : trace[n] \in Obj => trace'[n] = trace[n]
  BY AddsNew
<1>2. R # Null => R \in Obj /\ R # o /\ tr'[R].nextside = no /\ tr'[o].nextside = tr[R].nextside
  <2>. SUFFICES ASSUME R # Null PROVE R \in Obj /\ R # o /\ tr'[R].nextside = no /\ tr'[o].nextside = tr[R].nextside
    OBVIOUS
  <2>1. R \in Kept /\ tr'[o].nextside = tr[R].nextside
    BY DEF Adds
  <2>2. R \in Obj /\ R # o
    BY <2>1, KeptObj, AddsNew
  <2>. QED BY <2>1, <2>2 DEF Adds
<1>3. \A x \in Obj : \A y : y \in M[x] <=> y \in Obj /\ tr'[x].nextside # 0 /\ y = trace'[tr'[x].nextside]
  BY DEF SideLinks
<1>4. \A x \in Obj : \A y : y \in N[x] <=> y \in Obj /\ tr[x].nextside # 0 /\ y = trace[tr[x].nextside]
  BY DEF SideLinks
<1>5. ASSUME NEW x \in Obj, x # R, NEW y \in N[x] PROVE y \in M[x]
  <2>1. x # o
    BY <1>1, <1>5
  <2>2. tr'[x].nextside = tr[x].nextside /\ tr[x].nextside \in TraceNo
    BY <1>0, <1>5, <2>1 DEF Adds, TraceType
  <2>. QED BY <1>1, <1>3, <1>4, <1>5, <2>2
<1>6. ASSUME R # Null PROVE o \in M[R] /\ N[R] \subseteq M[o]
  <2>1. o \in M[R]
    BY <1>0, <1>1, <1>2, <1>3, <1>6
  <2>2. tr[R].nextside \in TraceNo
    BY <1>0, <1>2, <1>6 DEF TraceType
  <2>. QED BY <1>1, <1>2, <1>3, <1>4, <1>6, <2>1, <2>2
<1>7. ASSUME NEW Q \in Obj
      PROVE  /\ SideList(Q)' = Reach({Q}, M) /\ SideList(Q) = Reach({Q}, N)
             /\ {Q} \in SUBSET Obj
  BY DEF SideList
<1>. HIDE DEF N, M
<1>8. ASSUME NEW Q \in Obj PROVE SideList(Q) \subseteq SideList(Q)' /\ Q \in SideList(Q)' /\ \A x \in SideList(Q)' : M[x] \subseteq SideList(Q)'
  <2>. DEFINE X == {Q}
              D == SideList(Q)'
  <2>. HIDE DEF X
  <2>0. X \in SUBSET Obj /\ Q \in X
    BY DEF X
  <2>1. D = Reach(X, M) /\ SideList(Q) = Reach(X, N)
    BY <1>7 DEF X
  <2>. HIDE DEF D
  <2>2. X \subseteq D /\ D \subseteq Obj /\ \A x \in D : M[x] \subseteq D
    BY <1>a, <2>0, <2>1, ReachIs
  <2>3. ASSUME NEW x \in D PROVE N[x] \subseteq D
    <3>1. CASE x # R
      BY <1>5, <2>2, <3>1
    <3>2. CASE x = R
      <4>1. R # Null
        BY <1>0, <2>2, <3>2
      <4>. QED BY <1>6, <2>2, <3>2, <4>1
    <3>. QED BY <3>1, <3>2
  <2>4. SideList(Q) \subseteq D
    BY <1>0, <2>1, <2>2, <2>3, ReachLeast
  <2>. QED BY <2>0, <2>2, <2>4 DEF D
<1>. QED BY <1>2, <1>6, <1>8

\* The traces keep their roots and sound links, the new one among them.
LEMMA AddsKeptSound ==
  ASSUME IInv, NEW o, NEW R, NEW F, NEW u, NEW P \in SUBSET Proto, Adds(o, R, F, u, P), SetUp,
         TypeOK', UNCHANGED dead
  PROVE  /\ KeptSound'
         /\ \A x \in Kept : RootOf(x)' = RootOf(x) /\ RootOf(x) \in Obj
<1>. DEFINE no == cur.no
<1>0. /\ no \in TraceNo \ {0} /\ tr \in [Obj -> TraceType] /\ tr' \in [Obj -> TraceType]
      /\ Null \notin Obj /\ o \in Obj /\ o \notin Kept /\ o \notin Saved /\ trace'[no] = o
      /\ \A n \in TraceNo : trace[n] \in Obj => trace'[n] = trace[n] /\ trace[n] # o /\ n # no
      /\ tr'[o].no = no /\ dead \subseteq Saved /\ dead' = dead /\ Cur \notin Obj /\ trace[no] = Cur
  <2>1. /\ no \in TraceNo \ {0} /\ o \in Obj /\ o \notin Kept /\ o \notin Saved /\ trace'[no] = o
        /\ \A n \in TraceNo : trace[n] \in Obj => trace'[n] = trace[n] /\ trace[n] # o /\ n # no
    BY AddsNew
  <2>2. tr'[o].no = no /\ trace[no] = Cur /\ tr' \in [Obj -> TraceType]
    BY DEF Adds
  <2>3. dead \subseteq Saved /\ dead' = dead /\ tr \in [Obj -> TraceType]
    BY DEF IInv, TypeOK, Named
  <2>. QED BY <2>1, <2>2, <2>3, Sorts
<1>2. /\ \A Q \in Obj : SideList(Q) \subseteq SideList(Q)'
      /\ R # Null => o \in SideList(R)'
  <2>. HIDE DEF no
  <2>. QED BY AddsSides, Zenon
<1>1. ASSUME NEW x \in Kept
      PROVE  /\ x \in Obj /\ x # o /\ tr[x].no \in TraceNo \ {0} /\ trace[tr[x].no] = x /\ x \notin dead
             /\ tr[x] \in TraceType /\ LinkSound(x) /\ tr'[x].no = tr[x].no /\ tr'[x].root = tr[x].root
             /\ tr'[x].jump = tr[x].jump /\ tr'[x].nextroot = tr[x].nextroot
             /\ tr'[x].link = (IF x = u THEN no ELSE tr[x].link)
             /\ tr'[x].nextside = (IF x = R THEN no ELSE tr[x].nextside)
             /\ tr'[x].side = (IF x = F THEN o ELSE tr[x].side)
             /\ RootOf(x) \in Kept /\ RootOf(x) \in Obj /\ RootOf(x)' = RootOf(x)
             /\ trace'[tr[x].no] = x
  <2>1. /\ x \in Obj /\ x # o /\ tr[x].no \in TraceNo \ {0} /\ trace[tr[x].no] = x /\ x \notin dead
        /\ tr[x] \in TraceType /\ LinkSound(x)
    BY <1>0, KeptObj DEF IInv, KeptSound
  <2>2. RootOf(x) \in Kept /\ RootOf(x) \in Obj
    <3>1. RootOf(x) \in Kept
      BY Rooted DEF IInv
    <3>. QED BY <3>1, KeptObj
  <2>3. /\ tr'[x].no = tr[x].no /\ tr'[x].root = tr[x].root /\ tr'[x].jump = tr[x].jump
        /\ tr'[x].nextroot = tr[x].nextroot
        /\ tr'[x].link = (IF x = u THEN no ELSE tr[x].link)
        /\ tr'[x].nextside = (IF x = R THEN no ELSE tr[x].nextside)
        /\ tr'[x].side = (IF x = F THEN o ELSE tr[x].side)
    BY <2>1 DEF Adds
  <2>4. RootOf(x)' = RootOf(x)
    <3>1. tr[x].root \in TraceNo
      BY <2>1 DEF TraceType
    <3>2. CASE tr[x].root = 0
      BY <2>3, <3>2 DEF RootOf
    <3>3. CASE tr[x].root # 0
      <4>1. trace[tr[x].root] \in Obj
        BY <2>2, <3>3 DEF RootOf
      <4>. QED BY <1>0, <2>3, <3>1, <3>3, <4>1 DEF RootOf
    <3>. QED BY <3>2, <3>3
  <2>. QED BY <1>0, <2>1, <2>2, <2>3, <2>4
<1>3. /\ u # Null => u \in Kept /\ tr[u].link = 0 /\ cur.root = 0
      /\ R # Null => R \in Kept /\ tr[R].root = 0 /\ cur.root # 0 /\ cur.root = tr[R].no /\ tr'[o].nextside = tr[R].nextside
      /\ R = Null => tr'[o].nextside = 0 /\ cur.root = 0
      /\ F # Null => F \in Kept /\ R # Null /\ R = RootOf(F)
      /\ tr'[o].root = cur.root /\ tr'[o].link = cur.link /\ tr'[o].side = Null
  BY DEF Adds
\* what is linked from a kept trace stays as it is
<1>4. ASSUME NEW n \in TraceNo, trace[n] \in Obj
      PROVE  trace'[n] = trace[n] /\ trace[n] # o /\ tr'[trace[n]].root = tr[trace[n]].root
             /\ tr'[trace[n]].no = tr[trace[n]].no
  BY <1>0, <1>4 DEF Adds
<1>5. ASSUME NEW x \in Kept PROVE LinkSound(x)'
  <2>1. tr'[x].jump \in {Null, x} \/ (tr'[x].link # 0 /\ tr'[x].jump = trace'[tr'[x].link])
    <3>1. tr[x].jump \in {Null, x} \/ (tr[x].link # 0 /\ tr[x].jump = trace[tr[x].link])
      BY <1>1 DEF LinkSound
    <3>2. CASE tr[x].jump \in {Null, x}
      BY <1>1, <3>2
    <3>3. CASE tr[x].link # 0 /\ tr[x].jump = trace[tr[x].link]
      <4>1. tr'[x].link = tr[x].link
        BY <1>0, <1>1, <1>3, <3>3
      <4>2. tr[x].link = tr[x].no \/ trace[tr[x].link] \in Obj
        BY <1>1, <3>3 DEF LinkSound
      <4>3. trace[tr[x].link] \in Obj /\ tr[x].link \in TraceNo
        BY <1>1, <4>2 DEF TraceType
      <4>. QED BY <1>1, <1>4, <3>3, <4>1, <4>3
    <3>. QED BY <3>1, <3>2, <3>3
  <2>2. ASSUME NEW n \in {tr'[x].link, tr'[x].nextroot} \ {0, tr'[x].no}
        PROVE  trace'[n] \in Obj /\ tr'[trace'[n]].root = 0
    <3>1. CASE n = no /\ x = u
      BY <1>0, <1>1, <1>3, <3>1
    <3>2. CASE ~(n = no /\ x = u)
      <4>1. n \in {tr[x].link, tr[x].nextroot} \ {0, tr[x].no} /\ n \in TraceNo
        BY <1>1, <2>2, <3>2 DEF TraceType
      <4>2. trace[n] \in Obj /\ tr[trace[n]].root = 0
        BY <1>1, <4>1 DEF LinkSound
      <4>. QED BY <1>4, <4>1, <4>2
    <3>. QED BY <3>1, <3>2
  <2>3. ASSUME tr'[x].nextside # 0
        PROVE  trace'[tr'[x].nextside] \in Obj /\ tr'[trace'[tr'[x].nextside]].root = tr'[RootOf(x)].no
    <3>0. tr'[RootOf(x)].no = tr[RootOf(x)].no
      BY <1>1
    <3>1. CASE x = R
      <4>1. R # Null
        BY <1>0, <1>1, <3>1
      <4>2. RootOf(x) = x
        BY <1>3, <3>1, <4>1 DEF RootOf
      <4>. QED BY <1>0, <1>1, <1>3, <3>0, <3>1, <4>1, <4>2
    <3>2. CASE x # R
      <4>1. tr'[x].nextside = tr[x].nextside /\ tr[x].nextside \in TraceNo
        BY <1>1, <3>2 DEF TraceType
      <4>2. trace[tr[x].nextside] \in Obj /\ tr[trace[tr[x].nextside]].root = tr[RootOf(x)].no
        BY <1>1, <2>3, <4>1 DEF LinkSound
      <4>. QED BY <1>4, <3>0, <4>1, <4>2
    <3>. QED BY <3>1, <3>2
  <2>4. ASSUME tr'[x].side # Null PROVE tr'[x].side \in SideList(RootOf(x))'
    <3>1. CASE x = F
      <4>0. F # Null
        BY <1>0, <1>1, <3>1
      <4>1. R # Null /\ R = RootOf(x)
        BY <1>3, <3>1, <4>0, Zenon
      <4>2. tr'[x].side = o
        BY <1>1, <3>1
      <4>. QED BY <1>1, <1>2, <4>1, <4>2
    <3>2. CASE x # F
      <4>1. tr'[x].side = tr[x].side
        BY <1>1, <3>2
      <4>2. tr[x].side \in SideList(RootOf(x))
        BY <1>1, <2>4, <4>1 DEF LinkSound
      <4>. QED BY <1>1, <1>2, <4>1, <4>2
    <3>. QED BY <3>1, <3>2
  <2>. QED BY <1>1, <2>1, <2>2, <2>3, <2>4 DEF LinkSound
<1>6. LinkSound(o)'
  <2>1. tr'[o].jump \in {Null, o} \/ (tr'[o].link # 0 /\ tr'[o].jump = trace'[tr'[o].link])
    <3>1. tr'[o].jump \in {Null, o} \/ (cur.link \notin {0, no} /\ tr'[o].jump = trace[cur.link])
      BY DEF Adds
    <3>2. cur.link \notin {0, no} => trace'[cur.link] = trace[cur.link]
      <4>1. cur.link \in TraceNo /\ (cur.link \notin {0, no} => trace[cur.link] \in Kept)
        BY DEF IInv, HoldsSound, TypeOK, TraceType
      <4>. QED BY <1>1, <1>4, <4>1
    <3>. QED BY <1>3, <3>1, <3>2
  <2>2. ASSUME NEW n \in {tr'[o].link, tr'[o].nextroot} \ {0, no}
        PROVE  trace'[n] \in Obj /\ tr'[trace'[n]].root = 0
    <3>1. CASE n = cur.link
      <4>1. trace[n] \in Kept /\ tr[trace[n]].root = 0 /\ n \in TraceNo
        BY <2>2, <3>1 DEF IInv, HoldsSound, TypeOK, TraceType
      <4>. QED BY <1>1, <1>4, <4>1
    <3>2. CASE n # cur.link
      <4>1. n = tr'[o].nextroot /\ n # 0
        BY <1>3, <2>2, <3>2
      <4>2. cur.startpc \in Pc /\ n = pttrace[ProtoOf[cur.startpc]]
        BY <4>1 DEF Adds
      <4>3. ProtoOf[cur.startpc] \in Proto
        BY <4>2, Sorts
      <4>4. n \in Chain(ProtoOf[cur.startpc]) /\ n \in TraceNo
        BY <4>1, <4>2, <4>3, ChainIs DEF IInv
      <4>5. trace[n] \in Obj /\ tr[trace[n]].kind \in {"LOOP", "RET"}
        BY <4>3, <4>4 DEF IInv, ChainsSound
      <4>6. tr[trace[n]].root = 0
        BY <4>5 DEF IInv, Shapes, Saved
      <4>. QED BY <1>4, <4>4, <4>5, <4>6
    <3>. QED BY <3>1, <3>2
  <2>3. ASSUME tr'[o].nextside # 0
        PROVE  trace'[tr'[o].nextside] \in Obj /\ tr'[trace'[tr'[o].nextside]].root = tr'[RootOf(o)'].no
    <3>1. R # Null /\ R \in Kept /\ tr[R].root = 0 /\ tr'[o].root = tr[R].no /\ tr'[o].nextside = tr[R].nextside
      BY <1>3, <2>3
    <3>2. RootOf(o)' = R
      BY <1>1, <3>1 DEF RootOf
    <3>3. RootOf(R) = R /\ tr[R].nextside \in TraceNo
      BY <1>1, <3>1 DEF RootOf, TraceType
    <3>4. trace[tr[R].nextside] \in Obj /\ tr[trace[tr[R].nextside]].root = tr[R].no
      BY <1>1, <2>3, <3>1, <3>3 DEF LinkSound
    <3>5. tr'[R].no = tr[R].no
      BY <1>1, <3>1
    <3>. QED BY <1>4, <3>1, <3>2, <3>3, <3>4, <3>5
  <2>. QED BY <1>0, <1>3, <2>1, <2>2, <2>3 DEF LinkSound
<1>7. ASSUME NEW x \in Kept' PROVE x \notin dead' /\ tr'[x].no # 0 /\ LinkSound(x)'
  <2>1. x \in Kept \/ x = o
    BY AddsKept
  <2>. QED BY <1>0, <1>1, <1>5, <1>6, <2>1
<1>8. KeptSound'
  BY <1>7 DEF KeptSound
<1>. QED BY <1>1, <1>8

\* what trace_stop does besides
LEMMA StopKeeps ==
  ASSUME IInv, NEW o \in Obj, trace_stop(o)
  PROVE  /\ \A x \in Obj \ {o} : x \notin Kept => tr'[x] = tr[x]
         /\ \A x \in Obj \ {o} : tr'[x].stitch = tr[x].stitch
         /\ tr'[o].stitch = cur.stitch
<1>. DEFINE no == cur.no
            jump == CASE cur.link = 0 -> Null [] cur.link = no -> o [] OTHER -> trace[cur.link]
            new == [cur EXCEPT !.jump = jump]
<1>0. /\ state = "asm" /\ event = "none"
      /\ \/ /\ cur.kind \in {"LOOP", "RET"}
            /\ tr' = [tr EXCEPT ![o] = [new EXCEPT !.nextroot = pttrace[ProtoOf[cur.startpc]]]]
         \/ /\ cur.kind = "JMP" /\ Patchexit \in Obj /\ trace[cur.root] \in Obj
            /\ tr' = [x \in Obj |->
                 IF x = o THEN [new EXCEPT !.nextside = Traceref(cur.root).nextside]
                 ELSE [tr[x] EXCEPT !.side = IF x = Patchexit THEN o ELSE @,
                                    !.nextside = IF x = trace[cur.root] THEN no ELSE @]]
         \/ /\ cur.kind = "CALL" /\ trace[exitno] \in Obj
            /\ tr' = [tr EXCEPT ![o] = new, ![trace[exitno]].link = no]
  BY DEF trace_stop
<1>1. /\ cur \in TraceType /\ SetUp /\ Recording /\ tr \in [Obj -> TraceType]
  <2>1. cur \in TraceType /\ tr \in [Obj -> TraceType]
    BY DEF IInv, TypeOK
  <2>2. cur.no # 0
    BY <1>0 DEF IInv, RecorderSound
  <2>. QED BY <1>0, <2>1, <2>2 DEF SetUp, Recording
<1>2. "stitch" \in DOMAIN cur /\ \A x \in Obj : "stitch" \in DOMAIN tr[x]
  BY <1>1 DEF TraceType
<1>3. "stitch" \in DOMAIN new /\ new.stitch = cur.stitch
  <2>. HIDE DEF jump
  <2>. QED BY <1>2, Zenon
<1>. HIDE DEF new
<1>4. CASE cur.kind \in {"LOOP", "RET"}
  <2>. DEFINE v == pttrace[ProtoOf[cur.startpc]]
  <2>1. tr' = [tr EXCEPT ![o] = [new EXCEPT !.nextroot = v]]
    BY <1>0, <1>4
  <2>. HIDE DEF v
  <2>2. tr'[o] = [new EXCEPT !.nextroot = v] /\ \A x \in Obj \ {o} : tr'[x] = tr[x]
    BY <1>1, <2>1
  <2>3. tr'[o].stitch = cur.stitch
    BY <1>3, <2>2, Zenon
  <2>. QED BY <2>2, <2>3
<1>5. CASE cur.kind = "JMP"
  <2>1. trace[parent] \in Kept
    <3>1. parent # 0
      BY <1>1, <1>5 DEF IInv, RecorderSound
    <3>. QED BY <1>1, <3>1 DEF IInv, HoldsSound
  <2>2. trace[cur.root] \in Kept
    <3>1. from \in Kept /\ cur.root = tr[RootOf(from)].no
      <4>1. parent # 0
        BY <1>1, <1>5 DEF IInv, RecorderSound
      <4>. QED BY <1>1, <1>5, <4>1 DEF IInv, HoldsSound
    <3>2. RootOf(from) \in Kept
      BY <3>1, Rooted DEF IInv
    <3>3. trace[tr[RootOf(from)].no] = RootOf(from)
      BY <3>2, KeptObj
    <3>. QED BY <3>1, <3>2, <3>3
  <2>. DEFINE v == Traceref(cur.root).nextside
  <2>3. tr' = [x \in Obj |->
                 IF x = o THEN [new EXCEPT !.nextside = v]
                 ELSE [tr[x] EXCEPT !.side = IF x = trace[parent] THEN o ELSE @,
                                    !.nextside = IF x = trace[cur.root] THEN no ELSE @]]
    BY <1>0, <1>5 DEF Patchexit
  <2>. HIDE DEF v
  <2>4. tr'[o] = [new EXCEPT !.nextside = v]
    BY <2>3
  <2>5. \A x \in Obj \ {o} : tr'[x] = [tr[x] EXCEPT !.side = IF x = trace[parent] THEN o ELSE tr[x].side,
                                                  !.nextside = IF x = trace[cur.root] THEN no ELSE tr[x].nextside]
    BY <2>3
  <2>6. tr'[o].stitch = cur.stitch
    BY <1>3, <2>4, Zenon
  <2>7. ASSUME NEW x \in Obj \ {o} PROVE tr'[x].stitch = tr[x].stitch
    <3>1. "stitch" \in DOMAIN tr[x]
      BY <1>2
    <3>. DEFINE s == IF x = trace[parent] THEN o ELSE tr[x].side
                t == IF x = trace[cur.root] THEN no ELSE tr[x].nextside
    <3>2. tr'[x] = [tr[x] EXCEPT !.side = s, !.nextside = t]
      BY <2>5
    <3>. HIDE DEF s, t
    <3>. QED BY <3>1, <3>2, Zenon
  <2>8. ASSUME NEW x \in Obj \ {o}, x \notin Kept PROVE tr'[x] = tr[x]
    <3>1. tr'[x] = [tr[x] EXCEPT !.side = tr[x].side, !.nextside = tr[x].nextside]
      BY <2>1, <2>2, <2>5, <2>8
    <3>2. tr[x] \in TraceType
      BY <1>1
    <3>. QED BY <3>1, <3>2 DEF TraceType
  <2>. QED BY <2>6, <2>7, <2>8
<1>6. CASE cur.kind = "CALL"
  <2>. DEFINE u == trace[exitno]
  <2>1. u \in Kept /\ tr[u].link = 0
    <3>1. parent = 0 /\ exitno # 0
      BY <1>1, <1>6 DEF IInv, RecorderSound
    <3>. QED BY <1>1, <3>1 DEF IInv, HoldsSound, Untouched
  <2>2. u \in Obj /\ tr' = [tr EXCEPT ![o] = new, ![u].link = no] /\ u \in Saved
    BY <1>0, <1>6, <2>1, KeptObj
  <2>. HIDE DEF u
  <2>3. u # o
    BY <2>1, <2>2 DEF trace_stop
  <2>4. tr'[o] = new /\ tr'[u] = [tr[u] EXCEPT !.link = no] /\ \A x \in Obj \ {o, u} : tr'[x] = tr[x]
    BY <1>1, <2>2, <2>3
  <2>5. tr'[u].stitch = tr[u].stitch
    BY <1>2, <2>2, <2>4, Zenon
  <2>6. tr'[o].stitch = cur.stitch
    BY <1>3, <2>4, Zenon
  <2>7. ASSUME NEW x \in Obj \ {o} PROVE tr'[x].stitch = tr[x].stitch
    <3>1. CASE x = u
      BY <2>5, <3>1, Zenon
    <3>2. CASE x # u
      <4>1. tr'[x] = tr[x]
        BY <2>4, <3>2
      <4>. QED BY <4>1, Zenon
    <3>. QED BY <3>1, <3>2
  <2>8. ASSUME NEW x \in Obj \ {o}, x \notin Kept PROVE tr'[x] = tr[x]
    BY <2>1, <2>4, <2>8
  <2>. QED BY <2>6, <2>7, <2>8, Zenon
<1>. QED BY <1>0, <1>4, <1>5, <1>6

LEMMA StopStep ==
  ASSUME IInv, NEW o \in Obj, trace_stop(o), UNCHANGED prog
  PROVE  IInv'
<1>0. /\ state = "asm" /\ event = "none" /\ o \in prog.objs \ Saved
      /\ trace' = [trace EXCEPT ![cur.no] = o] /\ cur' = [cur EXCEPT !.no = 0] /\ event' = "stop"
      /\ UNCHANGED <<state, parent, exitno, jpc, err, freetrace, penalty, patch, bcskip, nojit,
                     tno, at, frame, restart, ip, dead, from, asked>>
  BY DEF trace_stop, runvars
<1>1. PICK R, F, u \in Obj \cup {Null}, P \in SUBSET Proto : Adds(o, R, F, u, P)
  BY StopAdds
<1>2. /\ patch = NoPC /\ patch' = NoPC /\ at = Null /\ ~asked /\ cur \in TraceType /\ cur.no # 0 /\ 0 \in TraceNo
      /\ cur.nextroot = 0 /\ cur.startpc \in Pc \cup {NoPC} /\ cur.no \in TraceNo
  <2>1. cur \in TraceType /\ 0 \in TraceNo
    BY Sorts DEF IInv, TypeOK, TraceNo
  <2>2. patch = NoPC /\ at = Null /\ ~asked
    BY <1>0 DEF IInv, PhasesSound
  <2>3. cur.no # 0 /\ cur.nextroot = 0
    BY <1>0 DEF IInv, RecorderSound
  <2>. QED BY <1>0, <2>1, <2>2, <2>3 DEF TraceType
<1>3. SetUp /\ Recording
  BY <1>0, <1>2 DEF SetUp, Recording
<1>4. /\ cur' \in TraceType /\ cur'.no = 0 /\ cur'.kind = cur.kind /\ cur'.startpc = cur.startpc
      /\ cur'.root = cur.root /\ cur'.nextroot = 0 /\ cur'.nextside = cur.nextside
      /\ cur'.jump = cur.jump /\ cur'.side = cur.side
  BY <1>0, <1>2 DEF TraceType
<1>s. /\ \A x \in Obj \ {o} : x \notin Kept => tr'[x] = tr[x]
      /\ \A x \in Obj \ {o} : tr'[x].stitch = tr[x].stitch
      /\ tr'[o].stitch = cur.stitch /\ cur'.stitch = cur.stitch
  <2>1. "stitch" \in DOMAIN cur
    BY <1>2 DEF TraceType
  <2>2. cur'.stitch = cur.stitch
    BY <1>0, <2>1, Zenon
  <2>. QED BY <2>2, StopKeeps, Zenon
<1>5. /\ o \in Obj /\ tr[o] = NoTrace /\ o \notin Kept /\ o \notin Saved /\ trace'[cur.no] = o
      /\ \A n \in TraceNo \ {cur.no} : trace'[n] = trace[n]
      /\ cur.kind # "none" /\ tr' \in [Obj -> TraceType] /\ trace[cur.no] = Cur
      /\ tr'[o].no = cur.no /\ tr'[o].kind = cur.kind /\ tr'[o].startpc = cur.startpc
      /\ tr'[o].root = cur.root
      /\ \A x \in Obj \ {o} :
           tr'[x].no = tr[x].no /\ tr'[x].kind = tr[x].kind /\ tr'[x].startpc = tr[x].startpc
             /\ tr'[x].root = tr[x].root
  <2>1. /\ o \in Obj /\ tr[o] = NoTrace /\ o \notin Kept /\ o \notin Saved /\ trace'[cur.no] = o
        /\ \A n \in TraceNo \ {cur.no} : trace'[n] = trace[n]
    BY <1>1, AddsNew
  <2>. QED BY <1>1, <2>1 DEF Adds
<1>6. TypeOK'
  <2>1. trace' \in [TraceNo -> Obj \cup {Null, Cur}]
    BY <1>0, <1>5 DEF IInv, TypeOK
  <2>2. pttrace' \in [Proto -> TraceNo]
    <3>1. pttrace' = [q \in Proto |-> IF q \in P THEN cur.no ELSE pttrace[q]]
      BY <1>1 DEF Adds
    <3>. QED BY <1>2, <3>1 DEF IInv, TypeOK
  <2>3. op' \in [Pc -> {"LOOP", "JLOOP", "ILOOP"}] /\ jd' \in [Pc -> TraceNo]
    <3>1. UNCHANGED <<op, jd>> \/ (op' = [op EXCEPT ![cur.startpc] = "JLOOP"] /\ jd' = [jd EXCEPT ![cur.startpc] = cur.no])
      BY <1>1 DEF Adds
    <3>. QED BY <1>2, <3>1 DEF IInv, TypeOK
  <2>. QED BY <1>0, <1>4, <1>5, <2>1, <2>2, <2>3 DEF IInv, TypeOK
<1>7. ChainsSound'
  BY <1>1, <1>2, <1>4, <1>6, AddsChains
<1>8. KeptSound'
  BY <1>0, <1>1, <1>3, <1>6, AddsKeptSound
<1>9. Kept \subseteq Kept' /\ Saved' = Saved \cup {o} /\ Kept \subseteq Obj
  <2>1. Kept \subseteq Kept'
    BY <1>1, <1>3, AddsKept
  <2>. QED BY <2>1, <1>5, KeptObj DEF Saved
<1>10. Named'
  <2>1. ASSUME NEW x \in Obj, tr'[x].kind = "none" PROVE tr'[x] = NoTrace
    <3>1. x # o /\ tr[x].kind = "none"
      BY <1>5, <2>1
    <3>2. x \notin Kept
      BY <3>1, KeptObj DEF Saved
    <3>. QED BY <1>s, <3>1, <3>2 DEF IInv, Named
  <2>2. ASSUME NEW n \in TraceNo, trace'[n] \in Obj PROVE tr'[trace'[n]].no = n
    <3>1. CASE n = cur.no
      BY <1>5, <3>1
    <3>2. CASE n # cur.no
      <4>1. trace'[n] = trace[n] /\ tr[trace[n]].no = n
        BY <1>5, <2>2, <3>2 DEF IInv, Named
      <4>2. n # 0
        BY <2>2, <4>1, Sorts DEF IInv, Named
      <4>3. trace[n] # o
        BY <1>5, <4>1, <4>2 DEF NoTrace
      <4>. QED BY <1>5, <2>2, <4>1, <4>3
    <3>. QED BY <3>1, <3>2
  <2>3. ASSUME NEW x \in Obj, tr'[x].no # 0 PROVE x \in Saved' /\ trace'[tr'[x].no] = x
    <3>1. CASE x = o
      BY <1>5, <1>9, <3>1
    <3>2. CASE x # o
      <4>1. tr'[x].no = tr[x].no /\ x \in Saved /\ trace[tr[x].no] = x /\ tr[x].no \in TraceNo
        BY <1>5, <2>3, <3>2 DEF IInv, Named, TypeOK, TraceType
      <4>2. tr[x].no # cur.no
        BY <1>5, <4>1, Sorts
      <4>. QED BY <1>5, <1>9, <4>1, <4>2
    <3>. QED BY <3>1, <3>2
  <2>4. trace'[0] = Null /\ dead' \subseteq Saved'
    BY <1>0, <1>2, <1>5, <1>9 DEF IInv, Named
  <2>. QED BY <2>1, <2>2, <2>3, <2>4 DEF Named
<1>11. Shapes'
  <2>1. cur.kind = "JMP" <=> cur.root # 0
    BY <1>2, <1>3, <1>5 DEF IInv, RecorderSound, HoldsSound, TraceType
  <2>2. cur.kind \in {"LOOP", "RET"} => cur.startpc \in prog.pcs
    <3>1. cur.kind \in {"LOOP", "RET"} => cur.startpc \in Pc
      BY DEF IInv, RecorderSound, Pc
    <3>. QED BY <3>1, Sorts DEF IInv, RecorderSound
  <2>3. ASSUME NEW x \in Saved'
        PROVE  /\ tr'[x].kind = "JMP" <=> tr'[x].root # 0
               /\ tr'[x].kind \in {"LOOP", "RET"} => tr'[x].startpc \in prog.pcs
    <3>1. CASE x = o
      BY <1>5, <2>1, <2>2, <3>1
    <3>2. CASE x # o
      <4>1. x \in Saved /\ x \in Obj
        BY <1>9, <3>2 DEF Saved
      <4>. QED BY <1>5, <3>2, <4>1 DEF IInv, Shapes
    <3>. QED BY <3>1, <3>2
  <2>. QED BY <2>3 DEF Shapes
<1>12. FreeNumbersFound' /\ CurOnce'
  <2>1. ASSUME NEW n \in TraceNo \ {0} PROVE (n < freetrace => trace'[n] # Null) /\ trace'[n] # Cur
    <3>1. CASE n = cur.no
      BY <1>5, <3>1, Sorts
    <3>2. CASE n # cur.no
      BY <1>5, <3>2 DEF IInv, FreeNumbersFound, CurOnce
    <3>. QED BY <3>1, <3>2
  <2>. QED BY <1>0, <2>1 DEF FreeNumbersFound, CurOnce
<1>13. PhasesSound'
  BY <1>0, <1>2 DEF IInv, PhasesSound
<1>14. ~Recording' /\ ~SetUp'
  BY <1>0 DEF Recording, SetUp
<1>15. RecorderSound'
  BY <1>0, <1>4, <1>14 DEF IInv, RecorderSound
<1>16. HoldsSound'
  <2>1. frame # Null => frame \in Saved' \ dead /\ (frame \in Kept' \/ (tr'[frame].no = 0 /\ tr'[frame].link = 0))
    <3>. SUFFICES ASSUME frame # Null
                  PROVE  frame \in Saved' \ dead /\ (frame \in Kept' \/ (tr'[frame].no = 0 /\ tr'[frame].link = 0))
      OBVIOUS
    <3>1. frame \in Saved \ dead /\ (frame \in Kept \/ (tr[frame].no = 0 /\ tr[frame].link = 0))
      BY DEF IInv, HoldsSound
    <3>2. frame \in Obj /\ frame # o
      BY <1>5, <3>1 DEF Saved
    <3>. QED BY <1>9, <1>s, <3>1, <3>2
  <2>. QED BY <1>0, <1>2, <1>14, <2>1 DEF HoldsSound
<1>17. StitchSound'
  <2>. SUFFICES ASSUME "stitch" \notin prog.ops
                PROVE  /\ frame = Null /\ ~cur'.stitch /\ cur.kind # "CALL" /\ \A x \in Obj : ~tr'[x].stitch
    BY <1>0, <1>4 DEF StitchSound
  <2>1. frame = Null /\ ~cur.stitch /\ cur.kind # "CALL" /\ \A x \in Obj : ~tr[x].stitch
    BY DEF IInv, StitchSound
  <2>. QED BY <1>s, <2>1, Zenon
<1>. QED BY <1>6, <1>7, <1>8, <1>10, <1>11, <1>12, <1>13, <1>15, <1>16, <1>17 DEF IInv

-----------------------------------------------------------------------------
(* All steps *)

\* ip tells the interpreter from what it executes next.
LEMMA LuaIp == ip = "lua" => ~Shown /\ ip # "c"
BY Sorts DEF Shown

LEMMA InitSound == Init => IInv /\ IpSound /\ Penalized
<1>. SUFFICES ASSUME Init PROVE IInv /\ IpSound /\ Penalized
  OBVIOUS
<1>. USE DEF Init
<1>0. /\ 0 \in TraceNo /\ MaxTrace \in Nat /\ MaxPenalty \in Nat /\ NoPC \notin Pc /\ Null \notin Obj
      /\ Cur \notin Obj /\ Null # Cur
  BY Sorts DEF TraceNo
<1>1. NoTrace \in TraceType
  BY <1>0 DEF NoTrace, TraceType
<1>2. TypeOK
  <2>1. penalty \in [Loop -> 0 .. MaxPenalty] /\ freetrace \in 0 .. MaxTrace + 1
    BY <1>0
  <2>2. ip \in Places
    BY DEF Places
  <2>. QED BY <1>0, <1>1, <2>1, <2>2 DEF TypeOK, States
<1>3. Saved = {}
  BY DEF Saved, NoTrace
<1>4. \A p \in Proto : Chain(p) = {}
  <2>. SUFFICES ASSUME NEW p \in Proto PROVE Chain(p) = {}
    OBVIOUS
  <2>1. {pttrace[p]} \ {0} = {}
    OBVIOUS
  <2>2. Nextroots \in [TraceNo \ {0} -> SUBSET (TraceNo \ {0})]
    BY <1>2, LinkTypes
  <2>. QED BY <2>1, <2>2, ReachNone DEF Chain
<1>5. Kept = {}
  <2>1. Heads = {}
    BY DEF Heads
  <2>2. MarkLinks \in [Obj -> SUBSET Obj]
    BY <1>2, LinkTypes
  <2>. QED BY <2>1, <2>2, ReachNone DEF Kept
<1>6. PhasesSound
  BY DEF PhasesSound
<1>7. RecorderSound
  BY <1>0 DEF RecorderSound, NoTrace, SetUp, Recording
<1>8. Named /\ Shapes
  BY <1>0, <1>3 DEF Named, Shapes, NoTrace
<1>9. ChainsSound /\ KeptSound
  BY <1>0, <1>4, <1>5 DEF ChainsSound, KeptSound
<1>10. HoldsSound
  BY DEF HoldsSound, SetUp, Recording
<1>11. StitchSound
  <2>1. ~NoTrace.stitch /\ NoTrace.kind = "none"
    BY DEF NoTrace
  <2>2. cur = NoTrace /\ \A x \in Obj : tr[x] = NoTrace
    OBVIOUS
  <2>3. state = "idle" /\ event = "none" /\ frame = Null
    OBVIOUS
  <2>. QED BY <2>1, <2>2, <2>3, Zenon DEF StitchSound
<1>12. FreeNumbersFound /\ CurOnce
  BY <1>0 DEF FreeNumbersFound, CurOnce, TraceNo
<1>13. Penalized
  <2>1. prog.penalties \in 0 .. MaxPenalty
    BY Sorts
  <2>. QED BY <1>0, <2>1 DEF Penalized
<1>14. IpSound
  BY LuaIp DEF IpSound
<1>. QED BY <1>2, <1>6, <1>7, <1>8, <1>9, <1>10, <1>11, <1>12, <1>13, <1>14 DEF IInv

\* what a step does to the penalties
LEMMA PenaltySteps ==
  ASSUME IInv, Next
  PROVE  \/ UNCHANGED penalty
         \/ penalty' = [pc \in Loop |-> 0]
         \/ \E pc \in Loop : penalty[pc] # prog.penalties /\ penalty' = [penalty EXCEPT ![pc] = @ + 1]
<1>1. CASE trace_abort
  <2>. DEFINE e == IF state = "err" THEN err ELSE "other"
  <2>1. \/ UNCHANGED penalty
        \/ /\ penalty' = IF parent = 0 /\ exitno = 0 /\ cur.kind = "LOOP" /\ e # "RETRY" /\ ~Blacklisted(e)
                         THEN [penalty EXCEPT ![cur.startpc] = @ + 1] ELSE penalty
    BY <1>1 DEF trace_abort
  <2>2. CASE parent = 0 /\ exitno = 0 /\ cur.kind = "LOOP" /\ e # "RETRY" /\ ~Blacklisted(e)
    <3>1. cur.startpc \in Loop /\ penalty[cur.startpc] # prog.penalties
      BY <2>2 DEF IInv, RecorderSound, Blacklisted
    <3>. QED BY <2>1, <2>2, <3>1
  <2>3. CASE ~(parent = 0 /\ exitno = 0 /\ cur.kind = "LOOP" /\ e # "RETRY" /\ ~Blacklisted(e))
    BY <2>1, <2>3
  <2>. QED BY <2>2, <2>3
<1>2. ASSUME Recorder, ~trace_abort PROVE UNCHANGED penalty \/ penalty' = [pc \in Loop |-> 0]
  <2>1. ASSUME NEW p \in Proto, trace_start(p) PROVE UNCHANGED penalty \/ penalty' = [pc \in Loop |-> 0]
    BY <2>1, Zenon DEF trace_start, Flushall, bcvars
  <2>2. CASE trace_abort_end
    <3>1. Flushall \/ UNCHANGED penalty
      BY <2>2 DEF trace_abort_end
    <3>. QED BY <3>1 DEF Flushall
  <2>3. ASSUME NEW o \in Obj, trace_stop(o) PROVE UNCHANGED penalty
    BY <2>3 DEF trace_stop
  <2>. QED BY <1>2, <2>1, <2>2, <2>3
         DEF Recorder, lj_record_setup, lj_trace_ins, lj_record_ins, trace_end, asm_error, trace_stop_end
<1>3. ASSUME Program PROVE UNCHANGED penalty \/ penalty' = [pc \in Loop |-> 0]
  <2>1. CASE luaJIT_setmode_flushall
    BY <2>1 DEF luaJIT_setmode_flushall, Flushall
  <2>2. ASSUME NEW n, lj_trace_flush(n) \/ handler_exit(n) PROVE UNCHANGED penalty
    BY <2>2 DEF lj_trace_flush, handler_exit, codevars
  <2>3. ASSUME NEW p, setptmode_on(p) PROVE UNCHANGED penalty
    BY <2>3 DEF setptmode_on
  <2>4. ASSUME NEW p, NEW flush, setptmode_off(p, flush) PROVE UNCHANGED penalty
    BY <2>4 DEF setptmode_off
  <2>5. ASSUME NEW pc, lj_trace_hot(pc) \/ BC_JLOOP(pc) PROVE UNCHANGED penalty
    BY <2>5 DEF lj_trace_hot, BC_JLOOP, codevars
  <2>6. ASSUME NEW pc, lj_trace_exit(pc) PROVE UNCHANGED penalty
    BY <2>6 DEF lj_trace_exit, codevars
  <2>7. ASSUME code_goes_on \/ stitched_call \/ cont_stitch \/ trace_hotside \/ lj_trace_exit_end \/ lj_trace_abort
        PROVE UNCHANGED penalty
    BY <2>7 DEF code_goes_on, stitched_call, cont_stitch, trace_hotside, lj_trace_exit_end, lj_trace_abort, codevars
  <2>8. ASSUME vm_record \/ lua_call \/ vm_leave \/ lj_err_throw PROVE UNCHANGED penalty
    BY <2>8 DEF vm_record, lua_call, vm_leave, lj_err_throw, codevars
  <2>. QED BY <1>3, <2>1, <2>2, <2>3, <2>4, <2>5, <2>6, <2>7, <2>8 DEF Program
<1>4. ASSUME Collector PROVE UNCHANGED penalty
  BY <1>4 DEF Collector, atomic, lj_trace_free, jvars
<1>. QED BY <1>1, <1>2, <1>3, <1>4 DEF Next

LEMMA PenalizedStep ==
  ASSUME IInv, Penalized, Next
  PROVE  Penalized'
<1>1. prog' = prog /\ prog.penalties \in Nat
  BY Prog, Sorts DEF Next
<1>2. \A pc \in Loop : penalty[pc] \in Nat /\ penalty[pc] <= prog.penalties
  BY DEF Penalized
<1>. QED BY <1>1, <1>2, PenaltySteps DEF Penalized

\* The invariant is inductive.
LEMMA NextSound ==
  ASSUME IInv, IpSound, Penalized, [Next]_vars, Tame(prog)
  PROVE  IInv' /\ Penalized'
<1>1. CASE UNCHANGED vars
  <2>1. /\ UNCHANGED <<prog, state, cur, parent, exitno, jpc, err, trace, freetrace, penalty, patch, bcskip>>
        /\ UNCHANGED <<op, jd, pttrace, nojit, tr, event, tno, at, frame, restart, ip, dead, from, asked>>
    BY <1>1 DEF vars, jvars, bcvars, runvars
  <2>2. TypeOK' /\ PhasesSound' /\ RecorderSound' /\ StitchSound' /\ Penalized'
    BY <2>1 DEF IInv, TypeOK, PhasesSound, RecorderSound, SetUp, Recording, StitchSound, Penalized
  <2>3. UNCHANGED Heap
    BY <2>1 DEF Heap
  <2>4. HoldsSound'
    BY <2>1, <2>3, QuietKeeps DEF IInv, HoldsSound, SetUp, Recording, Untouched, Saved
  <2>. QED BY <2>2, <2>3, <2>4, QuietKeeps DEF IInv
<1>2. ASSUME Recorder, UNCHANGED prog PROVE IInv'
  <2>0. UNCHANGED prog
    BY <1>2
  <2>1. ASSUME NEW p \in Proto, trace_start(p) PROVE IInv'
    BY <2>0, <2>1, StartNojitStep, StartRecordStep, StartFlushStep, Zenon
  <2>2. CASE lj_record_setup
    BY <2>0, <2>2, SetupStep, Zenon
  <2>3. ASSUME NEW i \in {"lua", "ret"} \cup Pc, lj_trace_ins(i) PROVE IInv'
    BY <2>0, <2>3, InsStep, Zenon
  <2>4. CASE lj_record_ins
    BY <2>0, <2>4, RecordStep, Zenon
  <2>5. CASE trace_end
    BY <2>0, <2>5, EndStep, Zenon
  <2>6. CASE asm_error
    BY <2>0, <2>6, AsmErrorStep, Zenon
  <2>7. ASSUME NEW o \in Obj, trace_stop(o) PROVE IInv'
    BY <2>0, <2>7, StopStep, Zenon
  <2>8. CASE trace_stop_end
    BY <2>0, <2>8, StopEndStep, Zenon
  <2>9. CASE trace_abort
    BY <2>0, <2>9, AbortAgainStep, AbortStep, Zenon
  <2>10. CASE trace_abort_end
    BY <2>0, <2>10, DropStep, AbortFlushStep, Zenon
  <2>. QED BY <1>2, <2>1, <2>2, <2>3, <2>4, <2>5, <2>6, <2>7, <2>8, <2>9, <2>10, Zenon DEF Recorder
<1>3. ASSUME Program, UNCHANGED prog PROVE IInv'
  <2>0. UNCHANGED prog
    BY <1>3
  <2>1. CASE lj_trace_abort
    BY <2>0, <2>1, AskStep, Zenon
  <2>2. CASE luaJIT_setmode_flushall
    BY <2>0, <2>2, SetmodeFlushallStep, Zenon
  <2>3. ASSUME NEW n \in TraceNo \ {0}, lj_trace_flush(n) PROVE IInv'
    BY <2>0, <2>3, FlushStep, Zenon
  <2>4. ASSUME NEW n \in TraceNo \ {0}, handler_exit(n) PROVE IInv'
    BY <2>0, <2>4, HandlerExitStep, Zenon
  <2>5. ASSUME NEW p \in Proto, setptmode_on(p) PROVE IInv'
    BY <2>0, <2>5, OnStep, Zenon
  <2>6. ASSUME NEW p \in Proto, NEW flush \in BOOLEAN, setptmode_off(p, flush) PROVE IInv'
    BY <2>0, <2>6, OffStep, Zenon
  <2>7. ASSUME NEW pc \in Pc, lj_trace_hot(pc) PROVE IInv'
    BY <2>0, <2>7, HotStep, Zenon
  <2>8. ASSUME NEW pc \in Pc, BC_JLOOP(pc) PROVE IInv'
    BY <2>0, <2>8, JloopStep, Zenon
  <2>9. CASE code_goes_on
    BY <2>0, <2>9, GoesOnStep, Zenon
  <2>10. CASE stitched_call
    BY <2>0, <2>10, StitchedCallStep, Zenon
  <2>11. CASE cont_stitch
    BY <2>0, <2>11, ContStitchStep, Zenon
  <2>12. ASSUME NEW pc \in Ret \cup {NoPC}, lj_trace_exit(pc) PROVE IInv'
    BY <2>0, <2>12, ExitStep, Zenon
  <2>13. CASE trace_hotside
    BY <2>0, <2>13, HotsideStep, Zenon
  <2>14. CASE lj_trace_exit_end
    BY <2>0, <2>14, ExitEndStep, Zenon
  <2>15. CASE vm_record \/ lua_call \/ vm_leave
    BY <2>0, <2>15, GoOnStep, Zenon
  <2>16. CASE lj_err_throw
    BY <2>0, <2>16, ThrowStep, Zenon
  <2>. QED BY <1>3, <2>1, <2>2, <2>3, <2>4, <2>5, <2>6, <2>7, <2>8, <2>9, <2>10, <2>11, <2>12, <2>13, <2>14,
              <2>15, <2>16, Zenon
         DEF Program
<1>4. ASSUME Collector, UNCHANGED prog PROVE IInv'
  <2>0. UNCHANGED prog
    BY <1>4
  <2>1. CASE atomic
    BY <2>0, <2>1, AtomicStep, Zenon
  <2>2. ASSUME NEW o \in Obj, lj_trace_free(o) PROVE IInv'
    BY <2>0, <2>2, FreeStep, Zenon
  <2>. QED BY <1>4, <2>1, <2>2, Zenon DEF Collector
<1>5. ASSUME Next PROVE IInv' /\ Penalized'
  BY <1>2, <1>3, <1>4, <1>5, PenalizedStep, Zenon DEF Next
<1>. QED BY <1>1, <1>5

\* luaJIT_setmode leaves the interpreter where it is.
LEMMA IpAsked ==
  ASSUME IInv, IpSound, Tame(prog), Calls, AskAbort, UNCHANGED <<err, event, ip, at, frame, restart>>
  PROVE  IpSound'
<1>1. /\ frame = Null
      /\ \/ state = "idle" /\ event = "none"
         \/ state = "aborted" /\ event = "none"
         \/ event \in {"stop", "abort"}
  BY CallsAre
<1>2. ip \notin {"ret", "c"}
  BY <1>1 DEF IpSound
<1>3. CASE ip = "lua"
  BY <1>3, Sorts DEF IpSound, Shown
<1>4. CASE ip \in Pc
  <2>1. (state = "idle" /\ event = "none") \/ event \in {"stop", "abort"}
    BY <1>1, <1>4 DEF IpSound, Shown
  <2>. QED BY <1>2, <1>4, <2>1 DEF IpSound, Shown, AskAbort, Aborted
<1>. QED BY <1>2, <1>3, <1>4 DEF IInv, TypeOK, Places

\* The recorder stops by itself at an instruction that leads to machine code.
LEMMA IpRecorder ==
  ASSUME IInv, IpSound, Recorder
  PROVE  IpSound'
<1>l. ip' = "lua" => IpSound'
  BY Sorts DEF IpSound, Shown
<1>t. ip \in {"lua", "ret", "c"} \cup Pc /\ {"lua", "ret", "c"} \cap Pc = {}
  BY Sorts DEF IInv, TypeOK, Places
<1>u. state \in {"start", "record", "end", "asm", "err", "aborted"} => ip # "c"
  BY DEF IpSound
<1>1. ASSUME NEW p \in Proto, trace_start(p) PROVE IpSound'
  <2>1. state = "start" /\ event = "none" /\ ip' = ip
    BY <1>1 DEF trace_start, runvars
  <2>2. ip = "lua"
    BY <1>t, <1>u, <2>1 DEF IpSound, Shown
  <2>. QED BY <1>l, <2>1, <2>2
<1>2. ASSUME NEW i \in {"lua", "ret"} \cup Pc, lj_trace_ins(i) PROVE IpSound'
  <2>1. /\ at = Null /\ restart = NoPC /\ (i = "ret" => frame # Null)
        /\ UNCHANGED <<at, restart, frame, state>> /\ state = "record"
        /\ (i \in Pc => op'[i] = "JLOOP")
        /\ event' = "record" /\ ip' = i
    BY <1>2 DEF lj_trace_ins, Interp, Quiet
  <2>2. i # "c"
    BY Sorts
  <2>. QED BY <2>1, <2>2 DEF IpSound, Shown
<1>3. CASE lj_record_setup
  <2>1. event = "start" /\ ip' = ip
    BY <1>3 DEF lj_record_setup, runvars
  <2>2. ip = "lua"
    BY <1>t, <2>1 DEF IpSound, Shown
  <2>. QED BY <1>l, <2>1, <2>2
<1>4. CASE lj_record_ins
  <2>1. event = "record" /\ event' = "none" /\ UNCHANGED <<at, frame, restart, op>>
    BY <1>4 DEF lj_record_ins, bcvars
  <2>2. CASE ip = "lua"
    <3>1. ip' = "lua"
      BY <1>4, <1>t, <2>2 DEF lj_record_ins, rec_loop_jit
    <3>. QED BY <1>l, <3>1
  <2>3. CASE ip \in Pc
    <3>1. op[ip] = "JLOOP"
      BY <2>1, <2>3, <1>t DEF IpSound, Shown
    <3>2. \/ ip' = "lua"
          \/ state' = "end" /\ ip' = ip
          \/ state' = "err" /\ ip' = ip /\ err' # "DOWNREC"
      BY <1>4, <1>t, <2>3, <3>1 DEF lj_record_ins, rec_loop_jit, Stop, Fail
    <3>. QED BY <1>l, <1>t, <2>1, <2>3, <3>2 DEF IpSound, Shown
  <2>4. CASE ip = "ret"
    <3>1. \/ state' = "end" /\ ip' = ip /\ cur' = [cur EXCEPT !.link = 0, !.stitch = FALSE]
          \/ state' = "err" /\ ip' = ip /\ err' # "DOWNREC"
      BY <1>4, <1>t, <2>4 DEF lj_record_ins, Stop, Fail
    <3>2. state' = "end" => cur'.link = 0
      BY <3>1 DEF IInv, TypeOK, TraceType
    <3>. QED BY <1>t, <2>1, <2>4, <3>1, <3>2 DEF IpSound, Shown
  <2>. QED BY <1>t, <2>1, <2>2, <2>3, <2>4 DEF IpSound
<1>5. CASE trace_end
  <2>1. /\ state = "end" /\ event = "none" /\ UNCHANGED <<event, ip, at, frame, restart>>
        /\ state' = "asm" \/ (cur.link = cur.no /\ Unrolls)
    BY <1>5 DEF trace_end, runvars
  <2>2. cur.no # 0
    BY <2>1 DEF IInv, RecorderSound
  <2>3. Shown => state' = "asm"
    BY <1>t, <2>1, <2>2 DEF IpSound, Shown, Unrolls
  <2>4. CASE Shown
    BY <1>t, <2>1, <2>3, <2>4 DEF IpSound, Shown
  <2>5. CASE ~Shown
    BY <1>l, <1>t, <1>u, <2>1, <2>5 DEF Shown
  <2>. QED BY <2>4, <2>5
<1>6. CASE asm_error
  <2>1. /\ state = "asm" /\ event = "none" /\ UNCHANGED <<event, ip, at, frame, restart>>
        /\ state' = "err" /\ err' # "DOWNREC"
    BY <1>6 DEF asm_error, Fail, runvars
  <2>. QED BY <1>t, <1>u, <2>1 DEF IpSound, Shown
<1>7. ASSUME NEW o \in Obj, trace_stop(o) PROVE IpSound'
  <2>1. state = "asm" /\ state' = "asm" /\ event' = "stop" /\ UNCHANGED <<ip, at, frame, restart>>
    BY <1>7 DEF trace_stop, runvars
  <2>. QED BY <1>t, <1>u, <2>1 DEF IpSound, Shown
<1>8. CASE trace_stop_end
  <2>1. event = "stop" /\ state' = "idle" /\ event' = "none" /\ UNCHANGED <<ip, at, frame, restart>>
    BY <1>8 DEF trace_stop_end, runvars
  <2>2. ip # "c"
    BY <2>1 DEF IpSound
  <2>. QED BY <1>t, <2>1, <2>2 DEF IpSound, Shown
<1>9. CASE trace_abort
  <2>1. /\ (state = "err" /\ event = "none") \/ (state = "aborted" /\ ip = "lua")
        /\ UNCHANGED <<ip, at, frame, restart>> /\ (state = "err" => err' = err)
        /\ \/ state' = "asm" /\ event' = event
           \/ state' = "err" /\ event' \in {"abort", "dropped"}
    BY <1>9 DEF trace_abort, Interp, runvars
  <2>2. CASE ip = "lua"
    BY <1>l, <2>1, <2>2
  <2>3. CASE ip # "lua"
    BY <1>t, <1>u, <2>1, <2>3 DEF IpSound, Shown
  <2>. QED BY <2>2, <2>3
<1>10. CASE trace_abort_end
  <2>1. /\ event \in {"abort", "dropped"} /\ event' = "none" /\ UNCHANGED <<ip, at, frame, restart, err>>
        /\ err = "DOWNREC" \/ state' = "idle"
    BY <1>10 DEF trace_abort_end, runvars
  <2>2. ip # "c"
    BY <2>1 DEF IpSound
  <2>3. CASE ip = "lua"
    BY <1>l, <2>1, <2>3
  <2>4. CASE ip # "lua"
    BY <1>t, <2>1, <2>2, <2>4 DEF IpSound, Shown
  <2>. QED BY <2>3, <2>4
<1>. QED BY <1>1, <1>2, <1>3, <1>4, <1>5, <1>6, <1>7, <1>8, <1>9, <1>10, Zenon DEF Recorder

\* The program comes to machine code, and to the C function of a stitched call, with the recorder
\* idle.
LEMMA IpProgram ==
  ASSUME IInv, IpSound, Tame(prog), Program
  PROVE  IpSound'
<1>l. ip' = "lua" => IpSound'
  BY Sorts DEF IpSound, Shown
<1>t. ip \in {"lua", "ret", "c"} \cup Pc /\ {"lua", "ret", "c"} \cap Pc = {}
  BY Sorts DEF IInv, TypeOK, Places
<1>1. CASE lj_trace_abort
  BY <1>1, <1>l DEF lj_trace_abort, Interp, runvars
<1>2. CASE luaJIT_setmode_flushall
  <2>1. Calls /\ AskAbort /\ UNCHANGED <<err, event, ip, at, frame, restart>>
    BY <1>2 DEF luaJIT_setmode_flushall, modevars, runvars
  <2>. QED BY <2>1, IpAsked
<1>3. ASSUME NEW n \in TraceNo \ {0}, lj_trace_flush(n) PROVE IpSound'
  <2>1. Calls /\ AskAbort /\ UNCHANGED <<err, event, ip, at, frame, restart>>
    BY <1>3 DEF lj_trace_flush, modevars, runvars
  <2>. QED BY <2>1, IpAsked
<1>4. ASSUME NEW n \in TraceNo \ {0}, handler_exit(n) PROVE IpSound'
  <2>1. /\ event \in {"stop", "abort"}
        /\ UNCHANGED <<err, op, state, event, cur, ip, at, frame, restart>>
    BY <1>4 DEF handler_exit, codevars, runvars, Tame
  <2>. QED BY <2>1 DEF IpSound, Shown
<1>5. ASSUME NEW p \in Proto, setptmode_on(p) PROVE IpSound'
  <2>1. Calls /\ AskAbort /\ UNCHANGED <<err, event, ip, at, frame, restart>>
    BY <1>5 DEF setptmode_on, modevars, runvars
  <2>. QED BY <2>1, IpAsked
<1>6. ASSUME NEW p \in Proto, NEW flush \in BOOLEAN, setptmode_off(p, flush) PROVE IpSound'
  <2>1. Calls /\ AskAbort /\ UNCHANGED <<err, event, ip, at, frame, restart>>
    BY <1>6 DEF setptmode_off, modevars, runvars
  <2>. QED BY <2>1, IpAsked
<1>7. ASSUME NEW pc \in Pc, lj_trace_hot(pc) \/ BC_JLOOP(pc) PROVE IpSound'
  BY <1>7, <1>l DEF lj_trace_hot, BC_JLOOP, Interp, runvars
<1>8. CASE vm_record \/ lua_call \/ cont_stitch
  BY <1>8, <1>l DEF vm_record, lua_call, cont_stitch
<1>9. CASE code_goes_on
  <2>1. ip = "lua" /\ ip' = ip
    BY <1>9 DEF code_goes_on, IpSound
  <2>. QED BY <1>l, <2>1
<1>10. CASE stitched_call
  <2>1. /\ state = "idle" /\ event = "none" /\ restart = NoPC
        /\ UNCHANGED <<state, event, restart>> /\ ip' = "c" /\ at' = Null /\ frame' # Null
    BY <1>10 DEF stitched_call, IInv, PhasesSound
  <2>. QED BY <1>t, <2>1 DEF IpSound, Shown
<1>11. CASE vm_leave
  <2>1. state = "idle"
    BY <1>11, DispatchedIdle DEF vm_leave
  <2>2. /\ event = "none" /\ restart = NoPC /\ at = Null /\ frame # Null
        /\ UNCHANGED <<state, event, restart, at, frame>> /\ ip' = "c"
    BY <1>11 DEF vm_leave, Quiet
  <2>. QED BY <1>t, <2>1, <2>2 DEF IpSound, Shown
<1>12. CASE lj_err_throw
  <2>1. /\ event = "none" /\ restart = NoPC /\ at = Null /\ UNCHANGED <<event, restart, at>>
        /\ ip' = "lua" \/ (ip' = "c" /\ frame # Null /\ frame' = frame /\ state = "idle")
        /\ state' = IF state = "idle" THEN "idle" ELSE "aborted"
    BY <1>12 DEF lj_err_throw, Quiet, AskAbort, Aborted, Tame
  <2>. QED BY <1>l, <1>t, <2>1 DEF IpSound, Shown
<1>13. ASSUME NEW pc \in Ret \cup {NoPC}, lj_trace_exit(pc) PROVE IpSound'
  <2>1. ip = "lua" /\ ip' = ip
    BY <1>13 DEF lj_trace_exit, IpSound
  <2>. QED BY <1>l, <2>1
<1>14. CASE trace_hotside
  <2>1. event = "texit" /\ ip' = ip
    BY <1>14 DEF trace_hotside, runvars
  <2>2. ip = "lua"
    BY <1>t, <2>1 DEF IpSound, Shown
  <2>. QED BY <1>l, <2>1, <2>2
<1>15. CASE lj_trace_exit_end
  <2>1. ip = "lua" /\ ip' = ip
    BY <1>15 DEF lj_trace_exit_end, IpSound
  <2>. QED BY <1>l, <2>1
<1>. QED BY <1>1, <1>2, <1>3, <1>4, <1>5, <1>6, <1>7, <1>8, <1>9, <1>10, <1>11, <1>12, <1>13, <1>14,
            <1>15, Zenon
     DEF Program

LEMMA IpStep ==
  ASSUME IInv, IpSound, [Next]_vars, Tame(prog)
  PROVE  IpSound'
<1>1. ASSUME Collector \/ UNCHANGED vars PROVE IpSound'
  <2>1. UNCHANGED <<state, cur, err, op, event, ip, at, frame, restart>>
    BY <1>1 DEF Collector, atomic, lj_trace_free, jvars, bcvars, runvars, vars
  <2>. QED BY <2>1 DEF IpSound, Shown
<1>. QED BY <1>1, IpRecorder, IpProgram, Zenon DEF Next

\* Traces are saved by trace_stop only.
LEMMA SavesAre ==
  ASSUME IInv, [Next]_vars
  PROVE  \/ \A o \in Obj : tr'[o].kind # "none" => tr[o].kind # "none"
         \/ \E o \in Obj : trace_stop(o)
<1>0. tr \in [Obj -> TraceType]
  BY DEF IInv, TypeOK
<1>1. CASE UNCHANGED tr
  BY <1>1
<1>2. CASE Flushall
  <2>1. tr' = [o \in Obj |-> tr'[o]] /\ \A o \in Obj : tr'[o] = tr[o] \/ tr'[o] = [tr[o] EXCEPT !.no = 0, !.link = 0, !.nextroot = 0]
    BY <1>2 DEF Flushall
  <2>2. \A o \in Obj : tr'[o].kind = tr[o].kind
    BY <1>0, <2>1 DEF TraceType
  <2>. QED BY <2>2
<1>3. ASSUME NEW n \in TraceNo \ {0}, lj_trace_flush(n) PROVE \A o \in Obj : tr'[o].kind = tr[o].kind
  <2>1. \A o \in Obj : tr'[o] = tr[o] \/ tr'[o] = [tr[o] EXCEPT !.nextroot = Traceref(n).nextroot]
    BY <1>3 DEF lj_trace_flush
  <2>. QED BY <1>0, <2>1 DEF TraceType
<1>4. ASSUME trace_abort PROVE \A o \in Obj : tr'[o].kind = tr[o].kind
  <2>1. UNCHANGED tr \/ (trace[exitno] \in Obj /\ tr' = [tr EXCEPT ![trace[exitno]].link = exitno])
    BY <1>4 DEF trace_abort
  <2>. QED BY <1>0, <2>1 DEF TraceType
<1>5. ASSUME NEW o \in Obj, lj_trace_free(o) PROVE \A x \in Obj : tr'[x].kind # "none" => tr[x].kind # "none"
  BY <1>0, <1>5 DEF lj_trace_free, NoTrace
<1>6. ASSUME Recorder, ~trace_abort, \A o \in Obj : ~trace_stop(o) PROVE UNCHANGED tr \/ Flushall
  <2>1. ASSUME NEW p \in Proto, trace_start(p) PROVE UNCHANGED tr \/ Flushall
    BY <2>1, Zenon DEF trace_start, bcvars
  <2>2. CASE trace_abort_end
    BY <2>2 DEF trace_abort_end, bcvars
  <2>. QED BY <1>6, <2>1, <2>2
         DEF Recorder, lj_record_setup, lj_trace_ins, lj_record_ins, trace_end, asm_error, trace_stop_end, bcvars
<1>7. ASSUME Program, \A n \in TraceNo \ {0} : ~lj_trace_flush(n) PROVE UNCHANGED tr \/ Flushall
  <2>1. CASE luaJIT_setmode_flushall
    BY <2>1 DEF luaJIT_setmode_flushall
  <2>2. ASSUME NEW n, handler_exit(n) PROVE UNCHANGED tr
    BY <2>2 DEF handler_exit, codevars
  <2>3. ASSUME NEW p, setptmode_on(p) PROVE UNCHANGED tr
    BY <2>3 DEF setptmode_on
  <2>4. ASSUME NEW p, NEW flush, setptmode_off(p, flush) PROVE UNCHANGED tr
    BY <2>4 DEF setptmode_off
  <2>5. ASSUME NEW pc, lj_trace_hot(pc) \/ BC_JLOOP(pc) PROVE UNCHANGED tr
    BY <2>5 DEF lj_trace_hot, BC_JLOOP, codevars, bcvars
  <2>6. ASSUME NEW pc, lj_trace_exit(pc) PROVE UNCHANGED tr
    BY <2>6 DEF lj_trace_exit, codevars
  <2>7. ASSUME code_goes_on \/ stitched_call \/ cont_stitch \/ trace_hotside \/ lj_trace_exit_end \/ lj_trace_abort
        PROVE UNCHANGED tr
    BY <2>7 DEF code_goes_on, stitched_call, cont_stitch, trace_hotside, lj_trace_exit_end, lj_trace_abort, codevars, bcvars
  <2>8. ASSUME vm_record \/ lua_call \/ vm_leave \/ lj_err_throw PROVE UNCHANGED tr
    BY <2>8 DEF vm_record, lua_call, vm_leave, lj_err_throw, codevars
  <2>. QED BY <1>7, <2>1, <2>2, <2>3, <2>4, <2>5, <2>6, <2>7, <2>8 DEF Program
<1>8. ASSUME atomic \/ UNCHANGED vars PROVE UNCHANGED tr
  BY <1>8 DEF atomic, vars, bcvars
<1>. QED BY <1>1, <1>2, <1>3, <1>4, <1>5, <1>6, <1>7, <1>8 DEF Next, Collector

\* What the recorder looks up is there.
LEMMA NumbersFromInv ==
  ASSUME IInv
  PROVE  NumbersSound
<1>1. /\ trace[0] = Null /\ (cur.no # 0 => trace[cur.no] = Cur) /\ Cur # Null
      /\ \A n : trace[n] \in Kept => trace[n] # Null
  BY KeptObj, Sorts DEF IInv, Named, RecorderSound
<1>2. ASSUME event \in {"start", "texit"}, parent # 0 PROVE trace[parent] # Null
  <2>1. event = "start" => Recording
    BY DEF IInv, PhasesSound, Recording
  <2>2. trace[parent] \in Kept
    BY <1>2, <2>1 DEF IInv, HoldsSound
  <2>. QED BY <1>1, <2>2
<1>3. ASSUME event = "none", state = "asm"
      PROVE  /\ cur.link # 0 => trace[cur.link] # Null
             /\ cur.kind = "JMP" => trace[parent] # Null /\ trace[cur.root] # Null
             /\ cur.kind = "CALL" => trace[exitno] # Null
  <2>1. SetUp /\ Recording
    BY <1>3 DEF IInv, RecorderSound, SetUp, Recording
  <2>2. cur.link # 0 => trace[cur.link] # Null
    BY <1>1, <2>1 DEF IInv, HoldsSound, SetUp
  <2>3. ASSUME cur.kind = "JMP" PROVE trace[parent] # Null /\ trace[cur.root] # Null
    <3>1. parent # 0
      BY <2>1, <2>3 DEF IInv, RecorderSound
    <3>2. from \in Kept /\ trace[parent] = from /\ cur.root = tr[RootOf(from)].no
      BY <2>1, <2>3, <3>1 DEF IInv, HoldsSound
    <3>3. RootOf(from) \in Kept
      BY <3>2, Rooted DEF IInv
    <3>. QED BY <3>2, <3>3, KeptObj
  <2>4. ASSUME cur.kind = "CALL" PROVE trace[exitno] # Null
    <3>1. parent = 0 /\ exitno # 0
      BY <2>1, <2>4 DEF IInv, RecorderSound
    <3>. QED BY <1>1, <2>1, <3>1 DEF IInv, HoldsSound, Untouched
  <2>. QED BY <2>2, <2>3, <2>4
<1>4. ASSUME event = "none", state \in {"aborted", "err"}, parent = 0, cur.kind = "CALL", exitno # 0
      PROVE  trace[exitno] # Null
  <2>1. state = "err" => Recording
    BY <1>4 DEF Recording
  <2>. QED BY <1>1, <1>4, <2>1 DEF IInv, HoldsSound, Untouched
<1>5. NoneMissing
  <2>. SUFFICES ASSUME NEW n \in LookedUp, n # 0 PROVE trace[n] # Null
    BY DEF NoneMissing
  <2>1. CASE event \in {"start", "texit"}
    <3>1. LookedUp = {parent}
      BY <2>1 DEF LookedUp
    <3>. QED BY <1>2, <2>1, <3>1
  <2>2. CASE event = "none" /\ state = "asm"
    <3>1. \/ n = cur.link
          \/ cur.kind = "JMP" /\ n \in {parent, cur.root}
          \/ cur.kind = "CALL" /\ n = exitno
      BY <2>2 DEF LookedUp
    <3>. QED BY <1>3, <2>2, <3>1
  <2>3. CASE event = "none" /\ state \in {"aborted", "err"}
    <3>1. parent = 0 /\ cur.kind = "CALL" /\ n = exitno
      BY <2>3 DEF LookedUp
    <3>. QED BY <1>4, <2>3, <3>1
  <2>4. CASE event \notin {"start", "texit"} /\ ~(event = "none" /\ state \in {"asm", "aborted", "err"})
    BY <2>4 DEF LookedUp
  <2>. QED BY <2>1, <2>2, <2>3, <2>4
<1>. QED BY <1>5 DEF IInv, NumbersSound

\* What can be run is kept.
LEMMA CodeFromInv ==
  ASSUME IInv
  PROVE  CodeValid
<1>1. JloopValid
  <2>. SUFFICES ASSUME NEW pc \in Pc, op[pc] = "JLOOP"
                PROVE  /\ Registered(trace[jd[pc]]) /\ tr[trace[jd[pc]]].startpc = pc
                       /\ jd[pc] \in Chain(ProtoOf[pc])
    BY DEF JloopValid
  <2>1. /\ jd[pc] \in Chain(ProtoOf[pc]) /\ trace[jd[pc]] \in Kept /\ tr[trace[jd[pc]]].startpc = pc
    BY JloopKept
  <2>. QED BY <2>1, KeptObj DEF Registered
<1>2. Entered \subseteq Kept
  <2>. SUFFICES ASSUME NEW x \in Entered PROVE x \in Kept
    OBVIOUS
  <2>1. CASE \E pc \in Pc : op[pc] = "JLOOP" /\ x = trace[jd[pc]]
    BY <2>1, JloopKept
  <2>2. CASE at # Null /\ x = at
    BY <2>2 DEF IInv, HoldsSound
  <2>3. CASE frame # Null /\ tr[frame].link \notin {0, tr[frame].no} /\ x = trace[tr[frame].link]
    <3>1. frame \in Kept
      BY <2>3 DEF IInv, HoldsSound
    <3>. QED BY <2>3, <3>1, GoesOnKept DEF IInv
  <2>. QED BY <2>1, <2>2, <2>3 DEF Entered
<1>. DEFINE U == Obj \cup {Null, Cur}
            N == [o \in U |-> IF o \in Obj THEN GoesOn(o) ELSE {}]
<1>3. N \in [U -> SUBSET U]
  <2>1. ASSUME NEW o \in Obj PROVE GoesOn(o) \subseteq U
    <3>1. tr[o].link \in TraceNo /\ tr[o].jump \in U /\ tr[o].side \in U
      BY DEF IInv, TypeOK, TraceType
    <3>2. trace[tr[o].link] \in U
      BY <3>1 DEF IInv, TypeOK
    <3>. QED BY <3>1, <3>2 DEF GoesOn
  <2>. QED BY <2>1
<1>4. Kept \subseteq Obj /\ \A o \in Kept : N[o] \subseteq Kept
  <2>1. ASSUME NEW o \in Kept PROVE o \in Obj /\ GoesOn(o) \subseteq Kept
    BY KeptObj, GoesOnKept DEF IInv
  <2>. QED BY <2>1
<1>5. Runnable = Reach(Entered, N)
  BY DEF Runnable
<1>. HIDE DEF N
<1>6. Runnable \subseteq Kept
  BY <1>2, <1>3, <1>4, <1>5, ReachLeast
<1>7. CodeRegistered
  BY <1>6, KeptObj DEF CodeRegistered, Registered
<1>. QED BY <1>1, <1>7 DEF CodeValid

\* The invariant holds of every program that is Tame: the books of the traces, and that recording
\* has come to its end by the time the interpreter executes what leads into machine code.
THEOREM TraceInvariant ==
  ASSUME \A p \in Programs : Tame(p)
  PROVE  Spec => [](IInv /\ IpSound /\ Penalized)
<1>1. Init => IInv /\ IpSound /\ Penalized
  BY InitSound
<1>2. ASSUME IInv, IpSound, Penalized, [Next]_vars PROVE IInv' /\ IpSound' /\ Penalized'
  <2>1. Tame(prog)
    BY <1>2 DEF IInv, RecorderSound
  <2>. QED BY <1>2, <2>1, NextSound, IpStep
<1>. QED BY <1>1, <1>2, PTL DEF Spec

\* Trace numbers: none is lost, none is taken twice, and none is free while the recorder, a
\* handler's caller or trace_abort is still going to look it up, whatever the program aborts,
\* flushes and collects in between (trace_findfree, trace_abort, lj_trace_free, lj_trace_flushall).
THEOREM TraceNumbers ==
  ASSUME \A p \in Programs : Tame(p)
  PROVE  Spec => []NumbersSound
<1>1. IInv => NumbersSound
  BY NumbersFromInv
<1>. QED BY <1>1, TraceInvariant, PTL

\* Neither bytecode nor machine code leads to a trace that has been flushed or freed: each JLOOP
\* names a trace of its own prototype that starts there, and jumps, patched exits and stitched
\* calls that can still be reached go on to traces with a valid number.
THEOREM TraceCode ==
  ASSUME \A p \in Programs : Tame(p)
  PROVE  Spec => []CodeValid
<1>1. IInv => CodeValid
  BY CodeFromInv
<1>. QED BY <1>1, TraceInvariant, PTL

\* The JLOOP that lj_trace_exit takes away for recording a return is back before the trace is
\* assembled, given up or the next one starts (trace_pendpatch).
THEOREM TracePatch ==
  ASSUME \A p \in Programs : Tame(p)
  PROVE  Spec => []PatchUndone
<1>1. IInv => PatchUndone
  BY DEF IInv, PhasesSound, PatchUndone
<1>. QED BY <1>1, TraceInvariant, PTL

\* trace_stop patches the exit that the side trace was recorded for, although J->parent has gone
\* through handlers and collections since.
THEOREM TraceSides ==
  ASSUME \A p \in Programs : Tame(p)
  PROVE  Spec => SideAtItsExit
<1>1. ASSUME IInv, [Next]_vars, NEW o \in Obj, tr[o].kind = "none", tr'[o].kind = "JMP"
      PROVE  tr'[from].side = o
  <2>1. PICK x \in Obj : trace_stop(x)
    BY <1>1, SavesAre
  <2>2. PICK R, F, u \in Obj \cup {Null}, P \in SUBSET Proto : Adds(x, R, F, u, P)
    BY <1>1, <2>1, StopAdds
  <2>3. x = o /\ cur.kind = "JMP"
    BY <1>1, <2>2 DEF Adds
  <2>4. state = "asm" /\ event = "none" /\ Patchexit \in Obj /\ trace[cur.root] \in Obj
        /\ tr' = [y \in Obj |->
             IF y = x THEN [[cur EXCEPT !.jump = CASE cur.link = 0 -> Null [] cur.link = cur.no -> x [] OTHER -> trace[cur.link]]
                            EXCEPT !.nextside = Traceref(cur.root).nextside]
             ELSE [tr[y] EXCEPT !.side = IF y = Patchexit THEN x ELSE @,
                                !.nextside = IF y = trace[cur.root] THEN cur.no ELSE @]]
    BY <2>1, <2>3 DEF trace_stop
  <2>5. SetUp /\ Recording
    BY <1>1, <2>4 DEF IInv, RecorderSound, SetUp, Recording
  <2>6. from \in Kept /\ trace[parent] = from
    <3>1. parent # 0
      BY <1>1, <2>3, <2>5 DEF IInv, RecorderSound
    <3>. QED BY <1>1, <2>5, <3>1 DEF IInv, HoldsSound
  <2>7. from \in Obj /\ from # x /\ tr[from] \in TraceType
    BY <1>1, <2>3, <2>6, KeptObj DEF Saved
  <2>8. tr'[from] = [tr[from] EXCEPT !.side = x,
                                     !.nextside = IF from = trace[cur.root] THEN cur.no ELSE tr[from].nextside]
    BY <2>4, <2>6, <2>7 DEF Patchexit
  <2>. QED BY <2>3, <2>7, <2>8 DEF TraceType
<1>2. IInv /\ [Next]_vars => [\A o \in Obj : tr[o].kind = "none" /\ tr'[o].kind = "JMP" => tr'[from].side = o]_vars
  BY <1>1
<1>. QED BY <1>2, TraceInvariant, PTL DEF Spec, SideAtItsExit

\* Once lj_trace_abort has cleared LJ_TRACE_ACTIVE, no trace is saved until recording is over.
THEOREM TraceAborts ==
  ASSUME \A p \in Programs : Tame(p)
  PROVE  Spec => AbortHonoured
<1>1. ASSUME IInv, [Next]_vars, asked, NEW o \in Obj PROVE tr[o].kind # "none" \/ tr'[o].kind = "none"
  <2>1. \A x \in Obj : ~trace_stop(x)
    BY <1>1 DEF IInv, PhasesSound, trace_stop
  <2>. QED BY <1>1, <2>1, SavesAre
<1>2. IInv /\ [Next]_vars => [asked => \A o \in Obj : tr[o].kind # "none" \/ tr'[o].kind = "none"]_vars
  BY <1>1
<1>. QED BY <1>2, TraceInvariant, PTL DEF Spec, AbortHonoured

\* trace_hotside starts a side trace only while nothing is recorded (lj_trace.c:708), although
\* neither BC_JLOOP nor cont_stitch looks at J->state: the recorder ends a trace at a compiled loop
\* and at a return to C, and such a trace is neither unrolled nor retried as a down-recursion.
THEOREM TraceHotside ==
  ASSUME \A p \in Programs : Tame(p)
  PROVE  Spec => HotsideIdle
<1>1. IInv /\ [Next]_vars => [event = "texit" /\ state' = "start" => state = "idle"]_vars
  BY DEF IInv, PhasesSound
<1>. QED BY <1>1, TraceInvariant, PTL DEF Spec, HotsideIdle
====
