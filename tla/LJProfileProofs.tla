--------------------------- MODULE LJProfileProofs ---------------------------
(* What LJProfile guarantees however deep functions nest and however often    *)
(* the timer ticks: the bits of hookmask that keep out hooks and traces, the  *)
(* dispatch table, and the samples.                                           *)
EXTENDS LJProfile, SequenceTheorems, TLAPS

\* What lj_profile.c:78 asks for: with a timer thread, whoever writes hookmask
\* holds the lock.  Finalizers, event handlers, protected calls and
\* lua_sethook do not (README, deviations).
Disciplined ==
  \A p \in Programs : p.variant = "thread" =>
    p.ops \subseteq {"callhook", "lj_profile_interpreter",
                     "luaJIT_profile_start", "luaJIT_profile_stop"}

(***************************************************************************)
(* Frames                                                                  *)
(***************************************************************************)

LockCodes == {callhook, lj_profile_interpreter, lj_profile_interpreter_skip,
              luaJIT_profile_start, luaJIT_profile_stop}
Codes == LockCodes \cup {gc_call_finalizer, lj_vmevent_call, callhook_throw, lua_sethook,
                         lua_pcall, trace_start, trace_stop}

News == {{}} \cup (Modes \X Modes)
Frame == {f \in [code : Codes, pc : Nat, oldh : Masks, tmp : Masks, new : News] :
            f.pc \in 1 .. Len(f.code)}
access(f) == f.code[f.pc]

\* only the innermost frame is anywhere but in a callback
Stack ==
  /\ vm \in Seq(Frame) /\ Len(vm) <= MaxDepth
  /\ \A i \in 1 .. Len(vm) - 1 : access(vm[i]) = "lua"
  /\ prog \in Programs
  /\ prog.variant = "thread" => \A i \in 1 .. Len(vm) : vm[i].code \in LockCodes

Types ==
  /\ hookmask \in Masks /\ mode \in Modes /\ state \in {"idle", "record", "abort"}
  /\ running \in BOOLEAN /\ halt \in BOOLEAN /\ wanted \in BOOLEAN
  /\ lock \in {"none", "free", "vm", "timer"}
  /\ timer \in {"dead", "sleep", "store", "read", "write", "unlock"}
  /\ tmask \in Masks /\ tmode \in Modes \X Modes
  /\ prog.variant = "thread" => state = "idle"
  /\ vm # <<>> /\ access(Top) = "write" => Top.new \in Modes \X Modes

(***************************************************************************)
(* The lock                                                                *)
(***************************************************************************)

\* where a function holds the lock
Section(f) ==
  \/ f.code = callhook /\ f.pc \in {3, 4, 5, 8, 9, 10}
  \/ f.code = lj_profile_interpreter /\ f.pc \in (2 .. 8) \cup (11 .. 15)
  \/ f.code = lj_profile_interpreter_skip /\ f.pc \in 2 .. 6

\* where luaJIT_profile_stop has waited for the timer to end
Joined(f) == f.code = luaJIT_profile_stop /\ f.pc \in 3 .. 7

Stores == {"entergc", "vmevent", "enter", "leave", "events", "clear"}
Keeps(f) ==
  /\ Section(f) => lock = "vm" \/ ~running
  /\ Joined(f) => timer = "dead"
  /\ access(f) = "start" => ~running
  /\ access(f) \in Stores => f.tmp = hookmask
Locks ==
  /\ lock = "timer" <=> timer \in {"store", "read", "write", "unlock"}
  /\ prog.variant = "signal" => timer \in {"dead", "sleep"}
  /\ prog.variant = "thread" =>
       /\ timer # "dead" => running
       /\ timer = "store" => tmask = hookmask
       /\ vm # <<>> => Keeps(Top)

(***************************************************************************)
(* Samples                                                                 *)
(***************************************************************************)

\* in the middle of taking them, the samples are counted twice
Known == delivered + (IF At("reset") THEN 0 ELSE samples)
Counts ==
  /\ samples \in Nat /\ delivered \in Nat /\ ticks \in 0 .. MaxTicks /\ samples <= ticks
  /\ Known <= ticks /\ (prog.variant = "thread" => Known = ticks)

(***************************************************************************)
(* The bits that keep out hooks and traces                                 *)
(***************************************************************************)

Keeping == {"active", "vmevent", "gc"}
Kept(m) == m \cap Keeping

\* what they are while frame f is at its pc, when they are k outside of f
Inner(f, k) ==
  IF f.code = gc_call_finalizer /\ f.pc >= 5 THEN k \cup {"active", "gc"}
  ELSE IF f.code = lj_vmevent_call /\ f.pc >= 4 THEN k \cup {"active", "vmevent"}
  ELSE IF \/ f.code = callhook /\ f.pc \in 5 .. 9
          \/ f.code = callhook_throw /\ f.pc >= 5 THEN k \cup {"active"}
  ELSE IF f.code = lj_profile_interpreter /\ f.pc \in 6 .. 12 THEN {"vmevent"}
  ELSE k

\* what f knows of k, and what it was called with
Fits(f, k) ==
  /\ \/ f.code \in {gc_call_finalizer, lj_vmevent_call, lua_pcall} /\ f.pc >= 2
     \/ f.code \in {lj_profile_interpreter, lj_profile_interpreter_skip} /\ f.pc >= 3
     => Kept(f.oldh) = k
  /\ f.code = lua_sethook => Kept(f.oldh) = {}
  /\ f.code \in {callhook, callhook_throw} => "active" \notin k
  /\ f.code = lj_profile_interpreter => "vmevent" \notin k
  /\ f.code = trace_start => {"gc", "vmevent"} \cap k = {}

\* ks[i] are the bits outside of frame i; once a function keeps out traces, or
\* the profiler, all that it calls back does
Nested(ks) ==
  /\ ks \in [1 .. Len(vm) + 1 -> SUBSET Keeping]
  /\ ks[1] = {} /\ ks[Len(vm) + 1] = Kept(hookmask)
  /\ \A i \in 1 .. Len(vm) : Fits(vm[i], ks[i]) /\ ks[i + 1] = Inner(vm[i], ks[i])
  /\ \A i, j \in 1 .. Len(vm) + 1 : i < j /\ access(vm[i]) = "lua" =>
       /\ vm[i].code \in {gc_call_finalizer, lj_vmevent_call, lj_profile_interpreter} =>
            {"gc", "vmevent"} \cap ks[j] # {}
       /\ vm[i].code = lj_profile_interpreter => "vmevent" \in ks[j]
Masking ==
  /\ \E ks \in [1 .. Len(vm) + 1 -> SUBSET Keeping] : Nested(ks)
  /\ vm # <<>> /\ access(Top) \in Stores => Kept(Top.tmp) = Kept(hookmask)

(***************************************************************************)
(* The dispatch table                                                      *)
(***************************************************************************)

\* where a function has written hookmask, but not the table yet
Stale(f) ==
  \/ f.code = lj_profile_interpreter /\ f.pc \in {6, 7, 13, 14}
  \/ f.code = lj_profile_interpreter_skip /\ f.pc \in {4, 5}
  \/ f.code = luaJIT_profile_stop /\ f.pc \in {5, 6}
Fresh ==
  prog.variant = "thread" =>
    /\ mode = NewMode \/ timer \in {"read", "write"} \/ (vm # <<>> /\ Stale(Top))
    /\ timer = "write" => tmode = <<mode, NewMode>>
    /\ vm # <<>> /\ access(Top) = "write" => Top.new = <<mode, NewMode>>

PInv == Stack /\ Types /\ Locks /\ Counts /\ Masking /\ Fresh

-----------------------------------------------------------------------------
(* The functions of the VM as data *)

LEMMA Lengths ==
  /\ Len(gc_call_finalizer) = 7
  /\ Len(lj_vmevent_call) = 6
  /\ Len(callhook) = 10
  /\ Len(callhook_throw) = 8
  /\ Len(lua_sethook) = 5
  /\ Len(lj_profile_interpreter) = 15
  /\ Len(lj_profile_interpreter_skip) = 6
  /\ Len(lua_pcall) = 4
  /\ Len(trace_start) = 3
  /\ Len(trace_stop) = 3
  /\ Len(luaJIT_profile_start) = 1
  /\ Len(luaJIT_profile_stop) = 7
  /\ gc_call_finalizer # luaJIT_profile_stop /\ lj_vmevent_call # lj_profile_interpreter_skip
  /\ trace_start # trace_stop
  /\ lua_sethook \notin
       {gc_call_finalizer, lj_vmevent_call, lua_pcall, callhook, callhook_throw,
        lj_profile_interpreter, lj_profile_interpreter_skip, trace_start}
  /\ trace_start \notin {gc_call_finalizer, lj_vmevent_call, lj_profile_interpreter}
  /\ lj_profile_interpreter \notin {gc_call_finalizer, lj_vmevent_call, callhook, callhook_throw}
BY DEF gc_call_finalizer, lj_vmevent_call, callhook, callhook_throw, lua_sethook,
  lj_profile_interpreter, lj_profile_interpreter_skip, lua_pcall, trace_start, trace_stop,
  luaJIT_profile_start, luaJIT_profile_stop

\* what a function does where
Positions(f) ==
  /\ f.code = gc_call_finalizer => <<f.pc, access(f)>> \in
       { <<1, "save">>, <<2, "abort">>, <<3, "load">>, <<4, "entergc">>,
         <<5, "lua">>, <<6, "load">>, <<7, "restore">> }
  /\ f.code = lj_vmevent_call => <<f.pc, access(f)>> \in
       { <<1, "save">>, <<2, "load">>, <<3, "vmevent">>, <<4, "lua">>,
         <<5, "load">>, <<6, "restore">> }
  /\ f.code = callhook => <<f.pc, access(f)>> \in
       { <<1, "abort">>, <<2, "lock">>, <<3, "load">>, <<4, "enter">>,
         <<5, "unlock">>, <<6, "lua">>, <<7, "lock">>, <<8, "load">>,
         <<9, "leave">>, <<10, "unlock">> }
  /\ f.code = callhook_throw => <<f.pc, access(f)>> \in
       { <<1, "abort">>, <<2, "lock">>, <<3, "load">>, <<4, "enter">>,
         <<5, "unlock">>, <<6, "lua">>, <<7, "load">>, <<8, "leave">> }
  /\ f.code = lua_sethook => <<f.pc, access(f)>> \in
       { <<1, "load">>, <<2, "events">>, <<3, "abort">>, <<4, "read">>,
         <<5, "write">> }
  /\ f.code = lj_profile_interpreter => <<f.pc, access(f)>> \in
       { <<1, "lock">>, <<2, "mask">>, <<3, "take">>, <<4, "reset">>,
         <<5, "only_vmevent">>, <<6, "read">>, <<7, "write">>, <<8, "unlock">>,
         <<9, "lua">>, <<10, "lock">>, <<11, "collect">>, <<12, "setmask">>,
         <<13, "read">>, <<14, "write">>, <<15, "unlock">> }
  /\ f.code = lj_profile_interpreter_skip => <<f.pc, access(f)>> \in
       { <<1, "lock">>, <<2, "mask">>, <<3, "setmask">>, <<4, "read">>,
         <<5, "write">>, <<6, "unlock">> }
  /\ f.code = lua_pcall => <<f.pc, access(f)>> \in
       { <<1, "save">>, <<2, "lua">>, <<3, "load">>, <<4, "restore">> }
  /\ f.code = trace_start => <<f.pc, access(f)>> \in
       { <<1, "record">>, <<2, "read">>, <<3, "write">> }
  /\ f.code = trace_stop => <<f.pc, access(f)>> \in
       { <<1, "idle">>, <<2, "read">>, <<3, "write">> }
  /\ f.code = luaJIT_profile_start => <<f.pc, access(f)>> \in
       { <<1, "start">> }
  /\ f.code = luaJIT_profile_stop => <<f.pc, access(f)>> \in
       { <<1, "halt">>, <<2, "join">>, <<3, "load">>, <<4, "clear">>,
         <<5, "read">>, <<6, "write">>, <<7, "stopped">> }

LEMMA PositionsOf == \A f \in Frame : Positions(f)
<1>. SUFFICES ASSUME NEW f \in Frame PROVE Positions(f)
  OBVIOUS
<1>0. f.pc \in 1 .. Len(f.code)
  BY DEF Frame
<1>1. f.code = gc_call_finalizer => f.pc \in 1 .. 7 /\ access(f) = gc_call_finalizer[f.pc]
  BY <1>0, Lengths DEF access
<1>2. f.code = lj_vmevent_call => f.pc \in 1 .. 6 /\ access(f) = lj_vmevent_call[f.pc]
  BY <1>0, Lengths DEF access
<1>3. f.code = callhook => f.pc \in 1 .. 10 /\ access(f) = callhook[f.pc]
  BY <1>0, Lengths DEF access
<1>4. f.code = callhook_throw => f.pc \in 1 .. 8 /\ access(f) = callhook_throw[f.pc]
  BY <1>0, Lengths DEF access
<1>5. f.code = lua_sethook => f.pc \in 1 .. 5 /\ access(f) = lua_sethook[f.pc]
  BY <1>0, Lengths DEF access
<1>6. f.code = lj_profile_interpreter => f.pc \in 1 .. 15 /\ access(f) = lj_profile_interpreter[f.pc]
  BY <1>0, Lengths DEF access
<1>7. f.code = lj_profile_interpreter_skip => f.pc \in 1 .. 6 /\ access(f) = lj_profile_interpreter_skip[f.pc]
  BY <1>0, Lengths DEF access
<1>8. f.code = lua_pcall => f.pc \in 1 .. 4 /\ access(f) = lua_pcall[f.pc]
  BY <1>0, Lengths DEF access
<1>9. f.code = trace_start => f.pc \in 1 .. 3 /\ access(f) = trace_start[f.pc]
  BY <1>0, Lengths DEF access
<1>10. f.code = trace_stop => f.pc \in 1 .. 3 /\ access(f) = trace_stop[f.pc]
  BY <1>0, Lengths DEF access
<1>11. f.code = luaJIT_profile_start => f.pc \in 1 .. 1 /\ access(f) = luaJIT_profile_start[f.pc]
  BY <1>0, Lengths DEF access
<1>12. f.code = luaJIT_profile_stop => f.pc \in 1 .. 7 /\ access(f) = luaJIT_profile_stop[f.pc]
  BY <1>0, Lengths DEF access
<1>. QED
  BY <1>1, <1>2, <1>3, <1>4, <1>5, <1>6, <1>7, <1>8, <1>9, <1>10, <1>11, <1>12
  DEF Positions, gc_call_finalizer, lj_vmevent_call, callhook, callhook_throw, lua_sethook,
      lj_profile_interpreter, lj_profile_interpreter_skip, lua_pcall, trace_start,
      trace_stop, luaJIT_profile_start, luaJIT_profile_stop

(***************************************************************************)
(* Steps of the VM                                                         *)
(***************************************************************************)

Onward(f) == [f EXCEPT !.pc = @ + 1]

\* the innermost function calls g back, or the program calls it
Called(g) ==
  /\ g \in Frame /\ g.pc = 1 /\ Executing
  /\ Len(vm') = Len(vm) + 1 /\ vm'[Len(vm) + 1] = g /\ \A i \in 1 .. Len(vm) : vm'[i] = vm[i]
  /\ g.code \in {callhook, callhook_throw} => "active" \notin hookmask
  /\ g.code = lj_profile_interpreter => "vmevent" \notin hookmask
  /\ g.code = trace_start => {"gc", "vmevent"} \cap hookmask = {}
  /\ g.code = luaJIT_profile_start => ~running
  /\ Kept(g.oldh) = {}

\* it is done with an access, and perhaps with all; f has what it knows then
Moved(f) ==
  /\ vm # <<>> /\ f \in Frame /\ f.code = Top.code /\ f.pc = Top.pc
  /\ \A i \in 1 .. Len(vm) - 1 : vm'[i] = vm[i]
  /\ IF f.pc = Len(f.code) THEN Len(vm') = Len(vm) - 1
     ELSE Len(vm') = Len(vm) /\ vm'[Len(vm)] = Onward(f) /\ Onward(f) \in Frame

LEMMA TopOf ==
  ASSUME Stack, vm # <<>>
  PROVE  Len(vm) \in Nat \ {0} /\ Top \in Frame /\ Top = vm[Len(vm)]
BY DEF Stack, Top

LEMMA StepMoves ==
  ASSUME Stack, vm # <<>>, NEW f \in Frame, f.code = Top.code, f.pc = Top.pc, Step(f)
  PROVE  Moved(f) /\ vm' \in Seq(Frame)
<1>1. Len(vm) \in Nat \ {0} /\ vm \in Seq(Frame)
  BY TopOf DEF Stack
<1>2. f.pc \in 1 .. Len(f.code) /\ Len(f.code) \in Nat
  <2>1. f.code \in Codes /\ f.pc \in 1 .. Len(f.code)
    BY DEF Frame
  <2>. QED BY <2>1, Lengths DEF Codes, LockCodes
<1>3. CASE f.pc = Len(f.code)
  <2>1. PICK n \in Nat : n = Len(vm) - 1
    BY <1>1
  <2>2. vm' = SubSeq(vm, 1, n) /\ \A i \in 1 .. n : vm[i] \in Frame
    BY <1>1, <1>3, <2>1 DEF Step
  <2>3. /\ SubSeq(vm, 1, n) \in Seq(Frame)
        /\ Len(SubSeq(vm, 1, n)) = IF 1 <= n THEN n - 1 + 1 ELSE 0
        /\ \A i \in 1 .. n - 1 + 1 : SubSeq(vm, 1, n)[i] = vm[1 + i - 1]
    BY <2>2, SubSeqProperties
  <2>4. vm' \in Seq(Frame) /\ Len(vm') = n /\ \A i \in 1 .. n : vm'[i] = vm[i]
    BY <2>2, <2>3
  <2>. QED BY <1>1, <1>3, <2>1, <2>4 DEF Moved
<1>4. CASE f.pc # Len(f.code)
  <2>1. vm' = [vm EXCEPT ![Len(vm)] = Onward(f)]
    BY <1>4 DEF Step, Onward
  <2>2. Onward(f) \in Frame
    <3>1. f.pc + 1 \in 1 .. Len(f.code) /\ f.pc + 1 \in Nat
      BY <1>2, <1>4
    <3>2. Onward(f).code = f.code /\ Onward(f).pc = f.pc + 1
      BY DEF Onward, Frame
    <3>3. Onward(f) \in [code : Codes, pc : Nat, oldh : Masks, tmp : Masks, new : News]
      BY <3>1 DEF Onward, Frame
    <3>. QED BY <3>1, <3>2, <3>3 DEF Frame
  <2>3. vm' \in Seq(Frame) /\ Len(vm') = Len(vm) /\ vm'[Len(vm)] = Onward(f)
        /\ \A i \in 1 .. Len(vm) - 1 : vm'[i] = vm[i]
    BY <1>1, <2>1, <2>2
  <2>. QED BY <1>1, <1>4, <2>2, <2>3 DEF Moved
<1>. QED BY <1>3, <1>4

LEMMA MovedStack ==
  ASSUME Stack, UNCHANGED prog, NEW f, Moved(f), vm' \in Seq(Frame)
  PROVE  /\ Stack'
         /\ \/ vm' = <<>>
            \/ f.pc # Len(f.code) /\ Top' = Onward(f) /\ Top' \in Frame
            \/ f.pc = Len(f.code) /\ access(Top)' = "lua" /\ Top' \in Frame
<1>1. Len(vm) \in Nat \ {0} /\ vm \in Seq(Frame) /\ Len(vm') \in Nat
  BY TopOf DEF Stack, Moved
<1>2. CASE f.pc = Len(f.code)
  <2>1. Len(vm') = Len(vm) - 1 /\ \A i \in 1 .. Len(vm) - 1 : vm'[i] = vm[i]
    BY <1>2 DEF Moved
  <2>2. Stack'
    <3>1. \A i \in 1 .. Len(vm') : vm'[i] = vm[i] /\ i \in 1 .. Len(vm)
      BY <1>1, <2>1
    <3>2. \A i \in 1 .. Len(vm') : access(vm'[i]) = "lua"
      BY <1>1, <2>1, <3>1 DEF Stack, access
    <3>3. Len(vm') <= MaxDepth /\ \A i \in 1 .. Len(vm') - 1 : access(vm'[i]) = "lua"
      BY <1>1, <2>1, <3>2, Parameters DEF Stack
    <3>4. prog.variant = "thread" => \A i \in 1 .. Len(vm') : vm'[i].code \in LockCodes
      BY <3>1 DEF Stack
    <3>. QED BY <3>3, <3>4 DEF Stack, access
  <2>3. vm' # <<>> => access(Top)' = "lua" /\ Top' \in Frame
    <3>1. vm' # <<>> => Len(vm') \in 1 .. Len(vm) - 1
      BY <1>1, <2>1
    <3>. QED BY <2>1, <3>1 DEF Stack, Top, access
  <2>. QED BY <1>2, <2>2, <2>3
<1>3. CASE f.pc # Len(f.code)
  <2>1. /\ Len(vm') = Len(vm) /\ \A i \in 1 .. Len(vm) - 1 : vm'[i] = vm[i]
        /\ vm'[Len(vm)] = Onward(f) /\ Onward(f).code = vm[Len(vm)].code
    BY <1>3 DEF Moved, Onward, Frame, Top
  <2>2. Stack'
    <3>1. \A i \in 1 .. Len(vm') : i # Len(vm) => vm'[i] = vm[i]
      BY <1>1, <2>1
    <3>2. \A i \in 1 .. Len(vm') : vm'[i].code = vm[i].code
      BY <2>1, <3>1
    <3>. QED BY <1>1, <2>1, <3>1, <3>2 DEF Stack, access
  <2>3. Top' = Onward(f) /\ Onward(f) \in Frame
    BY <1>3, <2>1 DEF Moved, Top
  <2>. QED BY <1>3, <2>2, <2>3
<1>. QED BY <1>2, <1>3

\* what a function knows after it has read
Read(f) ==
  /\ f.code = Top.code /\ f.pc = Top.pc
  /\ \/ access(Top) = "save" /\ f = [Top EXCEPT !.oldh = hookmask \ {"event"}]
     \/ access(Top) = "load" /\ f = [Top EXCEPT !.tmp = hookmask]
     \/ access(Top) = "read" /\ f = [Top EXCEPT !.new = <<mode, NewMode>>]
     \/ access(Top) = "mask" /\ f = [Top EXCEPT !.oldh = hookmask \ {"profile"}]
     \/ access(Top) = "collect" /\ f = [Top EXCEPT !.oldh = @ \cup (hookmask \cap {"profile"})]

LEMMA LoadMoves ==
  ASSUME Stack, Types, UNCHANGED prog, Load
  PROVE  \E f : Moved(f) /\ Read(f) /\ vm' \in Seq(Frame)
<1>1. vm # <<>>
  BY DEF Load, At
<1>2. Top \in Frame
  BY <1>1, TopOf
<1>3. NewMode \in Modes
  BY DEF NewMode, Modes
<1>4. PICK f : Step(f) /\ Read(f)
  BY <1>2 DEF Load, Read, At, access, Frame
<1>5. f \in Frame
  <2>1. \A m \in Masks : \A x : m \ {x} \in Masks
    BY DEF Masks
  <2>2. \A m \in Masks : m \cup (hookmask \cap {"profile"}) \in Masks
    BY DEF Masks
  <2>3. <<mode, NewMode>> \in News
    BY <1>3 DEF Types, News
  <2>. DEFINE Shape == [code : Codes, pc : Nat, oldh : Masks, tmp : Masks, new : News]
  <2>4. Top \in Shape /\ Top.oldh \in Masks /\ hookmask \in Masks
    BY <1>2 DEF Frame, Types
  <2>5. /\ \A m \in Masks : [Top EXCEPT !.oldh = m] \in Shape /\ [Top EXCEPT !.tmp = m] \in Shape
        /\ \A x \in News : [Top EXCEPT !.new = x] \in Shape
    BY <2>4
  <2>6. [Top EXCEPT !.oldh = @ \cup (hookmask \cap {"profile"})]
        = [Top EXCEPT !.oldh = Top.oldh \cup (hookmask \cap {"profile"})]
    OBVIOUS
  <2>. HIDE DEF Shape
  <2>7. f \in Shape
    BY <1>4, <2>1, <2>2, <2>3, <2>4, <2>5, <2>6 DEF Read
  <2>. QED BY <1>2, <1>4, <2>7 DEF Read, Frame, Shape
<1>. QED BY <1>1, <1>4, <1>5, StepMoves DEF Read

LEMMA TopMoves ==
  ASSUME Stack, UNCHANGED prog,
         \/ Return \/ Store \/ StoreMode \/ StoreState
         \/ Lock \/ Unlock \/ TakeSamples \/ StartStop
  PROVE  Moved(Top) /\ vm' \in Seq(Frame)
<1>1. vm # <<>> /\ Step(Top)
  BY DEF Return, Store, StoreMode, StoreState, Lock, Unlock, TakeSamples, StartStop, At
<1>. QED BY <1>1, TopOf, StepMoves

LEMMA CodeLength == ASSUME NEW c \in Codes PROVE Len(c) \in 1 .. 15
BY Lengths DEF Codes, LockCodes

LEMMA Calling ==
  ASSUME Disciplined, Stack, UNCHANGED prog,
         NEW fn, NEW code \in Codes, NEW arg \in {{}, {"event"}}, Call(fn, code, arg),
         fn \in {"callhook", "lj_profile_interpreter", "luaJIT_profile_start",
                 "luaJIT_profile_stop"} => code \in LockCodes,
         code \in {callhook, callhook_throw} => "active" \notin hookmask,
         code = lj_profile_interpreter => "vmevent" \notin hookmask,
         code = trace_start => {"gc", "vmevent"} \cap hookmask = {},
         code = luaJIT_profile_start => ~running
  PROVE  Stack' /\ Called(Top')
<1>. DEFINE g == [code |-> code, pc |-> 1, oldh |-> arg, tmp |-> {}, new |-> {}]
<1>1. fn \in prog.ops /\ Executing /\ Len(vm) < MaxDepth /\ vm' = Append(vm, g)
  BY DEF Call
<1>2. g \in Frame
  <2>1. Len(code) \in 1 .. 15
    BY CodeLength
  <2>2. arg \in Masks /\ {} \in Masks /\ {} \in News
    BY DEF Masks, News
  <2>3. g.code = code /\ g.pc = 1
    OBVIOUS
  <2>4. g \in [code : Codes, pc : Nat, oldh : Masks, tmp : Masks, new : News]
    BY <2>2
  <2>5. \A n \in 1 .. 15 : 1 \in 1 .. n
    OBVIOUS
  <2>. HIDE DEF g
  <2>. QED BY <2>1, <2>3, <2>4, <2>5 DEF Frame
<1>3. vm \in Seq(Frame) /\ Len(vm) \in Nat
  BY DEF Stack
<1>. HIDE DEF g
<1>4. /\ vm' \in Seq(Frame) /\ Len(vm') = Len(vm) + 1 /\ vm'[Len(vm) + 1] = g
      /\ \A i \in 1 .. Len(vm) : vm'[i] = vm[i]
  BY <1>1, <1>2, <1>3
<1>5. Top' = g
  BY <1>4 DEF Top
<1>6. \A i \in 1 .. Len(vm) : access(vm[i]) = "lua"
  BY <1>1, <1>3 DEF Stack, Executing, At, Top, access
<1>7. prog.variant = "thread" => code \in LockCodes
  <2>1. prog \in Programs
    BY DEF Stack
  <2>. QED BY <1>1, <2>1 DEF Disciplined
<1>8. Stack'
  <2>1. Len(vm') <= MaxDepth
    BY <1>1, <1>3, <1>4, Parameters
  <2>2. \A i \in 1 .. Len(vm') - 1 : access(vm'[i]) = "lua"
    BY <1>3, <1>4, <1>6 DEF access
  <2>3. prog.variant = "thread" => \A i \in 1 .. Len(vm') : vm'[i].code \in LockCodes
    BY <1>3, <1>4, <1>7 DEF Stack, g
  <2>. QED BY <1>4, <2>1, <2>2, <2>3 DEF Stack, access
<1>9. Kept(g.oldh) = {} /\ g.pc = 1 /\ g.code = code
  BY DEF g, Kept, Keeping
<1>. QED BY <1>1, <1>2, <1>4, <1>5, <1>8, <1>9 DEF Called

LEMMA CallCalls ==
  ASSUME Disciplined, Stack, UNCHANGED prog, CallFunction
  PROVE  Stack' /\ Called(Top')
<1>. USE Lengths, Calling DEF Codes, LockCodes
<1>1. CASE Call("gc_call_finalizer", gc_call_finalizer, {})
  <2>1. gc_call_finalizer \in Codes /\ gc_call_finalizer \notin
          {callhook, callhook_throw, lj_profile_interpreter, trace_start, luaJIT_profile_start}
    OBVIOUS
  <2>. QED BY <1>1, <2>1
<1>2. CASE Call("lua_pcall", lua_pcall, {})
  BY <1>2
<1>3. CASE Call("lj_vmevent_call", lj_vmevent_call, {})
  BY <1>3
<1>4. CASE "active" \notin hookmask /\ Call("callhook", callhook, {})
  BY <1>4
<1>5. CASE "active" \notin hookmask /\ Call("callhook_throw", callhook_throw, {})
  BY <1>5
<1>6. CASE \E events \in {{}, {"event"}} : Call("lua_sethook", lua_sethook, events)
  <2>1. PICK events \in {{}, {"event"}} : Call("lua_sethook", lua_sethook, events)
    BY <1>6
  <2>. QED BY <2>1
<1>7. CASE Call("lj_profile_interpreter", lj_profile_interpreter_skip, {})
  BY <1>7
<1>8. CASE "vmevent" \notin hookmask /\ Call("lj_profile_interpreter", lj_profile_interpreter, {})
  BY <1>8
<1>9. CASE {"gc", "vmevent"} \cap hookmask = {} /\ Call("trace_start", trace_start, {})
  BY <1>9
<1>10. CASE Call("trace_stop", trace_stop, {})
  BY <1>10
<1>11. CASE ~running /\ Call("luaJIT_profile_start", luaJIT_profile_start, {})
  BY <1>11
<1>12. CASE Call("luaJIT_profile_stop", luaJIT_profile_stop, {})
  BY <1>12
<1>. QED
  BY ONLY CallFunction, <1>1, <1>2, <1>3, <1>4, <1>5, <1>6, <1>7, <1>8, <1>9, <1>10, <1>11, <1>12
  DEF CallFunction

-----------------------------------------------------------------------------
(* Where the accesses of a function are *)

\* the timer does not write hookmask or the table while a function that keeps
\* the discipline is here
Guarded(f) == Section(f) \/ Joined(f)

LEMMA Where ==
  ASSUME NEW f \in Frame
  PROVE  /\ access(f) = "lua" => ~Section(f) /\ ~Joined(f) /\ ~Stale(f)
         /\ Stale(f) => access(f) \in {"read", "write"}
         /\ f.pc = 1 => ~Section(f) /\ ~Joined(f) /\ ~Stale(f) /\ access(f) # "lua"
                        /\ access(f) \notin Stores \cup {"write", "reset"}
         /\ f.code \in LockCodes =>
              /\ access(f) \in Stores \cup {"only_vmevent", "setmask", "read", "write",
                                            "take", "reset"} => Guarded(f)
              /\ access(f) \notin {"entergc", "vmevent", "events", "restore", "save",
                                    "record", "idle"}
         /\ access(f) \in {"start", "halt", "join"} => ~Section(f) /\ ~Joined(f)
         /\ access(f) = "stopped" => ~Section(f) /\ Joined(f)
         /\ access(f) = "record" => f.code = trace_start
         /\ access(f) = "start" => f.code = luaJIT_profile_start
         /\ access(f) = "only_vmevent" => f.code = lj_profile_interpreter /\ f.pc = 5
<1>1. Positions(f) /\ f.code \in Codes
  BY PositionsOf DEF Frame
<1>. QED BY <1>1, Lengths
  DEF Positions, Codes, LockCodes, Section, Joined, Stale, Guarded, Stores

\* a function does not end with any other access
LEMMA Last ==
  ASSUME NEW f \in Frame, f.pc = Len(f.code)
  PROVE  /\ access(f) \in {"restore", "unlock", "leave", "write", "start", "stopped"}
         /\ f.code = gc_call_finalizer \/ f.code = lj_vmevent_call => access(f) = "restore"
         /\ f.code = callhook_throw => access(f) = "leave"
         /\ f.code = callhook => f.pc = 10
         /\ f.code = lj_profile_interpreter => f.pc = 15
<1>1. Positions(f) /\ f.code \in Codes /\ f.pc \in Nat
  BY PositionsOf DEF Frame
<1>2. /\ f.code = gc_call_finalizer => f.pc = 7
      /\ f.code = lj_vmevent_call => f.pc = 6
      /\ f.code = callhook => f.pc = 10
      /\ f.code = callhook_throw => f.pc = 8
      /\ f.code = lua_sethook => f.pc = 5
      /\ f.code = lj_profile_interpreter => f.pc = 15
      /\ f.code = lj_profile_interpreter_skip => f.pc = 6
      /\ f.code = lua_pcall => f.pc = 4
      /\ f.code = trace_start => f.pc = 3
      /\ f.code = trace_stop => f.pc = 3
      /\ f.code = luaJIT_profile_start => f.pc = 1
      /\ f.code = luaJIT_profile_stop => f.pc = 7
  BY Lengths, Zenon
<1>3. f.code = gc_call_finalizer => access(f) = "restore"
  BY ONLY <1>1, <1>2 DEF Positions
<1>4. f.code = lj_vmevent_call => access(f) = "restore"
  BY ONLY <1>1, <1>2 DEF Positions
<1>5. f.code = callhook => access(f) = "unlock"
  BY ONLY <1>1, <1>2 DEF Positions
<1>6. f.code = callhook_throw => access(f) = "leave"
  BY ONLY <1>1, <1>2 DEF Positions
<1>7. f.code = lua_sethook => access(f) = "write"
  BY ONLY <1>1, <1>2 DEF Positions
<1>8. f.code = lj_profile_interpreter => access(f) = "unlock"
  BY ONLY <1>1, <1>2 DEF Positions
<1>9. f.code = lj_profile_interpreter_skip => access(f) = "unlock"
  BY ONLY <1>1, <1>2 DEF Positions
<1>10. f.code = lua_pcall => access(f) = "restore"
  BY ONLY <1>1, <1>2 DEF Positions
<1>11. f.code = trace_start => access(f) = "write"
  BY ONLY <1>1, <1>2 DEF Positions
<1>12. f.code = trace_stop => access(f) = "write"
  BY ONLY <1>1, <1>2 DEF Positions
<1>13. f.code = luaJIT_profile_start => access(f) = "start"
  BY ONLY <1>1, <1>2 DEF Positions
<1>14. f.code = luaJIT_profile_stop => access(f) = "stopped"
  BY ONLY <1>1, <1>2 DEF Positions
<1>. QED BY <1>1, <1>2, <1>3, <1>4, <1>5, <1>6, <1>7, <1>8, <1>9, <1>10, <1>11, <1>12, <1>13, <1>14 DEF Codes, LockCodes

LEMMA Sequel ==
  ASSUME NEW f \in Frame, NEW h \in Frame, h.code = f.code, h.pc = f.pc + 1
  PROVE  /\ access(h) \in Stores => access(f) = "load"
         /\ access(h) = "write" => access(f) = "read"
         /\ access(h) # "start"
         /\ access(h) = "reset" <=> access(f) = "take"
         /\ Section(h) => Section(f) \/ access(f) = "lock"
         /\ Section(h) => access(f) # "unlock"
         /\ Joined(h) => Joined(f) \/ access(f) = "join"
         /\ Stale(f) => Stale(h) \/ access(f) = "write"
         /\ access(f) \in {"only_vmevent", "setmask", "clear"} => Stale(h)
<1>1. Positions(f) /\ Positions(h) /\ f.code \in Codes
  BY PositionsOf DEF Frame
<1>. QED BY <1>1, Lengths
  DEF Positions, Codes, LockCodes, Section, Joined, Stale, Stores

\* the innermost frame after a step of the innermost function
Continued(f) ==
  /\ f.pc # Len(f.code) /\ vm' # <<>> /\ Top' = Onward(f) /\ Onward(f) \in Frame
  /\ Onward(f).code = Top.code /\ Onward(f).pc = Top.pc + 1
  /\ Onward(f).oldh = f.oldh /\ Onward(f).tmp = f.tmp /\ Onward(f).new = f.new
Left(f) ==
  /\ f.pc = Len(f.code)
  /\ vm' = <<>> \/ (vm' # <<>> /\ access(Top') = "lua" /\ Top' \in Frame)

LEMMA Moves ==
  ASSUME Stack, UNCHANGED prog, NEW f, Moved(f), vm' \in Seq(Frame)
  PROVE  /\ Stack' /\ vm # <<>> /\ Top \in Frame
         /\ Continued(f) \/ Left(f)
<1>1. /\ Stack'
      /\ \/ vm' = <<>>
         \/ f.pc # Len(f.code) /\ Top' = Onward(f) /\ Top' \in Frame
         \/ f.pc = Len(f.code) /\ access(Top)' = "lua" /\ Top' \in Frame
  BY MovedStack
<1>2. vm # <<>> /\ Top \in Frame /\ f \in Frame /\ f.code = Top.code /\ f.pc = Top.pc
      /\ Len(vm) \in Nat \ {0}
  BY TopOf DEF Moved
<1>3. vm' = <<>> => f.pc = Len(f.code)
  BY <1>2 DEF Moved
<1>4. /\ Onward(f).code = f.code /\ Onward(f).pc = f.pc + 1
      /\ Onward(f).oldh = f.oldh /\ Onward(f).tmp = f.tmp /\ Onward(f).new = f.new
  BY <1>2 DEF Onward, Frame
<1>5. f.pc # Len(f.code) => vm' # <<>>
  BY <1>3
<1>. QED BY <1>1, <1>2, <1>3, <1>4, <1>5 DEF Continued, Left, access

LEMMA MaskSets ==
  /\ \A m, n \in Masks : m \cup n \in Masks
  /\ \A m, n : m \in Masks => m \ n \in Masks /\ m \cap n \in Masks
  /\ {"active", "gc"} \in Masks /\ {"active", "vmevent"} \in Masks /\ {"active"} \in Masks
  /\ {"vmevent"} \in Masks /\ {"profile"} \in Masks /\ {"event"} \in Masks
BY DEF Masks

LEMMA TypesPreserved ==
  ASSUME Disciplined, Stack, Types, Next PROVE Types'
<1>. DEFINE Writes == vm # <<>> /\ access(Top) = "write" => Top.new \in Modes \X Modes
<1>0. UNCHANGED prog /\ NewMode \in Modes /\ prog \in Programs
  BY DEF Next, NewMode, Modes, Stack
<1>1. ASSUME NEW f, Moved(f), vm' \in Seq(Frame),
             access(Top) = "read" => f.new = <<mode, NewMode>>
      PROVE  Writes'
  <2>1. vm # <<>> /\ Top \in Frame /\ (Continued(f) \/ Left(f))
    BY <1>0, <1>1, Moves
  <2>2. CASE Continued(f)
    <3>1. access(Top') = "write" => access(Top) = "read"
      BY <2>1, <2>2, Sequel DEF Continued
    <3>2. access(Top') = "write" => Top'.new = <<mode, NewMode>>
      BY <1>1, <2>2, <3>1 DEF Continued
    <3>. QED BY <1>0, <3>2 DEF Types, access
  <2>3. CASE Left(f)
    BY <2>3 DEF Left, access
  <2>. QED BY <2>1, <2>2, <2>3
<1>2. Top \in Frame \/ vm = <<>>
  BY TopOf
<1>3. CASE \/ Return \/ Store \/ StoreMode \/ StoreState
           \/ Lock \/ Unlock \/ TakeSamples \/ StartStop
  <2>1. Moved(Top) /\ vm' \in Seq(Frame) /\ vm # <<>> /\ Top \in Frame
    BY <1>0, <1>2, <1>3, TopMoves DEF Moved
  <2>2. access(Top) # "read" => Writes'
    BY <1>1, <2>1
  <2>3. CASE Return
    BY <1>0, <2>2, <2>3 DEF Return, At, access, Types, timervars, profvars
  <2>4. CASE Store
    <3>0. wanted' = TRUE \/ wanted' = FALSE
      BY <2>4 DEF Store, Types
    <3>1. Top.tmp \in Masks /\ Top.oldh \in Masks
      BY <2>1 DEF Frame
    <3>2. /\ Top.tmp \cup {"active", "gc"} \in Masks
          /\ Top.tmp \cup {"active", "vmevent"} \in Masks
          /\ Top.tmp \cup {"active"} \in Masks /\ Top.tmp \ {"active"} \in Masks
          /\ (Top.tmp \cap {"event"}) \cup Top.oldh \in Masks
          /\ (Top.tmp \ {"event"}) \cup Top.oldh \in Masks
          /\ Top.tmp \ {"profile"} \in Masks /\ {"vmevent"} \in Masks
      BY <3>1, MaskSets
    <3>3. hookmask' \in Masks
      BY <2>4, <3>1, <3>2 DEF Store
    <3>. QED BY <1>0, <2>2, <2>4, <3>0, <3>3 DEF Store, At, access, Types, timervars, profvars
  <2>5. CASE StoreMode
    <3>1. Top.new \in Modes \X Modes
      BY <2>5 DEF Types, StoreMode, At, access
    <3>2. mode' \in Modes
      BY <2>5, <3>1 DEF StoreMode, WriteMode, Types
    <3>. QED BY <1>0, <2>2, <2>5, <3>2 DEF StoreMode, At, access, Types, timervars, profvars
  <2>6. CASE StoreState
    <3>1. prog.variant = "thread" => ~At("record")
      BY <2>1, Where DEF At, access, Stack, Top
    <3>2. state' \in {"idle", "record", "abort"} /\ (prog.variant = "thread" => state' = "idle")
      BY <2>6, <3>1 DEF StoreState, Types
    <3>. QED BY <1>0, <2>2, <2>6, <3>2 DEF StoreState, At, access, Types, timervars, profvars
  <2>7. CASE Lock \/ Unlock
    BY <1>0, <2>2, <2>7 DEF Lock, Unlock, At, access, Types, timervars, profvars
  <2>8. CASE TakeSamples
    BY <1>0, <2>2, <2>8 DEF TakeSamples, At, access, Types, timervars
  <2>9. CASE StartStop
    BY <1>0, <2>2, <2>9 DEF StartStop, At, access, Types, profvars
  <2>. QED BY <1>3, <2>3, <2>4, <2>5, <2>6, <2>7, <2>8, <2>9
<1>4. CASE Load
  <2>1. PICK f : Moved(f) /\ Read(f) /\ vm' \in Seq(Frame)
    BY <1>0, <1>4, LoadMoves
  <2>2. Top \in Frame
    BY <1>2, <2>1 DEF Moved
  <2>3. access(Top) = "read" => f.new = <<mode, NewMode>>
    BY <2>1, <2>2 DEF Read, Frame
  <2>4. Writes'
    BY <1>1, <2>1, <2>3
  <2>. QED BY <1>0, <1>4, <2>4 DEF Load, Types, timervars, profvars
<1>5. CASE CallFunction
  <2>1. Called(Top') /\ Top' \in Frame
    BY <1>0, <1>5, CallCalls DEF Called
  <2>2. access(Top') # "write"
    BY <2>1, Where DEF Called
  <2>. QED BY <1>0, <1>5, <2>2 DEF CallFunction, Types, timervars, profvars, access
<1>6. CASE Timer
  <2>1. vm' = vm /\ Top' = Top /\ state' = state /\ running' = running /\ wanted' = wanted
    BY <1>6 DEF Timer, profile_thread_exit, trigger_lock, trigger_store, trigger_read,
      trigger_write, trigger_unlock, profile_signal, TimerUnchanged, Top
  <2>2. Writes'
    BY <2>1 DEF Types, access
  <2>3. /\ hookmask' \in Masks /\ mode' \in Modes /\ tmask' \in Masks
        /\ tmode' \in Modes \X Modes
    <3>1. /\ <<{}, {}>> \in Modes \X Modes /\ {} \in Masks
          /\ NewMode \cup {"prof", "ins"} \in Modes
      BY <1>0 DEF Modes, Masks
    <3>2. mode \in Modes => <<mode, NewMode>> \in Modes \X Modes
      BY <1>0
    <3>. QED
      BY <1>6, <3>1, <3>2, MaskSets DEF Timer, profile_thread_exit, trigger_lock, trigger_store,
        trigger_read, trigger_write, trigger_unlock, profile_signal, timervars, Types, WriteMode
  <2>4. /\ lock' \in {"none", "free", "vm", "timer"} /\ halt' \in BOOLEAN
        /\ timer' \in {"dead", "sleep", "store", "read", "write", "unlock"}
    BY <1>6 DEF Timer, profile_thread_exit, trigger_lock, trigger_store, trigger_read,
      trigger_write, trigger_unlock, profile_signal, timervars, Types
  <2>. QED BY <1>0, <2>1, <2>2, <2>3, <2>4 DEF Types
<1>7. CASE sethook_signal
  <2>1. prog.variant = "signal"
    BY <1>0, <1>7, Parameters DEF sethook_signal, Disciplined
  <2>2. hookmask' \in Masks /\ mode' \in Modes
    <3>1. NewMode \cup {"ins"} \in Modes
      BY <1>0 DEF Modes
    <3>. QED BY <1>7, <3>1, MaskSets DEF sethook_signal, Types
  <2>. QED BY <1>0, <1>7, <2>1, <2>2 DEF sethook_signal, Types, timervars, profvars, access, Top
<1>. QED
  BY <1>3, <1>4, <1>5, <1>6, <1>7 DEF Next, VM

LEMMA LocksPreserved ==
  ASSUME Disciplined, Stack, Types, Locks, Next PROVE Locks'
<1>. DEFINE Timing ==
              /\ lock = "timer" <=> timer \in {"store", "read", "write", "unlock"}
              /\ prog.variant = "signal" => timer \in {"dead", "sleep"}
            Ticking ==
              prog.variant = "thread" =>
                (timer # "dead" => running) /\ (timer = "store" => tmask = hookmask)
            Holding == prog.variant = "thread" /\ vm # <<>> => Keeps(Top)
<1>0. /\ UNCHANGED prog /\ prog \in Programs /\ prog.variant \in {"thread", "signal"}
      /\ prog.variant = "thread" => vm = <<>> \/ Top.code \in LockCodes
      /\ Top \in Frame \/ vm = <<>>
  BY TopOf, Parameters DEF Next, Stack
<1>1. ASSUME NEW f, Moved(f), vm' \in Seq(Frame),
             prog.variant = "thread" =>
               /\ (Section(Top) /\ access(Top) # "unlock") \/ access(Top) = "lock" =>
                    lock' = "vm" \/ ~running'
               /\ Joined(Top) \/ access(Top) = "join" => timer' = "dead"
               /\ access(Top) = "load" => f.tmp = hookmask'
      PROVE  Holding'
  <2>1. vm # <<>> /\ Top \in Frame /\ (Continued(f) \/ Left(f))
    BY <1>0, <1>1, Moves
  <2>. SUFFICES ASSUME prog.variant = "thread", vm' # <<>>
                PROVE  Keeps(Top)'
    BY <1>0
  <2>2. CASE Continued(f)
    <3>1. Top' \in Frame /\ Top'.code = Top.code /\ Top'.pc = Top.pc + 1 /\ Top'.tmp = f.tmp
      BY <2>2 DEF Continued
    <3>. QED BY <1>1, <2>1, <3>1, Sequel DEF Keeps, Section, Joined, access
  <2>3. CASE Left(f)
    <3>1. Top' \in Frame /\ access(Top') = "lua"
      BY <2>3 DEF Left
    <3>. QED BY <3>1, Where DEF Keeps, Section, Joined, access, Stores
  <2>. QED BY <2>1, <2>2, <2>3
<1>2. CASE \/ Return \/ Store \/ StoreMode \/ StoreState
           \/ Lock \/ Unlock \/ TakeSamples \/ StartStop
  <2>1. Moved(Top) /\ vm' \in Seq(Frame) /\ vm # <<>> /\ Top \in Frame
    BY <1>0, <1>2, TopMoves DEF Moved
  <2>2. Holding /\ Timing /\ Ticking
    BY DEF Locks
  <2>3. prog.variant = "thread" => Keeps(Top) /\ Top.code \in LockCodes
    BY <1>0, <2>1, <2>2
  <2>4. CASE Return
    <3>1. access(Top) = "lua" /\ UNCHANGED <<hookmask, lock, timer, tmask, running>>
      BY <2>4 DEF Return, At, access, timervars, profvars
    <3>2. Holding'
      BY <1>1, <2>1, <2>3, <3>1, Where DEF Keeps
    <3>. QED BY <1>0, <2>2, <3>1, <3>2 DEF Locks
  <2>5. CASE Store
    <3>1. access(Top) \in Stores \cup {"only_vmevent", "setmask", "restore"}
          /\ UNCHANGED <<lock, timer, tmask, running>>
      BY <2>5 DEF Store, At, access, timervars, profvars, Stores
    <3>2. Holding'
      BY <1>1, <2>1, <2>3, <3>1 DEF Keeps, Stores
    <3>3. prog.variant = "thread" => timer # "store"
      BY <2>1, <2>2, <2>3, <3>1, Where DEF Keeps, Guarded
    <3>. QED BY <1>0, <2>2, <3>1, <3>2, <3>3 DEF Locks
  <2>6. CASE StoreMode \/ StoreState \/ TakeSamples
    <3>1. /\ access(Top) \in {"write", "abort", "record", "idle", "take", "reset"}
          /\ UNCHANGED <<hookmask, lock, timer, tmask, running>>
      BY <2>6 DEF StoreMode, StoreState, TakeSamples, At, access, timervars, profvars
    <3>2. Holding'
      BY <1>1, <2>1, <2>3, <3>1 DEF Keeps
    <3>. QED BY <1>0, <2>2, <3>1, <3>2 DEF Locks
  <2>7. CASE Lock
    <3>1. access(Top) = "lock" /\ UNCHANGED <<hookmask, timer, tmask, running>>
          /\ IF Locking THEN lock = "free" /\ lock' = "vm" ELSE UNCHANGED lock
      BY <2>7 DEF Lock, At, access, timervars, profvars
    <3>2. prog.variant = "thread" => lock' = "vm" \/ ~running'
      BY <3>1 DEF Locking
    <3>3. Holding'
      BY <1>1, <2>1, <2>3, <3>1, <3>2 DEF Keeps
    <3>4. Timing'
      BY <1>0, <2>2, <3>1
    <3>. QED BY <1>0, <2>2, <3>1, <3>3, <3>4 DEF Locks
  <2>8. CASE Unlock
    <3>1. access(Top) = "unlock" /\ UNCHANGED <<hookmask, timer, tmask, running>>
          /\ lock' = IF lock = "vm" THEN "free" ELSE lock
      BY <2>8 DEF Unlock, At, access, timervars, profvars
    <3>2. Holding'
      BY <1>1, <2>1, <2>3, <3>1 DEF Keeps
    <3>3. Timing'
      BY <1>0, <2>2, <3>1
    <3>. QED BY <1>0, <2>2, <3>1, <3>2, <3>3 DEF Locks
  <2>9. CASE StartStop
    <3>1. /\ access(Top) \in {"start", "halt", "join", "stopped"}
          /\ UNCHANGED <<hookmask, tmask>>
          /\ access(Top) = "start" =>
               /\ running' = TRUE /\ timer' = "sleep"
               /\ lock' = IF prog.variant = "thread" THEN "free" ELSE lock
          /\ access(Top) = "halt" =>
               /\ timer' = IF prog.variant = "signal" THEN "dead" ELSE timer
               /\ UNCHANGED <<lock, running>>
          /\ access(Top) = "join" =>
               timer = "dead" /\ timer' = "dead" /\ lock' = "none" /\ UNCHANGED running
          /\ access(Top) = "stopped" => running' = FALSE /\ UNCHANGED <<lock, timer>>
      BY <2>9 DEF StartStop, At, access, profvars
    <3>2. prog.variant = "thread" /\ access(Top) = "stopped" => timer = "dead"
      BY <2>1, <2>3, <3>1, Where DEF Keeps
    <3>3. Holding'
      <4>1. ~Section(Top) /\ (access(Top) # "stopped" => ~Joined(Top))
        BY <2>1, <3>1, Where
      <4>. QED BY <1>1, <2>1, <3>1, <3>2, <4>1
    <3>4. Timing' /\ Ticking'
      BY <1>0, <2>2, <3>1, <3>2
    <3>. QED BY <3>3, <3>4 DEF Locks
  <2>. QED BY <1>2, <2>4, <2>5, <2>6, <2>7, <2>8, <2>9
<1>3. CASE Load
  <2>1. PICK f : Moved(f) /\ Read(f) /\ vm' \in Seq(Frame)
    BY <1>0, <1>3, LoadMoves
  <2>2. vm # <<>> /\ Top \in Frame
    BY <1>0, <2>1 DEF Moved
  <2>3. UNCHANGED <<hookmask, lock, timer, tmask, running>>
    BY <1>3 DEF Load, timervars, profvars
  <2>4. access(Top) = "load" => f.tmp = hookmask'
    BY <2>1, <2>2, <2>3 DEF Read, Frame
  <2>5. access(Top) \in {"save", "load", "read", "mask", "collect"}
    BY <2>1 DEF Read
  <2>6. Holding'
    BY <1>1, <2>1, <2>2, <2>3, <2>4, <2>5 DEF Locks, Keeps
  <2>. QED BY <1>0, <2>3, <2>6 DEF Locks
<1>4. CASE CallFunction
  <2>1. Called(Top') /\ Top' \in Frame
    BY <1>0, <1>4, CallCalls DEF Called
  <2>2. UNCHANGED <<hookmask, lock, timer, tmask, running>>
    BY <1>4 DEF CallFunction, timervars, profvars
  <2>3. Keeps(Top)'
    BY <2>1, <2>2, Where DEF Called, Keeps, Section, Joined, access
  <2>. QED BY <1>0, <2>2, <2>3 DEF Locks
<1>5. CASE Timer
  <2>1. UNCHANGED <<vm, running, Top>>
    BY <1>5 DEF Timer, profile_thread_exit, trigger_lock, trigger_store, trigger_read,
      trigger_write, trigger_unlock, profile_signal, TimerUnchanged, Top
  <2>2. Timing'
    BY <1>0, <1>5 DEF Timer, profile_thread_exit, trigger_lock, trigger_store, trigger_read,
      trigger_write, trigger_unlock, profile_signal, timervars, Locks
  <2>3. Ticking'
    BY <1>0, <1>5, <2>1 DEF Timer, profile_thread_exit, trigger_lock, trigger_store,
      trigger_read, trigger_write, trigger_unlock, profile_signal, timervars, Locks
  <2>4. ASSUME prog.variant = "thread", vm # <<>> PROVE Keeps(Top)'
    <3>1. Keeps(Top) /\ Top \in Frame /\ Top.code \in LockCodes
      BY <1>0, <2>4 DEF Locks
    <3>2. timer = "store" => access(Top) \notin Stores
      BY <2>4, <3>1, Where DEF Keeps, Guarded, Locks
    <3>3. Joined(Top) => timer' = "dead"
      BY <1>5, <2>4, <3>1 DEF Timer, profile_thread_exit, trigger_lock, trigger_store,
        trigger_read, trigger_write, trigger_unlock, profile_signal, Keeps
    <3>4. Section(Top) => lock' = "vm" \/ ~running
      BY <1>5, <2>4, <3>1 DEF Timer, profile_thread_exit, trigger_lock, trigger_store,
        trigger_read, trigger_write, trigger_unlock, profile_signal, Keeps, Locks
    <3>5. timer # "store" => hookmask' = hookmask
      BY <1>5, <2>4 DEF Timer, profile_thread_exit, trigger_lock, trigger_store,
        trigger_read, trigger_write, trigger_unlock, profile_signal
    <3>. QED BY <2>1, <3>1, <3>2, <3>3, <3>4, <3>5 DEF Keeps, Section, Joined, access
  <2>. QED BY <1>0, <2>1, <2>2, <2>3, <2>4 DEF Locks
<1>6. CASE sethook_signal
  <2>1. prog.variant = "signal"
    BY <1>0, <1>6 DEF sethook_signal, Disciplined
  <2>. QED BY <1>0, <1>6, <2>1 DEF sethook_signal, timervars, profvars, Locks
<1>. QED
  BY <1>2, <1>3, <1>4, <1>5, <1>6 DEF Next, VM

LEMMA CountsPreserved ==
  ASSUME Disciplined, Stack, Types, Locks, Counts, Next PROVE Counts'
<1>0. /\ UNCHANGED prog /\ prog \in Programs
      /\ Top \in Frame \/ vm = <<>>
  BY TopOf DEF Next, Stack
<1>1. ASSUME NEW f, Moved(f), vm' \in Seq(Frame)
      PROVE  At("reset")' <=> access(Top) = "take"
  <2>1. vm # <<>> /\ Top \in Frame /\ (Continued(f) \/ Left(f))
    BY <1>0, <1>1, Moves
  <2>2. CASE Continued(f)
    <3>1. vm' # <<>> /\ Top' \in Frame /\ Top'.code = Top.code /\ Top'.pc = Top.pc + 1
      BY <2>2 DEF Continued
    <3>2. access(Top') = "reset" <=> access(Top) = "take"
      BY <2>1, <3>1, Sequel
    <3>. QED BY <3>1, <3>2 DEF At, access
  <2>3. CASE Left(f)
    <3>1. ~At("reset")'
      BY <2>3 DEF Left, At, access
    <3>2. access(Top) # "take"
      BY <1>1, <2>1, <2>3, Last DEF Left, Moved
    <3>. QED BY <3>1, <3>2
  <2>. QED BY <2>1, <2>2, <2>3
<1>2. CASE \/ Return \/ Store \/ StoreMode \/ StoreState
           \/ Lock \/ Unlock \/ TakeSamples \/ StartStop
  <2>1. Moved(Top) /\ vm' \in Seq(Frame) /\ vm # <<>> /\ Top \in Frame
    BY <1>0, <1>2, TopMoves DEF Moved
  <2>2. At("reset")' <=> access(Top) = "take"
    BY <1>1, <2>1
  <2>3. At("reset") <=> access(Top) = "reset"
    BY <2>1 DEF At, access
  <2>4. CASE Return \/ Store \/ StoreMode \/ StoreState \/ Lock \/ Unlock
    <3>1. access(Top) \notin {"take", "reset"} /\ UNCHANGED profvars
      BY <2>4 DEF Return, Store, StoreMode, StoreState, Lock, Unlock, At, access
    <3>. QED BY <1>0, <2>2, <2>3, <3>1 DEF Counts, Known, profvars
  <2>5. CASE TakeSamples
    <3>1. CASE access(Top) = "take"
      <4>1. delivered' = delivered + samples /\ samples' = samples /\ ticks' = ticks
        BY <2>5, <3>1 DEF TakeSamples, At, access
      <4>. QED BY <1>0, <2>2, <2>3, <3>1, <4>1 DEF Counts, Known
    <3>2. CASE access(Top) = "reset"
      <4>1. samples' = 0 /\ delivered' = delivered /\ ticks' = ticks
        BY <2>5, <3>2 DEF TakeSamples, At, access
      <4>. QED BY <1>0, <2>2, <2>3, <3>2, <4>1 DEF Counts, Known
    <3>. QED BY <2>5, <3>1, <3>2 DEF TakeSamples, At, access
  <2>6. CASE StartStop
    <3>1. access(Top) \notin {"take", "reset"}
      BY <2>6 DEF StartStop, At, access
    <3>2. \/ UNCHANGED <<samples, delivered, ticks>>
          \/ samples' = 0 /\ delivered' = 0 /\ ticks' = 0
      BY <2>6 DEF StartStop, profvars
    <3>. QED BY <1>0, <2>2, <2>3, <3>1, <3>2, Parameters DEF Counts, Known
  <2>. QED BY <1>2, <2>4, <2>5, <2>6
<1>3. CASE Load
  <2>1. PICK f : Moved(f) /\ Read(f) /\ vm' \in Seq(Frame)
    BY <1>0, <1>3, LoadMoves
  <2>2. access(Top) \notin {"take", "reset"} /\ UNCHANGED profvars
    BY <1>3, <2>1 DEF Load, Read
  <2>. QED BY <1>0, <1>1, <2>1, <2>2 DEF Counts, Known, profvars, At, access
<1>4. CASE CallFunction
  <2>1. Called(Top') /\ Top' \in Frame
    BY <1>0, <1>4, CallCalls DEF Called
  <2>2. ~At("reset")' /\ ~At("reset")
    BY <2>1, Where DEF Called, At, access, Executing
  <2>3. UNCHANGED profvars
    BY <1>4 DEF CallFunction
  <2>. QED BY <1>0, <2>2, <2>3 DEF Counts, Known, profvars
<1>5. CASE Timer
  <2>1. UNCHANGED <<vm, delivered, Top>> /\ (At("reset")' <=> At("reset"))
    BY <1>5 DEF Timer, profile_thread_exit, trigger_lock, trigger_store, trigger_read,
      trigger_write, trigger_unlock, profile_signal, TimerUnchanged, Top, At
  <2>2. \/ UNCHANGED <<samples, ticks>>
        \/ /\ ticks < MaxTicks /\ samples' = samples + 1 /\ ticks' = ticks + 1
           /\ prog.variant = "thread" => lock = "free" /\ timer = "sleep"
    BY <1>5 DEF Timer, profile_thread_exit, trigger_lock, trigger_store, trigger_read,
      trigger_write, trigger_unlock, profile_signal
  <2>3. prog.variant = "thread" /\ lock = "free" /\ timer = "sleep" => ~At("reset")
    <3>. SUFFICES ASSUME prog.variant = "thread", lock = "free", timer = "sleep", At("reset")
                  PROVE  FALSE
      OBVIOUS
    <3>1. vm # <<>> /\ Top \in Frame /\ access(Top) = "reset" /\ Top.code \in LockCodes
      BY <1>0, TopOf DEF At, access, Stack
    <3>. QED BY <3>1, Where DEF Locks, Keeps, Guarded
  <2>. QED BY <1>0, <2>1, <2>2, <2>3, Parameters DEF Counts, Known
<1>6. CASE sethook_signal
  BY <1>0, <1>6 DEF sethook_signal, timervars, profvars, Counts, Known, At, Top
<1>. QED
  BY <1>2, <1>3, <1>4, <1>5, <1>6 DEF Next, VM

LEMMA FreshPreserved ==
  ASSUME Disciplined, Stack, Types, Locks, Fresh, Next PROVE Fresh'
<1>0. /\ UNCHANGED prog /\ prog \in Programs
      /\ Top \in Frame \/ vm = <<>>
      /\ Types'
  BY TopOf, TypesPreserved DEF Next, Stack
<1>. SUFFICES ASSUME prog.variant = "thread"
              PROVE  Fresh'
  BY <1>0 DEF Fresh
<1>1. /\ vm # <<>> => Keeps(Top) /\ Top.code \in LockCodes /\ Top \in Frame
      /\ timer # "dead" => running
      /\ lock = "timer" <=> timer \in {"store", "read", "write", "unlock"}
      /\ mode = NewMode \/ timer \in {"read", "write"} \/ (vm # <<>> /\ Stale(Top))
      /\ timer = "write" => tmode = <<mode, NewMode>>
      /\ vm # <<>> /\ access(Top) = "write" => Top.new = <<mode, NewMode>>
  BY <1>0, TopOf DEF Locks, Fresh, Stack
<1>2. vm # <<>> /\ Guarded(Top) => timer \notin {"store", "read", "write", "unlock"}
  BY <1>1 DEF Keeps, Guarded
<1>3. (\A bit \in {"profile", "event"} : bit \in hookmask' <=> bit \in hookmask) => NewMode' = NewMode
  BY <1>0 DEF Types, NewMode
<1>4. ASSUME NEW f, Moved(f), vm' \in Seq(Frame), NewMode' = NewMode, mode' = mode,
             access(Top) # "write", access(Top) = "read" => f.new = <<mode, NewMode>>,
             UNCHANGED tmode, timer' = timer \/ (timer = "dead" /\ timer' = "sleep")
      PROVE  Fresh'
  <2>1. vm # <<>> /\ Top \in Frame /\ (Continued(f) \/ Left(f))
    BY <1>0, <1>4, Moves
  <2>2. timer' = "write" => tmode' = <<mode', NewMode'>>
    BY <1>1, <1>4
  <2>3. CASE Continued(f)
    <3>1. /\ vm' # <<>> /\ Top' \in Frame /\ Top'.code = Top.code /\ Top'.pc = Top.pc + 1
          /\ Top'.new = f.new
      BY <2>3 DEF Continued
    <3>2. (access(Top') = "write" => access(Top) = "read") /\ (Stale(Top) => Stale(Top'))
      BY <1>4, <2>1, <3>1, Sequel
    <3>. QED BY <1>0, <1>1, <1>4, <2>2, <3>1, <3>2 DEF Fresh, Stale, access
  <2>4. CASE Left(f)
    <3>1. vm' # <<>> => access(Top)' # "write"
      BY <2>4 DEF Left, access
    <3>2. access(Top) \in {"restore", "unlock", "leave", "write", "start", "stopped"}
      BY <1>4, <2>4, <2>1, Last DEF Left, Moved, access
    <3>3. ~Stale(Top)
      BY <1>4, <2>1, <3>2, Where
    <3>. QED BY <1>0, <1>1, <1>4, <2>2, <3>1, <3>3 DEF Fresh
  <2>. QED BY <2>1, <2>3, <2>4
<1>5. CASE \/ Return \/ Store \/ StoreMode \/ StoreState
           \/ Lock \/ Unlock \/ TakeSamples \/ StartStop
  <2>1. Moved(Top) /\ vm' \in Seq(Frame) /\ vm # <<>> /\ Top \in Frame
    BY <1>0, <1>5, TopMoves DEF Moved
  <2>2. CASE Return \/ StoreState \/ Lock \/ Unlock \/ TakeSamples
    <3>1. access(Top) \notin {"read", "write"} /\ UNCHANGED <<hookmask, mode, timer, tmode>>
      BY <2>2 DEF Return, StoreState, Lock, Unlock, TakeSamples, At, access, timervars
    <3>. QED BY <1>3, <1>4, <2>1, <3>1
  <2>3. CASE StartStop
    <3>1. access(Top) \notin {"read", "write"} /\ UNCHANGED <<hookmask, mode, tmode>>
      BY <2>3 DEF StartStop, At, access
    <3>2. timer' = timer \/ (timer = "dead" /\ timer' = "sleep")
      <4>1. access(Top) = "start" => timer = "dead"
        BY <1>1, <2>1 DEF Keeps
      <4>. QED BY <2>3, <4>1 DEF StartStop, At, access
    <3>. QED BY <1>3, <1>4, <2>1, <3>1, <3>2
  <2>4. CASE Store
    <3>0. mode' = mode /\ timer' = timer /\ tmode' = tmode /\ access(Top) \notin {"read", "write"}
      BY <2>4 DEF Store, timervars, At, access
    <3>1. CASE access(Top) \in {"enter", "leave"}
      <4>1. Top.tmp = hookmask
        BY <1>1, <2>1, <3>1 DEF Keeps, Stores
      <4>2. hookmask' = hookmask \cup {"active"} \/ hookmask' = hookmask \ {"active"}
        BY <2>4, <3>1, <4>1 DEF Store, At, access
      <4>3. NewMode' = NewMode
        BY <1>3, <4>2
      <4>. QED BY <1>4, <2>1, <3>0, <4>3
    <3>2. CASE access(Top) \in {"only_vmevent", "setmask", "clear"}
      <4>1. timer \notin {"store", "read", "write", "unlock"}
        BY <1>1, <1>2, <2>1, <3>2, Where DEF Stores
      <4>2. Continued(Top)
        BY <1>0, <2>1, <3>2, Moves, Last DEF Left
      <4>3. Stale(Top') /\ access(Top') # "write" /\ vm' # <<>>
        BY <2>1, <3>2, <4>2, Sequel DEF Continued
      <4>. QED BY <3>0, <4>1, <4>3 DEF Fresh, Stale, access
    <3>3. access(Top) \in {"enter", "leave", "only_vmevent", "setmask", "clear"}
      <4>1. access(Top) \in Stores \cup {"restore", "only_vmevent", "setmask"}
        BY <2>4 DEF Store, At, access, Stores
      <4>. QED BY <1>1, <2>1, <4>1, Where DEF Stores
    <3>. QED BY <3>1, <3>2, <3>3
  <2>5. CASE StoreMode
    <3>1. access(Top) = "write" /\ UNCHANGED <<hookmask, timer, tmode>>
      BY <2>5 DEF StoreMode, At, access, timervars
    <3>2. mode' = NewMode /\ NewMode' = NewMode
      <4>1. Top.new = <<mode, NewMode>> /\ WriteMode(Top.new)
        BY <1>1, <2>1, <2>5, <3>1 DEF StoreMode
      <4>. QED BY <1>3, <3>1, <4>1 DEF WriteMode
    <3>3. timer # "write"
      BY <1>1, <1>2, <2>1, <3>1, Where
    <3>4. vm' # <<>> => access(Top)' # "write"
      <4>1. CASE Continued(Top)
        BY <2>1, <3>1, <4>1, Sequel DEF Continued, access
      <4>2. CASE Left(Top)
        BY <4>2 DEF Left, access
      <4>. QED BY <1>0, <2>1, <4>1, <4>2, Moves
    <3>. QED BY <3>1, <3>2, <3>3, <3>4 DEF Fresh
  <2>. QED BY <1>5, <2>2, <2>3, <2>4, <2>5
<1>6. CASE Load
  <2>1. PICK f : Moved(f) /\ Read(f) /\ vm' \in Seq(Frame)
    BY <1>0, <1>6, LoadMoves
  <2>2. vm # <<>> /\ Top \in Frame
    BY <1>0, <2>1 DEF Moved
  <2>3. UNCHANGED <<hookmask, mode, timer, tmode>>
    BY <1>6 DEF Load, timervars
  <2>4. access(Top) = "read" => f.new = <<mode, NewMode>>
    BY <2>1, <2>2 DEF Read, Frame
  <2>5. access(Top) # "write"
    BY <2>1 DEF Read
  <2>. QED BY <1>3, <1>4, <2>1, <2>3, <2>4, <2>5
<1>7. CASE CallFunction
  <2>1. Called(Top') /\ Top' \in Frame
    BY <1>0, <1>7, CallCalls DEF Called
  <2>2. UNCHANGED <<hookmask, mode, timer, tmode>> /\ NewMode' = NewMode
    BY <1>3, <1>7 DEF CallFunction, timervars
  <2>3. access(Top') # "write"
    BY <2>1, Where DEF Called
  <2>4. vm # <<>> => ~Stale(Top)
    BY <1>1, <2>1, Where DEF Called, Executing, At, access
  <2>. QED BY <1>1, <2>2, <2>3, <2>4 DEF Fresh, access
<1>8. CASE Timer
  <2>1. UNCHANGED <<vm, Top>>
    BY <1>8 DEF Timer, profile_thread_exit, trigger_lock, trigger_store, trigger_read,
      trigger_write, trigger_unlock, profile_signal, TimerUnchanged, Top
  <2>2. vm # <<>> /\ access(Top) = "write" => timer \in {"dead", "sleep"}
    BY <1>0, <1>1, <1>2, Where DEF Types
  <2>3. CASE profile_thread_exit \/ trigger_lock \/ trigger_unlock
    <3>1. UNCHANGED <<mode, hookmask>> /\ NewMode' = NewMode
          /\ timer \notin {"read", "write"} /\ timer' # "write"
      BY <1>3, <2>3 DEF profile_thread_exit, trigger_lock, trigger_unlock
    <3>. QED BY <1>1, <2>1, <3>1 DEF Fresh, Stale, access
  <2>4. CASE trigger_store
    BY <2>1, <2>2, <2>4 DEF trigger_store, Fresh, access
  <2>5. CASE trigger_read
    <3>1. UNCHANGED <<mode, hookmask>> /\ NewMode' = NewMode
      BY <1>3, <2>5 DEF trigger_read
    <3>. QED BY <1>1, <2>1, <2>5, <3>1 DEF trigger_read, Fresh, access
  <2>6. CASE trigger_write
    <3>1. mode' = NewMode /\ NewMode' = NewMode
      BY <1>1, <1>3, <2>6 DEF trigger_write, WriteMode
    <3>. QED BY <2>1, <2>2, <2>6, <3>1 DEF trigger_write, Fresh, access
  <2>. QED BY <1>8, <2>3, <2>4, <2>5, <2>6 DEF Timer, profile_signal
<1>9. CASE sethook_signal
  BY <1>0, <1>9 DEF sethook_signal, Disciplined
<1>. QED
  BY <1>5, <1>6, <1>7, <1>8, <1>9 DEF Next, VM

-----------------------------------------------------------------------------
(* The bits that keep out hooks and traces *)

LEMMA KeptSets ==
  /\ \A m, n : Kept(m \cup n) = Kept(m) \cup Kept(n)
  /\ \A m : /\ Kept(m \ {"event"}) = Kept(m) /\ Kept(m \ {"profile"}) = Kept(m)
            /\ Kept(m \ {"active"}) = Kept(m) \ {"active"}
            /\ Kept(m \cap {"event"}) = {} /\ Kept(m \cap {"profile"}) = {}
            /\ Kept(m) \in SUBSET Keeping
  /\ Kept({"profile"}) = {} /\ Kept({"event"}) = {} /\ Kept({}) = {}
  /\ Kept({"active"}) = {"active"} /\ Kept({"vmevent"}) = {"vmevent"}
  /\ Kept({"active", "gc"}) = {"active", "gc"}
  /\ Kept({"active", "vmevent"}) = {"active", "vmevent"}
BY DEF Kept, Keeping

LEMMA KeptStores ==
  ASSUME NEW t, NEW o
  PROVE  /\ Kept((t \cap {"event"}) \cup o) = Kept(o)
         /\ Kept((t \ {"event"}) \cup o) = Kept(t) \cup Kept(o)
         /\ Kept(o \cup (t \cap {"profile"})) = Kept(o)
         /\ Kept(t \cup {"active", "gc"}) = Kept(t) \cup {"active", "gc"}
         /\ Kept(t \cup {"active", "vmevent"}) = Kept(t) \cup {"active", "vmevent"}
         /\ Kept(t \cup {"active"}) = Kept(t) \cup {"active"}
         /\ Kept(t \ {"active"}) = Kept(t) \ {"active"}
BY DEF Kept, Keeping

LEMMA InnerKeeps ==
  ASSUME NEW f \in Frame, NEW k \in SUBSET Keeping
  PROVE  /\ Inner(f, k) \in SUBSET Keeping
         /\ f.pc = 1 => Inner(f, k) = k
         /\ {"gc", "vmevent"} \cap k # {} => {"gc", "vmevent"} \cap Inner(f, k) # {}
         /\ "vmevent" \in k => "vmevent" \in Inner(f, k)
         /\ access(f) = "lua" =>
              /\ f.code \in {gc_call_finalizer, lj_vmevent_call, lj_profile_interpreter} =>
                   {"gc", "vmevent"} \cap Inner(f, k) # {}
              /\ f.code = lj_profile_interpreter => "vmevent" \in Inner(f, k)
<1>1. Positions(f) /\ f.code \in Codes
  BY PositionsOf DEF Frame
<1>2. Inner(f, k) \in {k \cup {"active", "gc"}, k \cup {"active", "vmevent"}, k \cup {"active"},
                        {"vmevent"}, k}
  BY DEF Inner
<1>3. Inner(f, k) \in SUBSET Keeping
  BY <1>2 DEF Keeping
<1>4. f.pc = 1 => Inner(f, k) = k
  BY DEF Inner
<1>5. access(f) = "lua" =>
        /\ f.code = gc_call_finalizer => Inner(f, k) = k \cup {"active", "gc"}
        /\ f.code = lj_vmevent_call => Inner(f, k) = k \cup {"active", "vmevent"}
        /\ f.code = lj_profile_interpreter => Inner(f, k) = {"vmevent"}
  BY <1>1, Lengths DEF Positions, Inner
<1>. QED BY <1>2, <1>3, <1>4, <1>5

LEMMA MaskCalls ==
  ASSUME Stack, Masking, NEW g, Called(g), vm' \in Seq(Frame), Kept(hookmask') = Kept(hookmask)
  PROVE  \E ks \in [1 .. Len(vm') + 1 -> SUBSET Keeping] : Nested(ks)'
<1>1. PICK ks \in [1 .. Len(vm) + 1 -> SUBSET Keeping] : Nested(ks)
  BY DEF Masking
<1>2. PICK n \in Nat : n = Len(vm) /\ Len(vm') = n + 1
  BY DEF Called, Stack
<1>3. PICK k \in SUBSET Keeping : k = Kept(hookmask)
  BY KeptSets
<1>4. PICK js \in [1 .. n + 2 -> SUBSET Keeping] :
         js[n + 2] = k /\ \A i \in 1 .. n + 1 : js[i] = ks[i]
  <2>. DEFINE ms == [i \in 1 .. n + 2 |-> IF i = n + 2 THEN k ELSE ks[i]]
  <2>1. ms \in [1 .. n + 2 -> SUBSET Keeping]
    BY <1>1, <1>2, <1>3
  <2>2. ms[n + 2] = k /\ \A i \in 1 .. n + 1 : ms[i] = ks[i]
    BY <1>2
  <2>. HIDE DEF ms
  <2>. QED BY <2>1, <2>2
<1>5. g \in Frame
  BY DEF Called
<1>6. ks[n + 1] = k /\ ks[1] = {}
  BY <1>1, <1>2, <1>3 DEF Nested
<1>7. Fits(g, k) /\ Inner(g, k) = k
  <2>1. g.pc = 1
    BY DEF Called
  <2>2. Fits(g, k)
    BY <1>3, <2>1, Lengths DEF Called, Fits, Kept, Keeping
  <2>. QED BY <1>3, <1>5, <2>1, <2>2, InnerKeeps
<1>8. \A i \in 1 .. n + 1 : Fits(vm'[i], js[i]) /\ js[i + 1] = Inner(vm'[i], js[i])
  <2>. SUFFICES ASSUME NEW i \in 1 .. n + 1
                PROVE  Fits(vm'[i], js[i]) /\ js[i + 1] = Inner(vm'[i], js[i])
    OBVIOUS
  <2>1. CASE i = n + 1
    BY <1>2, <1>4, <1>6, <1>7, <2>1 DEF Called
  <2>2. CASE i # n + 1
    <3>1. i \in 1 .. n /\ i \in 1 .. n + 1 /\ i + 1 \in 1 .. n + 1
      BY <1>2, <2>2
    <3>. QED BY <1>1, <1>2, <1>4, <3>1 DEF Called, Nested
  <2>. QED BY <2>1, <2>2
<1>9. \A i, j \in 1 .. n + 2 : i < j /\ access(vm'[i]) = "lua" =>
       /\ vm'[i].code \in {gc_call_finalizer, lj_vmevent_call, lj_profile_interpreter} =>
            {"gc", "vmevent"} \cap js[j] # {}
       /\ vm'[i].code = lj_profile_interpreter => "vmevent" \in js[j]
  <2>. SUFFICES ASSUME NEW i \in 1 .. n + 2, NEW j \in 1 .. n + 2, i < j, access(vm'[i]) = "lua"
                PROVE  /\ vm'[i].code \in {gc_call_finalizer, lj_vmevent_call, lj_profile_interpreter} =>
                            {"gc", "vmevent"} \cap js[j] # {}
                       /\ vm'[i].code = lj_profile_interpreter => "vmevent" \in js[j]
    OBVIOUS
  <2>1. i # n + 1
    BY <1>2, <1>5, Where DEF Called
  <2>2. i \in 1 .. n /\ vm'[i] = vm[i]
    BY <1>2, <2>1 DEF Called
  <2>3. PICK l \in 1 .. n + 1 : i < l /\ js[j] = ks[l]
    <3>1. CASE j = n + 2
      BY <1>2, <1>4, <1>6, <2>2, <3>1
    <3>2. CASE j # n + 2
      <4>1. j \in 1 .. n + 1
        BY <1>2, <3>2
      <4>. QED BY <1>4, <4>1
    <3>. QED BY <3>1, <3>2
  <2>. QED BY <1>1, <1>2, <2>2, <2>3 DEF Nested
<1>10. js[1] = {}
  BY <1>2, <1>4, <1>6
<1>. QED
  <2>1. Nested(js)'
    BY <1>2, <1>3, <1>4, <1>8, <1>9, <1>10 DEF Nested
  <2>. QED BY <1>2, <1>4, <2>1

LEMMA MaskStays ==
  ASSUME Masking, vm' = vm, Kept(hookmask') = Kept(hookmask)
  PROVE  Masking'
<1>1. PICK ks \in [1 .. Len(vm) + 1 -> SUBSET Keeping] : Nested(ks)
  BY DEF Masking
<1>2. Nested(ks)'
  BY <1>1 DEF Nested
<1>3. vm' # <<>> /\ access(Top)' \in Stores => Kept(Top.tmp)' = Kept(hookmask)'
  BY DEF Masking, Top, access, Kept
<1>. QED BY <1>2, <1>3 DEF Masking

\* f agrees with what a step of the innermost function does to the bits
Agrees(f) ==
  \A k \in SUBSET Keeping :
    Fits(Top, k) /\ Kept(hookmask) = Inner(Top, k) =>
      IF f.pc = Len(f.code) THEN Kept(hookmask') = k
      ELSE Fits(Onward(f), k) /\ Kept(hookmask') = Inner(Onward(f), k)

LEMMA MaskMoves ==
  ASSUME Stack, UNCHANGED prog, Masking, NEW f, Moved(f), vm' \in Seq(Frame), Agrees(f)
  PROVE  \E ks \in [1 .. Len(vm') + 1 -> SUBSET Keeping] : Nested(ks)'
<1>1. PICK ks \in [1 .. Len(vm) + 1 -> SUBSET Keeping] : Nested(ks)
  BY DEF Masking
<1>2. PICK n \in Nat \ {0} : n = Len(vm)
  BY TopOf DEF Moved
<1>3. vm # <<>> /\ Top \in Frame /\ Top = vm[n] /\ (Continued(f) \/ Left(f))
  BY <1>2, Moves DEF Top
<1>4. PICK k \in SUBSET Keeping : k = ks[n]
  BY <1>1, <1>2
<1>5. Fits(Top, k) /\ Kept(hookmask) = Inner(Top, k)
  BY <1>1, <1>2, <1>3, <1>4 DEF Nested
<1>6. \A i, j \in 1 .. n + 1 : i < j /\ access(vm[i]) = "lua" =>
       /\ vm[i].code \in {gc_call_finalizer, lj_vmevent_call, lj_profile_interpreter} =>
            {"gc", "vmevent"} \cap ks[j] # {}
       /\ vm[i].code = lj_profile_interpreter => "vmevent" \in ks[j]
  BY <1>1, <1>2 DEF Nested
<1>7. /\ ks[1] = {}
      /\ \A i \in 1 .. n : Fits(vm[i], ks[i]) /\ ks[i + 1] = Inner(vm[i], ks[i])
  BY <1>1, <1>2 DEF Nested
<1>8. CASE Continued(f)
  <2>1. /\ Len(vm') = n /\ vm'[n] = Onward(f) /\ \A i \in 1 .. n - 1 : vm'[i] = vm[i]
        /\ Onward(f) \in Frame
    BY <1>2, <1>8 DEF Moved, Continued
  <2>2. Fits(Onward(f), k) /\ Kept(hookmask') = Inner(Onward(f), k)
    BY <1>5, <1>8 DEF Agrees, Continued
  <2>3. PICK l \in SUBSET Keeping : l = Kept(hookmask')
    BY KeptSets
  <2>4. PICK js \in [1 .. n + 1 -> SUBSET Keeping] :
           js[n + 1] = l /\ \A i \in 1 .. n : js[i] = ks[i]
    <3>. DEFINE ms == [i \in 1 .. n + 1 |-> IF i = n + 1 THEN l ELSE ks[i]]
    <3>1. ms \in [1 .. n + 1 -> SUBSET Keeping]
      BY <1>1, <1>2, <2>3
    <3>2. ms[n + 1] = l /\ \A i \in 1 .. n : ms[i] = ks[i]
      BY <1>2
    <3>. HIDE DEF ms
    <3>. QED BY <3>1, <3>2
  <2>5. \A i \in 1 .. n : Fits(vm'[i], js[i]) /\ js[i + 1] = Inner(vm'[i], js[i])
    <3>. SUFFICES ASSUME NEW i \in 1 .. n
                  PROVE  Fits(vm'[i], js[i]) /\ js[i + 1] = Inner(vm'[i], js[i])
      OBVIOUS
    <3>1. CASE i = n
      BY <1>4, <2>1, <2>2, <2>3, <2>4, <3>1
    <3>2. CASE i # n
      <4>1. i \in 1 .. n - 1 /\ i + 1 \in 1 .. n
        BY <1>2, <3>2
      <4>. QED BY <1>7, <2>1, <2>4, <4>1
    <3>. QED BY <3>1, <3>2
  <2>6. \A i, j \in 1 .. n + 1 : i < j /\ access(vm'[i]) = "lua" =>
       /\ vm'[i].code \in {gc_call_finalizer, lj_vmevent_call, lj_profile_interpreter} =>
            {"gc", "vmevent"} \cap js[j] # {}
       /\ vm'[i].code = lj_profile_interpreter => "vmevent" \in js[j]
    <3>. SUFFICES ASSUME NEW i \in 1 .. n + 1, NEW j \in 1 .. n + 1, i < j, access(vm'[i]) = "lua"
                  PROVE  /\ vm'[i].code \in {gc_call_finalizer, lj_vmevent_call, lj_profile_interpreter} =>
                              {"gc", "vmevent"} \cap js[j] # {}
                         /\ vm'[i].code = lj_profile_interpreter => "vmevent" \in js[j]
      OBVIOUS
    <3>1. CASE i = n
      <4>1. j = n + 1 /\ js[j] = Inner(Onward(f), k) /\ vm'[i] = Onward(f)
        BY <1>2, <2>1, <2>2, <2>3, <2>4, <3>1
      <4>. QED BY <2>1, <4>1, InnerKeeps
    <3>2. CASE i # n
      <4>1. i \in 1 .. n - 1 /\ vm'[i] = vm[i]
        BY <1>2, <2>1, <3>2
      <4>2. CASE j = n + 1
        <5>1. i < n /\ n \in 1 .. n + 1 /\ i \in 1 .. n + 1
          BY <1>2, <4>1
        <5>2. /\ vm'[i].code \in {gc_call_finalizer, lj_vmevent_call, lj_profile_interpreter} =>
                   {"gc", "vmevent"} \cap k # {}
              /\ vm'[i].code = lj_profile_interpreter => "vmevent" \in k
          BY <1>4, <1>6, <4>1, <5>1
        <5>3. js[j] = Inner(Onward(f), k)
          BY <2>2, <2>3, <2>4, <4>2
        <5>. QED BY <2>1, <5>2, <5>3, InnerKeeps
      <4>3. CASE j # n + 1
        <5>1. j \in 1 .. n
          BY <1>2, <4>3
        <5>. QED BY <1>6, <2>4, <4>1, <5>1
      <4>. QED BY <4>2, <4>3
    <3>. QED BY <3>1, <3>2
  <2>7. js[1] = {}
    BY <1>2, <1>7, <2>4
  <2>8. Nested(js)'
    BY <1>2, <2>1, <2>3, <2>4, <2>5, <2>6, <2>7 DEF Nested
  <2>. QED BY <2>1, <2>4, <2>8
<1>9. CASE Left(f)
  <2>1. Len(vm') = n - 1 /\ \A i \in 1 .. n - 1 : vm'[i] = vm[i]
    BY <1>2, <1>9 DEF Moved, Left
  <2>2. Kept(hookmask') = k
    BY <1>5, <1>9 DEF Agrees, Left
  <2>3. PICK js \in [1 .. n -> SUBSET Keeping] : \A i \in 1 .. n : js[i] = ks[i]
    <3>. DEFINE ms == [i \in 1 .. n |-> ks[i]]
    <3>1. ms \in [1 .. n -> SUBSET Keeping] /\ \A i \in 1 .. n : ms[i] = ks[i]
      BY <1>1, <1>2
    <3>. HIDE DEF ms
    <3>. QED BY <3>1
  <2>4. \A i \in 1 .. n - 1 : Fits(vm'[i], js[i]) /\ js[i + 1] = Inner(vm'[i], js[i])
    BY <1>2, <1>7, <2>1, <2>3
  <2>5. \A i, j \in 1 .. n : i < j /\ access(vm'[i]) = "lua" =>
       /\ vm'[i].code \in {gc_call_finalizer, lj_vmevent_call, lj_profile_interpreter} =>
            {"gc", "vmevent"} \cap js[j] # {}
       /\ vm'[i].code = lj_profile_interpreter => "vmevent" \in js[j]
    <3>. TAKE i, j \in 1 .. n
    <3>1. i < j => vm'[i] = vm[i] /\ i \in 1 .. n + 1 /\ j \in 1 .. n + 1
      BY <1>2, <2>1
    <3>. QED BY <1>6, <2>3, <3>1
  <2>6. js[1] = {} /\ js[n] = k
    BY <1>2, <1>4, <1>7, <2>3
  <2>7. Len(vm') + 1 = n
    BY <1>2, <2>1
  <2>8. Nested(js)'
    BY <1>2, <2>1, <2>2, <2>3, <2>4, <2>5, <2>6, <2>7 DEF Nested
  <2>. QED BY <2>3, <2>7, <2>8
<1>. QED BY <1>3, <1>8, <1>9

\* accesses that leave the bits as they are, and what the function knows of them
Bystanders == {"abort", "lock", "unlock", "lua", "load", "take", "reset", "read", "write",
               "collect", "record", "idle", "start", "halt", "join", "clear", "stopped", "events"}

LEMMA OnwardOf ==
  ASSUME NEW f \in Frame
  PROVE  /\ Onward(f).code = f.code /\ Onward(f).pc = f.pc + 1 /\ Onward(f).oldh = f.oldh
         /\ f.pc \in Nat
BY DEF Onward, Frame

LEMMA Bystanding ==
  ASSUME Stack, NEW f, Moved(f), access(Top) \in Bystanders,
         Kept(f.oldh) = Kept(Top.oldh), Kept(hookmask') = Kept(hookmask)
  PROVE  Agrees(f)
<1>1. vm # <<>> /\ Top \in Frame /\ f \in Frame /\ f.code = Top.code /\ f.pc = Top.pc
  BY TopOf DEF Moved
<1>2. Positions(f) /\ f.code \in Codes /\ access(f) = access(Top)
  BY <1>1, PositionsOf DEF access, Frame
<1>3. ASSUME NEW k \in SUBSET Keeping, Fits(Top, k)
      PROVE  /\ f.pc # Len(f.code) =>
                  Fits(Onward(f), k) /\ Inner(Onward(f), k) = Inner(Top, k)
             /\ f.pc = Len(f.code) => Inner(Top, k) = k
  <2>1. CASE f.pc # Len(f.code)
    <3>1. Onward(f) \in Frame /\ Positions(Onward(f))
      BY <2>1, PositionsOf DEF Moved
    <3>2. /\ Onward(f).code = Top.code /\ Onward(f).pc = Top.pc + 1
          /\ Onward(f).oldh = f.oldh /\ Top.pc \in Nat
      BY <1>1, OnwardOf
    <3>3. Inner(Onward(f), k) = Inner(Top, k)
      <4>1. /\ f.code = gc_call_finalizer => f.pc # 4
            /\ f.code = lj_vmevent_call => f.pc # 3
            /\ f.code = callhook => f.pc # 4 /\ f.pc # 9
            /\ f.code = callhook_throw => f.pc # 4
            /\ f.code = lj_profile_interpreter => f.pc # 5 /\ f.pc # 12
        BY <1>2 DEF Positions, Bystanders
      <4>. QED BY <1>1, <3>2, <4>1 DEF Inner
    <3>4. Fits(Onward(f), k)
      BY <1>1, <1>2, <1>3, <3>1, <3>2, Lengths DEF Fits, Positions, Codes, LockCodes, Bystanders
    <3>. QED BY <2>1, <3>3, <3>4
  <2>2. CASE f.pc = Len(f.code)
    <3>1. access(Top) \in {"unlock", "write", "start", "stopped"}
      BY <1>1, <1>2, <2>2, Last DEF Bystanders
    <3>2. /\ f.code \notin {gc_call_finalizer, lj_vmevent_call, callhook_throw}
          /\ f.code = callhook => f.pc = 10
          /\ f.code = lj_profile_interpreter => f.pc = 15
      BY <1>1, <1>2, <2>2, <3>1, Last
    <3>3. /\ Top.code = callhook => Top.pc \notin 5 .. 9
          /\ Top.code = lj_profile_interpreter => Top.pc \notin 6 .. 12
      BY ONLY <1>1, <3>2
    <3>4. Inner(Top, k) = k
      BY ONLY <1>1, <3>2, <3>3 DEF Inner
    <3>. QED BY <2>2, <3>4
  <2>. QED BY <2>1, <2>2
<1>. QED BY <1>1, <1>3 DEF Agrees

LEMMA LoadAgrees ==
  ASSUME Stack, Types, UNCHANGED <<prog, hookmask>>, NEW f, Moved(f), Read(f)
  PROVE  Agrees(f)
<1>1. vm # <<>> /\ Top \in Frame /\ f \in Frame /\ f.code = Top.code /\ f.pc = Top.pc
  BY TopOf DEF Moved
<1>2. Positions(f) /\ f.code \in Codes /\ access(f) = access(Top)
  BY <1>1, PositionsOf DEF access, Frame
<1>3. CASE access(Top) \in {"load", "read", "collect"}
  <2>1. \/ f.oldh = Top.oldh
        \/ f.oldh = Top.oldh \cup (hookmask \cap {"profile"})
    <3>1. Top \in [code : Codes, pc : Nat, oldh : Masks, tmp : Masks, new : News]
      BY <1>1 DEF Frame
    <3>2. access(Top) \in {"load", "read"} => f.oldh = Top.oldh
      BY <1>3, <3>1 DEF Read
    <3>3. access(Top) = "collect" => f.oldh = Top.oldh \cup (hookmask \cap {"profile"})
      BY <1>3, <3>1 DEF Read
    <3>. QED BY <1>3, <3>2, <3>3
  <2>2. Kept(f.oldh) = Kept(Top.oldh)
    BY <2>1 DEF Kept, Keeping
  <2>. QED BY <1>3, <2>2, Bystanding DEF Bystanders
<1>4. CASE access(Top) \in {"save", "mask"}
  <2>1. f.oldh = hookmask \ {"event"} \/ f.oldh = hookmask \ {"profile"}
    BY <1>1, <1>4 DEF Read, Frame
  <2>2. Kept(f.oldh) = Kept(hookmask)
    BY <2>1, KeptSets
  <2>3. f.pc # Len(f.code) /\ Onward(f) \in Frame
    BY <1>1, <1>2, <1>4, Last DEF Moved
  <2>4. /\ Onward(f).code = Top.code /\ Onward(f).pc = Top.pc + 1
        /\ Onward(f).oldh = f.oldh /\ Top.pc \in Nat
    BY <1>1, OnwardOf
  <2>5. /\ f.code \notin {callhook, callhook_throw, lua_sethook, trace_start}
        /\ f.code = gc_call_finalizer => f.pc = 1
        /\ f.code = lj_vmevent_call => f.pc = 1
        /\ f.code = lj_profile_interpreter => f.pc = 2
    BY <1>2, <1>4, Lengths DEF Positions, Codes, LockCodes
  <2>6. ASSUME NEW k \in SUBSET Keeping, Fits(Top, k), Kept(hookmask) = Inner(Top, k)
        PROVE  Fits(Onward(f), k) /\ Kept(hookmask') = Inner(Onward(f), k)
    <3>1. Inner(Top, k) = k /\ Inner(Onward(f), k) = k
      BY <1>1, <2>4, <2>5 DEF Inner
    <3>2. Fits(Onward(f), k)
      BY <1>1, <2>2, <2>4, <2>5, <2>6, <3>1 DEF Fits
    <3>. QED BY <2>6, <3>1, <3>2
  <2>. QED BY <2>3, <2>6 DEF Agrees
<1>. QED BY <1>3, <1>4 DEF Read

LEMMA StoreAgrees ==
  ASSUME Stack, Types, Masking, UNCHANGED prog, Store
  PROVE  Agrees(Top)
<1>1. vm # <<>> /\ Top \in Frame /\ Moved(Top)
  BY TopOf, TopMoves DEF Store, At
<1>2. Positions(Top) /\ Top.code \in Codes
  BY <1>1, PositionsOf DEF Frame
<1>3. access(Top) \in Stores => Kept(Top.tmp) = Kept(hookmask)
  BY <1>1 DEF Masking
<1>4. /\ Onward(Top).code = Top.code /\ Onward(Top).pc = Top.pc + 1
      /\ Onward(Top).oldh = Top.oldh /\ Top.pc \in Nat
  BY <1>1, OnwardOf
<1>5. CASE access(Top) = "clear"
  <2>1. Kept(hookmask') = Kept(hookmask)
    BY <1>3, <1>5, KeptSets DEF Store, At, access, Stores
  <2>. QED BY <1>1, <1>5, <2>1, Bystanding DEF Bystanders
<1>. DEFINE Here(k) == Fits(Top, k) /\ Kept(hookmask) = Inner(Top, k)
<1>6. access(Top) \in {"events", "entergc", "vmevent", "enter", "only_vmevent", "setmask"} =>
        Top.pc # Len(Top.code)
  BY <1>1, Last
<1>7. CASE access(Top) = "events"
  <2>1. Top.code = lua_sethook
    BY <1>2, <1>7 DEF Positions, Codes, LockCodes
  <2>2. Kept(hookmask') = Kept(hookmask) \cup Kept(Top.oldh)
    <3>1. hookmask' = (Top.tmp \ {"event"}) \cup Top.oldh /\ Kept(Top.tmp) = Kept(hookmask)
      BY <1>3, <1>7 DEF Store, At, access, Stores
    <3>. QED BY <3>1 DEF Kept, Keeping
  <2>3. ASSUME NEW k \in SUBSET Keeping, Here(k)
        PROVE  Fits(Onward(Top), k) /\ Kept(hookmask') = Inner(Onward(Top), k)
    <3>1. Inner(Top, k) = k /\ Inner(Onward(Top), k) = k
      BY <1>4, <2>1, Lengths DEF Inner
    <3>2. Kept(Top.oldh) = {}
      BY <2>1, <2>3 DEF Fits
    <3>3. Fits(Onward(Top), k)
      BY <1>4, <2>1, <3>2, Lengths DEF Fits
    <3>. QED BY <2>2, <2>3, <3>1, <3>2, <3>3
  <2>. QED BY <1>6, <1>7, <2>3 DEF Agrees
<1>8. CASE access(Top) = "restore"
  <2>1. /\ Top.code \in {gc_call_finalizer, lj_vmevent_call, lua_pcall}
        /\ Top.pc >= 2
        /\ Top.code = gc_call_finalizer => Top.pc = 7
        /\ Top.code = lj_vmevent_call => Top.pc = 6
        /\ Top.code = lua_pcall => Top.pc = 4
    BY <1>2, <1>8 DEF Positions, Codes, LockCodes
  <2>2. Top.pc = Len(Top.code)
    BY ONLY <2>1, Lengths, Zenon
  <2>3. Kept(hookmask') = Kept(Top.oldh)
    <3>1. hookmask' = (Top.tmp \cap {"event"}) \cup Top.oldh
      BY <1>8 DEF Store, At, access
    <3>. QED BY <3>1 DEF Kept, Keeping
  <2>. QED BY <2>1, <2>2, <2>3 DEF Agrees, Fits
<1>9. CASE access(Top) \in {"entergc", "vmevent", "enter"}
  <2>1. \/ /\ access(Top) = "entergc" /\ Top.code = gc_call_finalizer /\ Top.pc = 4
           /\ hookmask' = Top.tmp \cup {"active", "gc"}
        \/ /\ access(Top) = "vmevent" /\ Top.code = lj_vmevent_call /\ Top.pc = 3
           /\ hookmask' = Top.tmp \cup {"active", "vmevent"}
        \/ /\ access(Top) = "enter" /\ Top.code \in {callhook, callhook_throw} /\ Top.pc = 4
           /\ hookmask' = Top.tmp \cup {"active"}
    BY <1>2, <1>9 DEF Store, At, access, Positions, Codes, LockCodes
  <2>2. ASSUME NEW k \in SUBSET Keeping, Here(k)
        PROVE  Fits(Onward(Top), k) /\ Kept(hookmask') = Inner(Onward(Top), k)
    <3>1. Inner(Top, k) = k /\ Kept(Top.tmp) = k
      BY <1>3, <1>9, <2>1, <2>2, Lengths DEF Inner, Stores
    <3>2. /\ Top.code = gc_call_finalizer => Inner(Onward(Top), k) = k \cup {"active", "gc"}
          /\ Top.code = lj_vmevent_call => Inner(Onward(Top), k) = k \cup {"active", "vmevent"}
          /\ Top.code \in {callhook, callhook_throw} => Inner(Onward(Top), k) = k \cup {"active"}
      BY <1>4, <2>1, Lengths DEF Inner
    <3>3. Kept(hookmask') = Inner(Onward(Top), k)
      BY <2>1, <3>1, <3>2, KeptStores
    <3>4. Fits(Onward(Top), k)
      BY <1>4, <2>1, <2>2, Lengths DEF Fits
    <3>. QED BY <3>3, <3>4
  <2>. QED BY <1>6, <1>9, <2>2 DEF Agrees
<1>10. CASE access(Top) = "leave"
  <2>1. /\ Top.code \in {callhook, callhook_throw}
        /\ Top.code = callhook => Top.pc = 9
        /\ Top.code = callhook_throw => Top.pc = 8
        /\ Kept(hookmask') = Kept(hookmask) \ {"active"}
    BY <1>2, <1>3, <1>10, KeptSets DEF Store, At, access, Positions, Codes, LockCodes, Stores
  <2>2. Top.code = callhook => Top.pc # Len(Top.code)
    BY <1>1, <2>1, Last
  <2>3. Top.code = callhook_throw => Top.pc = Len(Top.code)
    BY ONLY <2>1, Lengths, Zenon
  <2>4. ASSUME NEW k \in SUBSET Keeping, Here(k)
        PROVE  /\ Kept(hookmask') = k
               /\ Top.code = callhook =>
                    Fits(Onward(Top), k) /\ Inner(Onward(Top), k) = k
    <3>1. Inner(Top, k) = k \cup {"active"} /\ "active" \notin k
      BY <2>1, <2>4, Lengths DEF Inner, Fits
    <3>2. Kept(hookmask') = k
      BY <2>1, <2>4, <3>1
    <3>3. Top.code = callhook => Inner(Onward(Top), k) = k
      BY <1>4, <2>1, Lengths DEF Inner
    <3>4. Top.code = callhook => Fits(Onward(Top), k)
      BY <1>4, <3>1, Lengths DEF Fits
    <3>. QED BY <3>2, <3>3, <3>4
  <2>. QED BY <2>1, <2>2, <2>3, <2>4 DEF Agrees
<1>11. CASE access(Top) = "only_vmevent"
  <2>1. Top.code = lj_profile_interpreter /\ Top.pc = 5 /\ hookmask' = {"vmevent"}
    BY <1>1, <1>11, Where DEF Store, At, access
  <2>2. ASSUME NEW k \in SUBSET Keeping, Here(k)
        PROVE  Fits(Onward(Top), k) /\ Kept(hookmask') = Inner(Onward(Top), k)
    <3>1. Inner(Onward(Top), k) = {"vmevent"} /\ Kept(hookmask') = {"vmevent"}
      <4>1. Onward(Top).code = lj_profile_interpreter /\ Onward(Top).pc = 6
        BY <1>4, <2>1
      <4>2. Inner(Onward(Top), k) = {"vmevent"}
        BY ONLY <4>1, Lengths DEF Inner
      <4>. QED BY <2>1, <4>2, KeptSets
    <3>2. Fits(Onward(Top), k)
      BY <1>4, <2>1, <2>2, Lengths DEF Fits
    <3>. QED BY <3>1, <3>2
  <2>. QED BY <1>6, <1>11, <2>2 DEF Agrees
<1>12. CASE access(Top) = "setmask"
  <2>1. /\ Top.code \in {lj_profile_interpreter, lj_profile_interpreter_skip} /\ Top.pc >= 3
        /\ Top.code = lj_profile_interpreter => Top.pc = 12
        /\ hookmask' = Top.oldh
    BY <1>2, <1>12 DEF Store, At, access, Positions, Codes, LockCodes
  <2>2. ASSUME NEW k \in SUBSET Keeping, Here(k)
        PROVE  Fits(Onward(Top), k) /\ Kept(hookmask') = Inner(Onward(Top), k)
    <3>1. Inner(Onward(Top), k) = k /\ Kept(Top.oldh) = k
      BY <1>4, <2>1, <2>2, Lengths DEF Inner, Fits
    <3>2. Fits(Onward(Top), k)
      BY <1>4, <2>1, <2>2, Lengths DEF Fits
    <3>. QED BY <2>1, <3>1, <3>2
  <2>. QED BY <1>6, <1>12, <2>2 DEF Agrees
<1>. QED
  BY <1>5, <1>7, <1>8, <1>9, <1>10, <1>11, <1>12 DEF Store, At, access

LEMMA MaskingPreserved ==
  ASSUME Disciplined, Stack, Types, Locks, Masking, Next PROVE Masking'
<1>0. /\ UNCHANGED prog /\ prog \in Programs
      /\ Top \in Frame \/ vm = <<>>
  BY TopOf DEF Next, Stack
<1>1. ASSUME NEW f, Moved(f), vm' \in Seq(Frame), Agrees(f),
             access(Top) = "load" => f.tmp = hookmask /\ hookmask' = hookmask
      PROVE  Masking'
  <2>1. \E ks \in [1 .. Len(vm') + 1 -> SUBSET Keeping] : Nested(ks)'
    BY <1>0, <1>1, MaskMoves
  <2>2. vm # <<>> /\ Top \in Frame /\ (Continued(f) \/ Left(f))
    BY <1>0, <1>1, Moves
  <2>3. CASE Continued(f)
    <3>1. Top' \in Frame /\ Top'.code = Top.code /\ Top'.pc = Top.pc + 1 /\ Top'.tmp = f.tmp
      BY <2>3 DEF Continued
    <3>2. access(Top') \in Stores => Top'.tmp = hookmask'
      BY <1>1, <2>2, <3>1, Sequel
    <3>. QED BY <2>1, <3>2 DEF Masking, Kept, access
  <2>4. CASE Left(f)
    BY <2>1, <2>4 DEF Left, Masking, access, Stores
  <2>. QED BY <2>2, <2>3, <2>4
<1>2. CASE Return \/ StoreMode \/ StoreState \/ Lock \/ Unlock \/ TakeSamples \/ StartStop
  <2>1. Moved(Top) /\ vm' \in Seq(Frame)
    BY <1>0, <1>2, TopMoves
  <2>2. access(Top) \in Bystanders \ {"load"} /\ hookmask' = hookmask
    BY <1>2 DEF Return, StoreMode, StoreState, Lock, Unlock, TakeSamples, StartStop, At, access,
      Bystanders
  <2>3. Agrees(Top)
    BY <2>1, <2>2, Bystanding
  <2>. QED BY <1>1, <2>1, <2>2, <2>3
<1>3. CASE Store
  <2>1. Moved(Top) /\ vm' \in Seq(Frame) /\ Agrees(Top)
    BY <1>0, <1>3, TopMoves, StoreAgrees
  <2>2. access(Top) # "load"
    BY <1>3 DEF Store, At, access
  <2>. QED BY <1>1, <2>1, <2>2
<1>4. CASE Load
  <2>1. PICK f : Moved(f) /\ Read(f) /\ vm' \in Seq(Frame)
    BY <1>0, <1>4, LoadMoves
  <2>2. hookmask' = hookmask
    BY <1>4 DEF Load
  <2>3. Agrees(f)
    BY <1>0, <2>1, <2>2, LoadAgrees
  <2>4. vm # <<>> /\ Top \in Frame
    BY <1>0, <2>1 DEF Moved
  <2>5. access(Top) = "load" => f.tmp = hookmask
    BY <2>1, <2>4 DEF Read, Frame
  <2>. QED BY <1>1, <2>1, <2>2, <2>3, <2>5
<1>5. CASE CallFunction
  <2>1. Stack' /\ Called(Top') /\ Top' \in Frame
    BY <1>0, <1>5, CallCalls DEF Called
  <2>2. hookmask' = hookmask
    BY <1>5 DEF CallFunction
  <2>3. \E ks \in [1 .. Len(vm') + 1 -> SUBSET Keeping] : Nested(ks)'
    BY <2>1, <2>2, MaskCalls DEF Stack
  <2>4. access(Top') \notin Stores
    BY <2>1, Where DEF Called
  <2>. QED BY <2>3, <2>4 DEF Masking, access
<1>6. CASE Timer
  <2>1. vm' = vm
    BY <1>6 DEF Timer, profile_thread_exit, trigger_lock, trigger_store, trigger_read,
      trigger_write, trigger_unlock, profile_signal, TimerUnchanged
  <2>2. timer = "store" => tmask = hookmask
    BY <1>0, Parameters DEF Locks
  <2>3. hookmask' = hookmask \/ hookmask' = hookmask \cup {"profile"}
    BY <1>6, <2>2 DEF Timer, profile_thread_exit, trigger_lock, trigger_store, trigger_read,
      trigger_write, trigger_unlock, profile_signal
  <2>4. Kept(hookmask') = Kept(hookmask)
    BY <2>3 DEF Kept, Keeping
  <2>. QED BY <2>1, <2>4, MaskStays
<1>7. CASE sethook_signal
  <2>1. vm' = vm /\ hookmask' = hookmask \cup {"event"}
    BY <1>7 DEF sethook_signal
  <2>2. Kept(hookmask') = Kept(hookmask)
    BY <2>1 DEF Kept, Keeping
  <2>. QED BY <2>1, <2>2, MaskStays
<1>. QED
  BY <1>2, <1>3, <1>4, <1>5, <1>6, <1>7 DEF Next, VM

-----------------------------------------------------------------------------
(* What follows *)

LEMMA Initially ==
  ASSUME Init PROVE PInv
<1>1. vm = <<>> /\ Len(vm) = 0
  BY DEF Init
<1>2. Stack
  BY <1>1, Parameters DEF Init, Stack
<1>3. Types
  BY <1>1 DEF Init, Types, Masks, Modes
<1>4. Locks
  BY <1>1 DEF Init, Locks
<1>5. Counts
  BY <1>1, Parameters DEF Init, Counts, Known, At
<1>6. Masking
  <2>1. Kept(hookmask) = {}
    BY DEF Init, Kept, Keeping
  <2>2. PICK ks \in [1 .. 1 -> SUBSET Keeping] : ks[1] = {}
    <3>. DEFINE ms == [i \in 1 .. 1 |-> {}]
    <3>1. ms \in [1 .. 1 -> SUBSET Keeping] /\ ms[1] = {}
      OBVIOUS
    <3>. HIDE DEF ms
    <3>. QED BY <3>1
  <2>3. Nested(ks)
    BY <1>1, <2>1, <2>2 DEF Nested
  <2>. QED BY <1>1, <2>2, <2>3 DEF Masking
<1>7. Fresh
  BY <1>1 DEF Init, Fresh, NewMode
<1>. QED BY <1>2, <1>3, <1>4, <1>5, <1>6, <1>7 DEF PInv

LEMMA Preserved ==
  ASSUME Disciplined, PInv, [Next]_vars PROVE PInv'
<1>1. CASE Next
  <2>1. Stack'
    <3>1. UNCHANGED prog
      BY <1>1 DEF Next
    <3>2. CASE VM
      <4>1. CASE CallFunction
        BY <3>1, <4>1, CallCalls DEF PInv
      <4>2. CASE Load
        <5>1. PICK f : Moved(f) /\ vm' \in Seq(Frame)
          BY <3>1, <4>2, LoadMoves DEF PInv
        <5>. QED BY <3>1, <5>1, Moves DEF PInv
      <4>3. CASE \/ Return \/ Store \/ StoreMode \/ StoreState
                 \/ Lock \/ Unlock \/ TakeSamples \/ StartStop
        BY <3>1, <4>3, TopMoves, Moves DEF PInv
      <4>. QED BY <3>2, <4>1, <4>2, <4>3 DEF VM
    <3>3. CASE Timer \/ sethook_signal
      <4>1. vm' = vm
        BY <3>3 DEF Timer, profile_thread_exit, trigger_lock, trigger_store, trigger_read,
          trigger_write, trigger_unlock, profile_signal, TimerUnchanged, sethook_signal
      <4>. QED BY <3>1, <4>1 DEF PInv, Stack
    <3>. QED BY <1>1, <3>2, <3>3 DEF Next
  <2>. QED
    BY <1>1, <2>1, TypesPreserved, LocksPreserved, CountsPreserved, MaskingPreserved,
       FreshPreserved DEF PInv
<1>2. CASE UNCHANGED vars
  <2>1. /\ UNCHANGED <<prog, hookmask, mode, state, lock, timer, halt, tmask, tmode, running,
                        samples, ticks, delivered, vm, wanted>>
        /\ Top' = Top /\ NewMode' = NewMode /\ Known' = Known
    BY <1>2 DEF vars, timervars, profvars, Top, NewMode, Known, At
  <2>2. Stack' /\ Types' /\ Counts'
    BY <2>1 DEF PInv, Stack, Types, Counts, access
  <2>3. Locks' /\ Fresh'
    BY <2>1 DEF PInv, Locks, Keeps, Fresh, Section, Joined, Stale, access
  <2>4. Masking'
    BY <2>1, MaskStays DEF PInv, Kept
  <2>. QED BY <2>2, <2>3, <2>4 DEF PInv
<1>. QED BY <1>1, <1>2

LEMMA Invariant == ASSUME Disciplined PROVE Spec => []PInv
BY Initially, Preserved, PTL DEF Spec

LEMMA NotNested == ASSUME PInv PROVE CallbackNotNested
<1>1. vm \in Seq(Frame) /\ \A i \in 1 .. Len(vm) - 1 : access(vm[i]) = "lua"
  BY DEF PInv, Stack
<1>2. PICK ks \in [1 .. Len(vm) + 1 -> SUBSET Keeping] : Nested(ks)
  BY DEF PInv, Masking
<1>3. ASSUME NEW i \in DOMAIN vm, NEW j \in DOMAIN vm, i < j,
             vm[i].code = lj_profile_interpreter, vm[j].code = lj_profile_interpreter
      PROVE  FALSE
  <2>1. i \in 1 .. Len(vm) - 1 /\ i \in 1 .. Len(vm) + 1 /\ j \in 1 .. Len(vm) + 1
        /\ j \in 1 .. Len(vm)
    BY <1>1, <1>3
  <2>2. "vmevent" \in ks[j]
    BY <1>1, <1>2, <1>3, <2>1 DEF Nested
  <2>3. Fits(vm[j], ks[j])
    BY <1>2, <2>1 DEF Nested
  <2>. QED BY <1>3, <2>2, <2>3 DEF Fits
<1>4. \A i, j \in DOMAIN vm : i < j \/ j < i \/ i = j
  BY <1>1
<1>. QED BY <1>3, <1>4 DEF CallbackNotNested

(***************************************************************************)
(* Theorems                                                                *)
(***************************************************************************)

\* However deep functions nest and however often the timer ticks: lj_profile.c
\* and lj_dispatch.c leave the dispatch table as hookmask asks for it, and the
\* callback is not called in itself.
THEOREM ProfilerStaysSound ==
  ASSUME Disciplined PROVE Spec => []ProfilerSound
<1>1. ASSUME PInv PROVE ProfilerSound
  <2>1. TypeOK
    <3>1. samples \in 0 .. MaxTicks /\ ticks \in 0 .. MaxTicks /\ delivered \in 0 .. MaxTicks
      BY <1>1, Parameters DEF PInv, Counts, Known
    <3>. QED BY <1>1, <3>1 DEF PInv, Types, Stack, TypeOK
  <2>2. DispatchFresh
    BY <1>1 DEF PInv, Fresh, DispatchFresh, Quiet
  <2>. QED BY <1>1, <2>1, <2>2, NotNested DEF ProfilerSound
<1>. QED BY <1>1, Invariant, PTL

\* What finalizers, event handlers, hooks and the profiler's callback set in
\* hookmask is taken back, however they nest and end.
THEOREM MaskIsRestored ==
  ASSUME Disciplined PROVE Spec => []MaskRestored
<1>1. ASSUME PInv, vm = <<>> PROVE Kept(hookmask) = {}
  <2>1. Len(vm) = 0
    BY <1>1
  <2>2. PICK ks \in [1 .. Len(vm) + 1 -> SUBSET Keeping] : Nested(ks)
    BY <1>1 DEF PInv, Masking
  <2>. QED BY <2>1, <2>2 DEF Nested
<1>2. PInv => MaskRestored
  BY <1>1 DEF MaskRestored, Kept, Keeping
<1>. QED BY <1>2, Invariant, PTL

\* With a timer thread no tick is lost, and none is delivered twice.
THEOREM SamplesAreConserved ==
  ASSUME Disciplined PROVE Spec => []SamplesConserved
<1>1. PInv => SamplesConserved
  BY DEF PInv, Counts, Known, SamplesConserved, Quiet, At
<1>. QED BY <1>1, Invariant, PTL

\* lj_trace_hot starts no trace in what a finalizer, an event handler or the
\* profiler's callback calls.
THEOREM NoTraceStartsWithin ==
  ASSUME Disciplined PROVE Spec => NoTraceWithin
<1>1. ASSUME PInv, Next, state = "idle", state' = "record"
      PROVE  ~Within({gc_call_finalizer, lj_vmevent_call, lj_profile_interpreter})
  <2>1. At("record")
    BY <1>1 DEF Next, VM, CallFunction, Return, Load, Store, StoreMode, StoreState, Lock, Unlock,
      TakeSamples, StartStop, Timer, profile_thread_exit, trigger_lock, trigger_store,
      trigger_read, trigger_write, trigger_unlock, profile_signal, TimerUnchanged, sethook_signal
  <2>2. vm # <<>> /\ Top \in Frame /\ Top.code = trace_start /\ Top = vm[Len(vm)]
        /\ Len(vm) \in Nat \ {0}
    BY <1>1, <2>1, TopOf, Where DEF At, access, PInv
  <2>3. PICK ks \in [1 .. Len(vm) + 1 -> SUBSET Keeping] : Nested(ks)
    BY <1>1 DEF PInv, Masking
  <2>4. {"gc", "vmevent"} \cap ks[Len(vm)] = {}
    <3>1. Fits(vm[Len(vm)], ks[Len(vm)])
      BY <2>2, <2>3 DEF Nested
    <3>. QED BY <2>2, <3>1 DEF Fits
  <2>5. ASSUME NEW i \in DOMAIN vm,
               vm[i].code \in {gc_call_finalizer, lj_vmevent_call, lj_profile_interpreter}
        PROVE  FALSE
    <3>1. vm \in Seq(Frame) /\ \A l \in 1 .. Len(vm) - 1 : access(vm[l]) = "lua"
      BY <1>1 DEF PInv, Stack
    <3>2. i # Len(vm)
      BY <2>2, <2>5, Lengths
    <3>3. i \in 1 .. Len(vm) - 1 /\ i \in 1 .. Len(vm) + 1 /\ Len(vm) \in 1 .. Len(vm) + 1
      BY <2>2, <3>1, <3>2
    <3>. QED BY <2>3, <2>4, <2>5, <3>1, <3>3 DEF Nested
  <2>. QED BY <2>5 DEF Within
<1>2. PInv /\ [Next]_vars =>
        [state = "idle" /\ state' = "record" =>
           ~Within({gc_call_finalizer, lj_vmevent_call, lj_profile_interpreter})]_vars
  BY <1>1
<1>. QED BY <1>2, Invariant, PTL DEF Spec, NoTraceWithin
=============================================================================
