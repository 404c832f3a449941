----------------------------- MODULE LJStateProofs -----------------------------
(***************************************************************************)
(* The stack agrees with the calls that are active, for all constants.     *)
(* The code only has frames and cframes; the invariant says what a call    *)
(* and the one outside it have to do with them.  Then every walk along     *)
(* frames and cframes goes from call to call.                              *)
(***************************************************************************)
EXTENDS LJState, TLAPS, SequenceTheorems, WellFoundedInduction

\* Results beyond the first may make a return fail, half done (see ReturnToC): C code asks for one
\* at most.
OneResult == NRes \subseteq {0, 1}

FrameKinds == {"lua", "c", "ff"}
CframeType == [nres : Int, errf : Nat \cup {-1}, yield : BOOLEAN]
IsFrame(a) == a.k \in FrameKinds
IsEntry(a) == a.k \in Entries

(***************************************************************************)
(* The calls cs, with frames fr, cframes cf, open upvalues ups and base b. *)
(***************************************************************************)
Typed(b, fr, cf, cs) ==
  /\ b \in Nat \ {0}
  /\ DOMAIN fr \subseteq Nat \ {0} /\ \A f \in DOMAIN fr : fr[f] \in FrameType
  /\ cf \in Seq(CframeType) /\ cs \in Seq(CallType) /\ Len(cs) >= 1
\* Inner calls have frames and cframes further up.
Ordered(cs) ==
  \A i, j \in 1 .. Len(cs) : i < j =>
    /\ cs[i].f <= cs[j].f /\ cs[i].c <= cs[j].c
    /\ IsFrame(cs[j]) => cs[i].f < cs[j].f
    /\ IsEntry(cs[j]) => cs[i].c < cs[j].c
Here(b, cf, cs) == cs[Len(cs)].f = b - 1 /\ cs[Len(cs)].c = Len(cf)
FramesAre(fr, cs) ==
  /\ \A f \in DOMAIN fr : \E i \in 1 .. Len(cs) : IsFrame(cs[i]) /\ cs[i].f = f
  /\ \A i \in 1 .. Len(cs) : IsFrame(cs[i]) /\ cs[i].f # 0 => cs[i].f \in DOMAIN fr
CframesAre(cf, cs) ==
  /\ \A c \in 1 .. Len(cf) : \E i \in 1 .. Len(cs) : IsEntry(cs[i]) /\ cs[i].c = c
  /\ \A i \in 1 .. Len(cs) : IsEntry(cs[i]) => cs[i].c \in 1 .. Len(cf)
\* The outermost call is the host's, or has resumed a coroutine.
First(cf, cs) ==
  \/ cs[1] = Active("c", 0, 0)
  \/ /\ cs[1] = [Active("enter", 0, 1) EXCEPT !.prot = TRUE]
     /\ cf[1] = [nres |-> 0, errf |-> 0, yield |-> TRUE]

\* A call a and the one outside it, b.  The type of a frame tells what has called the function.
FuncLink(fr, a, b) ==
  /\ fr[a.f].delta = a.f - b.f /\ a.c = b.c
  /\ ~a.prot /\ a.h = 0 /\ a.after = "continue"
  /\ a.k = "lua" <=> fr[a.f].fs > 0
  /\ \/ b.k = "lua" /\ fr[a.f].typ \in {"LUA", "CONT"}
     \/ b.k = "ff" /\ fr[a.f].typ = "PCALL"
     \/ b.k = "enter" /\ b.prot /\ fr[a.f].typ = "CP"
     \/ b.k = "enter" /\ ~b.prot /\ fr[a.f].typ = "C"
FfLink(fr, a, b) ==
  /\ b.k = "lua" /\ fr[a.f].typ = "LUA" /\ fr[a.f].fs = 0
  /\ fr[a.f].delta = a.f - b.f /\ a.c = b.c
  /\ a.prot /\ a.h = (IF fr[a.f].xp THEN a.f + 1 ELSE 0) /\ a.after = "continue"
EnterLink(cf, a, b) ==
  /\ b.k \in {"lua", "c", "cp"} /\ a.f = b.f /\ a.c = b.c + 1
  /\ cf[a.c].nres \in {0, 1} /\ cf[a.c].errf = a.h /\ ~cf[a.c].yield
  /\ a.prot => a.after = IF a.h = -1 THEN "finalizer" ELSE "continue"
  /\ ~a.prot => a.h = 0 /\ a.after # "finalizer"
  /\ a.prot /\ a.after = "continue" => b.k = "c"
  /\ a.after = "continue" => b.k # "lua"
CpLink(cf, a, b) ==
  /\ b.k = "c" /\ a.f = b.f /\ a.c = b.c + 1
  /\ a.f < -cf[a.c].nres /\ -cf[a.c].nres <= a.f + 2
  /\ cf[a.c].errf = a.h /\ a.h \in {0, -1} /\ ~cf[a.c].yield
  /\ a.prot /\ a.after = "continue"
Link(fr, cf, a, b) ==
  /\ a.k \in {"lua", "c"} => FuncLink(fr, a, b)
  /\ a.k = "ff" => FfLink(fr, a, b)
  /\ a.k = "enter" => EnterLink(cf, a, b)
  /\ a.k = "cp" => CpLink(cf, a, b)
Linkage(fr, cf, cs) == \A i \in 2 .. Len(cs) : Link(fr, cf, cs[i], cs[i - 1])
\* What C code without a frame has called has its frame above its slots.
Bot(cf, a) == -cf[a.c].nres
AboveBottom(cf, cs) ==
  \A i, j \in 1 .. Len(cs) : i < j /\ cs[i].k = "cp" =>
    /\ IsFrame(cs[j]) => Bot(cf, cs[i]) <= cs[j].f
    /\ cs[j].k = "cp" => Bot(cf, cs[i]) <= Bot(cf, cs[j])
UpLive(ups, cs) == \A u \in ups : \E i \in 1 .. Len(cs) : cs[i].k = "lua" /\ u = cs[i].f + 1

Shape(b, fr, cf, ups, cs) ==
  /\ Typed(b, fr, cf, cs) /\ Ordered(cs) /\ Here(b, cf, cs) /\ FramesAre(fr, cs) /\ CframesAre(cf, cs)
  /\ First(cf, cs) /\ Linkage(fr, cf, cs) /\ AboveBottom(cf, cs) /\ UpLive(ups, cs)

(***************************************************************************)
(* What is done next fits what is active, and values are above the base.   *)
(***************************************************************************)
NextCall ==
  todo.do = "call" =>
    /\ \/ Innermost.k = "lua" /\ todo.typ \in {"LUA", "CONT"}
       \/ Innermost.k = "ff" /\ todo.typ = "PCALL"
       \/ Innermost.k = "enter" /\ Innermost.prot /\ todo.typ = "CP"
       \/ Innermost.k = "enter" /\ ~Innermost.prot /\ todo.typ = "C"
    /\ base <= todo.f
    /\ \A i \in 1 .. Len(calls) : calls[i].k = "cp" => Bot(cframe, calls[i]) <= todo.f
NextOther ==
  /\ todo.do = "return" => IsFrame(Innermost) /\ base > 1 /\ \A u \in openupval : u < base
  /\ todo.do \notin {"call", "return"} => MayFail
TopAbove ==
  /\ base <= top /\ (todo.do = "err" => base < top)
  /\ \A i \in 1 .. Len(calls) : calls[i].k = "cp" =>
       Bot(cframe, calls[i]) <= top /\ (todo.do = "err" => Bot(cframe, calls[i]) < top)

Control == /\ TypeOK /\ Shape(base, frames, cframe, openupval, calls)
           /\ NextCall /\ NextOther /\ TopAbove

(***************************************************************************)
(* The size of the stack.                                                  *)
(***************************************************************************)
\* The slots of a stack of this size that the checks let functions use, and whether growth would
\* exceed the limit.
Room(size) == size - LJ_STACK_EXTRA - 1
AtLimit(size) == Room(size) >= LUAI_MAXSTACK
FitsIn(a, fr, size) ==
  /\ a.k # "ff" => a.f < Room(size)
  /\ IsFrame(a) => a.f + 1 + framesize(fr, a.f) <= Room(size) \/ AtLimit(size)
\* Some more values may be on top of slot b.
Within(t, b, size) == t <= Room(size) \/ t <= b + 2 \/ AtLimit(size)
Bounded == \E need \in Requests :
             stacksize <= LJ_STACK_MAXEX + need + 2 * LUA_MINSTACK + 1 + LJ_STACK_EXTRA
\* The innermost function has failed to get its stack.
Exempt == todo.do = "throw" \/ (todo.do = "msg" /\ Overdrawn)
AllFit == \A i \in 1 .. Len(calls) : (i = Len(calls) /\ Exempt) \/ FitsIn(calls[i], frames, stacksize)
TopFits == top <= stacksize \/ AtLimit(stacksize)
RunTop ==
  /\ ~Exempt /\ todo.do \in {"run", "msg", "line", "err"} => Within(top, base, stacksize)
  /\ todo.do = "run" /\ Innermost.k = "lua" => top = base + framesize(frames, base - 1)
CallFits ==
  todo.do = "call" =>
    /\ todo.f + todo.n + 2 <= stacksize \/ AtLimit(stacksize)
    /\ Innermost.prot /\ Innermost.k = "enter" /\ Innermost.after = "continue" =>
         Within(todo.f + 1, base, stacksize)
\* where the message of the error goes
CatchFits ==
  Exempt /\ Len(calls) > 1 =>
    LET a == calls[Len(calls) - 1]
    IN  a.k = "enter" /\ a.prot /\ a.after = "continue" => Within(base, a.f + 1, stacksize)
Sizes == Bounded /\ AllFit /\ TopFits /\ RunTop /\ CallFits /\ CatchFits

(***************************************************************************)
(* Calls are pushed and cut off.                                           *)
(***************************************************************************)
LEMMA Pushed ==
  ASSUME NEW S, NEW s \in Seq(S), NEW e \in S
  PROVE  /\ Append(s, e) \in Seq(S) /\ Len(Append(s, e)) = Len(s) + 1 /\ Len(s) \in Nat
         /\ \A i \in 1 .. Len(s) : Append(s, e)[i] = s[i]
         /\ Append(s, e)[Len(s) + 1] = e
BY AppendProperties, LenProperties

LEMMA CutOff ==
  ASSUME NEW S, NEW s \in Seq(S), NEW m \in 0 .. Len(s)
  PROVE  /\ SubSeq(s, 1, m) \in Seq(S) /\ Len(SubSeq(s, 1, m)) = m /\ Len(s) \in Nat
         /\ \A i \in 1 .. m : SubSeq(s, 1, m)[i] = s[i]
BY SubSeqProperties, LenProperties

LEMMA CallsTyped ==
  ASSUME NEW b, NEW fr, NEW cf, NEW cs, Typed(b, fr, cf, cs)
  PROVE  /\ Len(cs) \in Nat /\ Len(cf) \in Nat
         /\ \A i \in 1 .. Len(cs) : cs[i] \in CallType /\ cs[i].f \in Nat /\ cs[i].c \in Nat
         /\ \A c \in 1 .. Len(cf) : cf[c] \in CframeType
<1>1. \A i \in 1 .. Len(cs) : cs[i] \in CallType
  BY ElementOfSeq DEF Typed
<1>2. \A c \in 1 .. Len(cf) : cf[c] \in CframeType
  BY ElementOfSeq DEF Typed
<1>. QED BY <1>1, <1>2, LenProperties DEF Typed, CallType

\* A link of old calls is not touched by new frames and cframes.
LEMMA LinkKept ==
  ASSUME NEW fr, NEW cf, NEW fr2, NEW cf2, NEW a, NEW b, Link(fr, cf, a, b),
         IsFrame(a) => fr2[a.f] = fr[a.f], IsEntry(a) => cf2[a.c] = cf[a.c]
  PROVE  Link(fr2, cf2, a, b)
BY Zenon DEF Link, FuncLink, FfLink, EnterLink, CpLink, IsFrame, IsEntry, FrameKinds, Entries

AddFrame(fr, f, rec) == [g \in DOMAIN fr \cup {f} |-> IF g = f THEN rec ELSE fr[g]]

\* A function frame is pushed.
LEMMA ShapeFrame ==
  ASSUME NEW b, NEW fr, NEW cf, NEW ups, NEW cs, Shape(b, fr, cf, ups, cs),
         NEW a \in CallType, NEW rec \in FrameType, IsFrame(a), b <= a.f, a.c = Len(cf),
         NEW fr2, fr2 = AddFrame(fr, a.f, rec),
         Link(fr2, cf, a, cs[Len(cs)]),
         \A i \in 1 .. Len(cs) : cs[i].k = "cp" => Bot(cf, cs[i]) <= a.f
  PROVE  Shape(a.f + 1, fr2, cf, ups, Append(cs, a))
<1>. DEFINE ds == Append(cs, a)
            n == Len(cs)
<1>1. Typed(b, fr, cf, cs) /\ Ordered(cs) /\ Here(b, cf, cs)
  BY DEF Shape
<1>2. /\ ds \in Seq(CallType) /\ Len(ds) = n + 1 /\ n \in Nat /\ n >= 1
      /\ \A i \in 1 .. n : ds[i] = cs[i]
      /\ ds[n + 1] = a
  BY <1>1, Pushed DEF Typed
<1>3. a.f \in Nat /\ a.c \in Nat /\ b \in Nat /\ \A i \in 1 .. n : cs[i].f \in Nat /\ cs[i].c \in Nat
  BY <1>1, CallsTyped DEF Typed, CallType
<1>4. a.f # 0 /\ ~IsEntry(a)
  BY <1>1 DEF Typed, IsFrame, IsEntry, FrameKinds, Entries
<1>5. \A i \in 1 .. n : cs[i].f < a.f /\ cs[i].c <= a.c
  BY <1>1, <1>2, <1>3 DEF Ordered, Here
<1>. HIDE DEF ds
<1>0. DOMAIN fr2 = DOMAIN fr \cup {a.f} /\ fr2[a.f] = rec /\ \A f \in DOMAIN fr : f # a.f => fr2[f] = fr[f]
  BY DEF AddFrame
<1>6. Typed(a.f + 1, fr2, cf, ds)
  <2>1. \A f \in DOMAIN fr2 : fr2[f] \in FrameType
    BY <1>0, <1>1 DEF Typed
  <2>. QED BY <1>0, <2>1, <1>1, <1>2, <1>3, <1>4 DEF Typed
<1>7. Ordered(ds)
  BY <1>1, <1>2, <1>3, <1>4, <1>5 DEF Ordered
<1>8. Here(a.f + 1, cf, ds)
  BY <1>2, <1>3 DEF Here
<1>9. FramesAre(fr2, ds)
  <2>1. FramesAre(fr, cs) /\ DOMAIN fr2 = DOMAIN fr \cup {a.f}
    BY <1>0 DEF Shape
  <2>2. \A f \in DOMAIN fr : \E i \in 1 .. n + 1 : IsFrame(ds[i]) /\ ds[i].f = f
    BY <2>1, <1>2 DEF FramesAre
  <2>3. \E i \in 1 .. n + 1 : IsFrame(ds[i]) /\ ds[i].f = a.f
    BY <1>2
  <2>. QED BY <2>1, <2>2, <2>3, <1>2 DEF FramesAre
<1>10. CframesAre(cf, ds)
  <2>1. CframesAre(cf, cs)
    BY DEF Shape
  <2>2. ASSUME NEW c \in 1 .. Len(cf) PROVE \E i \in 1 .. n + 1 : IsEntry(ds[i]) /\ ds[i].c = c
    BY <2>1, <1>2 DEF CframesAre
  <2>3. ASSUME NEW i \in 1 .. n + 1, IsEntry(ds[i]) PROVE ds[i].c \in 1 .. Len(cf)
    BY <2>1, <2>3, <1>2, <1>4 DEF CframesAre
  <2>. QED BY <2>2, <2>3, <1>2 DEF CframesAre
<1>11. First(cf, ds)
  BY <1>2 DEF Shape, First
<1>12. Linkage(fr2, cf, ds)
  <2>1. SUFFICES ASSUME NEW i \in 2 .. n + 1 PROVE Link(fr2, cf, ds[i], ds[i - 1])
    BY <1>2 DEF Linkage
  <2>2. CASE i = n + 1
    BY <2>2, <1>2
  <2>3. CASE i \in 2 .. n
    <3>1. Link(fr, cf, cs[i], cs[i - 1]) /\ ds[i] = cs[i] /\ ds[i - 1] = cs[i - 1]
      BY <2>3, <1>2 DEF Shape, Linkage
    <3>2. IsFrame(cs[i]) => fr2[cs[i].f] = fr[cs[i].f]
      <4>1. i \in 1 .. n /\ 1 \in 1 .. n /\ 1 < i
        BY <2>3
      <4>2. cs[i].f # a.f /\ (IsFrame(cs[i]) => cs[1].f < cs[i].f)
        BY <4>1, <1>5, <1>3, <1>1 DEF Ordered
      <4>3. IsFrame(cs[i]) => cs[i].f \in DOMAIN fr
        BY <4>1, <4>2, <1>3 DEF Shape, FramesAre
      <4>. QED BY <4>2, <4>3, <1>0
    <3>. QED BY <3>1, <3>2, LinkKept
  <2>. QED BY <2>2, <2>3, <1>2
<1>13. AboveBottom(cf, ds)
  <2>1. AboveBottom(cf, cs) /\ a.k # "cp"
    BY DEF Shape, IsFrame, FrameKinds
  <2>. QED BY <2>1, <1>2 DEF AboveBottom
<1>14. UpLive(ups, ds)
  BY <1>2 DEF Shape, UpLive
<1>. QED BY <1>6, <1>7, <1>8, <1>9, <1>10, <1>11, <1>12, <1>13, <1>14 DEF Shape, ds

\* C code enters the interpreter, or is called without a frame.
LEMMA ShapeEntry ==
  ASSUME NEW b, NEW fr, NEW cf, NEW ups, NEW cs, Shape(b, fr, cf, ups, cs),
         NEW a \in CallType, NEW e \in CframeType, IsEntry(a), a.f = b - 1, a.c = Len(cf) + 1,
         Link(fr, Append(cf, e), a, cs[Len(cs)]),
         a.k = "cp" => \A i \in 1 .. Len(cs) : cs[i].k = "cp" => Bot(cf, cs[i]) <= -e.nres
  PROVE  Shape(b, fr, Append(cf, e), ups, Append(cs, a))
<1>. DEFINE ds == Append(cs, a)
            df == Append(cf, e)
            n == Len(cs)
            l == Len(cf)
<1>1. Typed(b, fr, cf, cs) /\ Ordered(cs) /\ Here(b, cf, cs)
  BY DEF Shape
<1>2. /\ ds \in Seq(CallType) /\ Len(ds) = n + 1 /\ n \in Nat /\ n >= 1
      /\ \A i \in 1 .. n : ds[i] = cs[i]
      /\ ds[n + 1] = a
  BY <1>1, Pushed DEF Typed
<1>3. a.f \in Nat /\ a.c \in Nat /\ b \in Nat /\ \A i \in 1 .. n : cs[i].f \in Nat /\ cs[i].c \in Nat
  BY <1>1, CallsTyped DEF Typed, CallType
<1>4. ~IsFrame(a)
  BY DEF IsFrame, IsEntry, FrameKinds, Entries
<1>5. \A i \in 1 .. n : cs[i].f <= a.f /\ cs[i].c < a.c
  BY <1>1, <1>2, <1>3 DEF Ordered, Here
<1>6. /\ df \in Seq(CframeType) /\ Len(df) = l + 1 /\ l \in Nat
      /\ \A c \in 1 .. l : df[c] = cf[c]
      /\ df[l + 1] = e
  BY <1>1, Pushed DEF Typed
<1>. HIDE DEF ds, df
<1>7. CframesAre(cf, cs) /\ FramesAre(fr, cs)
  BY DEF Shape
<1>8. Typed(b, fr, df, ds)
  BY <1>1, <1>2, <1>6 DEF Typed
<1>9. Ordered(ds)
  <2>1. ASSUME NEW i \in 1 .. n + 1, NEW j \in 1 .. n + 1, i < j
        PROVE  /\ ds[i].f <= ds[j].f /\ ds[i].c <= ds[j].c
               /\ IsFrame(ds[j]) => ds[i].f < ds[j].f
               /\ IsEntry(ds[j]) => ds[i].c < ds[j].c
    <3>1. CASE j = n + 1
      BY <2>1, <3>1, <1>2, <1>3, <1>4, <1>5
    <3>2. CASE j \in 1 .. n
      BY <2>1, <3>2, <1>1, <1>2 DEF Ordered
    <3>. QED BY <3>1, <3>2, <1>2
  <2>. QED BY <2>1, <1>2 DEF Ordered
<1>10. Here(b, df, ds)
  BY <1>2, <1>6 DEF Here
<1>11. FramesAre(fr, ds)
  <2>1. ASSUME NEW f \in DOMAIN fr PROVE \E i \in 1 .. n + 1 : IsFrame(ds[i]) /\ ds[i].f = f
    BY <1>7, <1>2 DEF FramesAre
  <2>2. ASSUME NEW i \in 1 .. n + 1, IsFrame(ds[i]), ds[i].f # 0 PROVE ds[i].f \in DOMAIN fr
    BY <2>2, <1>7, <1>2, <1>4 DEF FramesAre
  <2>. QED BY <2>1, <2>2, <1>2 DEF FramesAre
<1>12. CframesAre(df, ds)
  <2>1. ASSUME NEW c \in 1 .. l PROVE \E i \in 1 .. n + 1 : IsEntry(ds[i]) /\ ds[i].c = c
    BY <1>7, <1>2 DEF CframesAre
  <2>2. \E i \in 1 .. n + 1 : IsEntry(ds[i]) /\ ds[i].c = l + 1
    BY <1>2
  <2>3. ASSUME NEW i \in 1 .. n + 1, IsEntry(ds[i]) PROVE ds[i].c \in 1 .. l + 1
    BY <2>3, <1>7, <1>2, <1>6 DEF CframesAre
  <2>. QED BY <2>1, <2>2, <2>3, <1>2, <1>6 DEF CframesAre
<1>13. First(df, ds)
  <2>1. First(cf, cs) /\ ds[1] = cs[1]
    BY <1>2 DEF Shape
  <2>2. CASE cs[1] = Active("c", 0, 0)
    BY <2>1, <2>2 DEF First
  <2>3. CASE /\ cs[1] = [Active("enter", 0, 1) EXCEPT !.prot = TRUE]
             /\ cf[1] = [nres |-> 0, errf |-> 0, yield |-> TRUE]
    <3>1. cs[1].k = "enter" /\ cs[1].c = 1
      BY <2>3 DEF Active
    <3>2. 1 \in 1 .. l
      BY <3>1, <1>7, <1>2 DEF CframesAre, IsEntry, Entries
    <3>. QED BY <3>2, <2>1, <2>3, <1>6 DEF First
  <2>. QED BY <2>1, <2>2, <2>3 DEF First
<1>14. Linkage(fr, df, ds)
  <2>1. SUFFICES ASSUME NEW i \in 2 .. n + 1 PROVE Link(fr, df, ds[i], ds[i - 1])
    BY <1>2 DEF Linkage
  <2>2. CASE i = n + 1
    BY <2>2, <1>2 DEF df
  <2>3. CASE i \in 2 .. n
    <3>1. Link(fr, cf, cs[i], cs[i - 1]) /\ ds[i] = cs[i] /\ ds[i - 1] = cs[i - 1]
      BY <2>3, <1>2 DEF Shape, Linkage
    <3>2. IsEntry(cs[i]) => df[cs[i].c] = cf[cs[i].c]
      BY <2>3, <1>6, <1>7 DEF CframesAre
    <3>. QED BY <3>1, <3>2, LinkKept
  <2>. QED BY <2>2, <2>3, <1>2
<1>15. AboveBottom(df, ds)
  <2>1. AboveBottom(cf, cs)
    BY DEF Shape
  <2>2. ASSUME NEW i \in 1 .. n, cs[i].k = "cp" PROVE Bot(df, cs[i]) = Bot(cf, cs[i])
    BY <2>2, <1>6, <1>7 DEF CframesAre, Bot, IsEntry, Entries
  <2>3. a.k = "cp" => Bot(df, a) = -e.nres
    BY <1>6 DEF Bot
  <2>. QED BY <2>1, <2>2, <2>3, <1>2, <1>4 DEF AboveBottom
<1>16. UpLive(ups, ds)
  BY <1>2 DEF Shape, UpLive
<1>. QED BY <1>8, <1>9, <1>10, <1>11, <1>12, <1>13, <1>14, <1>15, <1>16 DEF Shape, ds, df

IsCut(fr2, fr, b) == DOMAIN fr2 = {g \in DOMAIN fr : g < b} /\ \A f \in DOMAIN fr2 : fr2[f] = fr[f]

\* The calls above the m-th are over.
LEMMA ShapeCut ==
  ASSUME NEW b, NEW fr, NEW cf, NEW ups, NEW cs, Shape(b, fr, cf, ups, cs),
         NEW m \in 1 .. Len(cs), NEW b2, b2 = cs[m].f + 1,
         NEW fr2, IsCut(fr2, fr, b2),
         NEW cf2, cf2 = SubSeq(cf, 1, cs[m].c),
         NEW up2, up2 \subseteq ups, \A u \in up2 : u <= b2
  PROVE  Shape(b2, fr2, cf2, up2, SubSeq(cs, 1, m))
<1>. DEFINE ds == SubSeq(cs, 1, m)
            n == Len(cs)
            l == cs[m].c
<1>1. /\ Typed(b, fr, cf, cs) /\ Ordered(cs) /\ Here(b, cf, cs) /\ CframesAre(cf, cs) /\ FramesAre(fr, cs)
      /\ Linkage(fr, cf, cs) /\ AboveBottom(cf, cs) /\ UpLive(ups, cs) /\ First(cf, cs)
  BY DEF Shape
<1>2. n \in Nat /\ n >= 1 /\ m \in Nat /\ b \in Nat /\ b2 \in Nat \ {0} /\ l \in Nat /\ l <= Len(cf) /\ Len(cf) \in Nat
  <2>0. n \in Nat /\ n \in 1 .. n /\ Len(cf) \in Nat
    BY <1>1, CallsTyped DEF Typed
  <2>1. cs[m].f \in Nat /\ l \in Nat /\ cs[n].c \in Nat
    BY <2>0, <1>1, CallsTyped
  <2>2. m = n \/ cs[m].c <= cs[n].c
    BY <1>1, <2>0 DEF Ordered
  <2>3. l <= Len(cf)
    BY <2>0, <2>1, <2>2, <1>1 DEF Here
  <2>. QED BY <2>0, <2>1, <2>3, <1>1 DEF Typed
<1>3. /\ ds \in Seq(CallType) /\ Len(ds) = m
      /\ \A i \in 1 .. m : ds[i] = cs[i]
  <2>1. m \in 0 .. Len(cs) /\ cs \in Seq(CallType)
    BY <1>1, <1>2 DEF Typed
  <2>. QED BY <2>1, CutOff
<1>4. /\ cf2 \in Seq(CframeType) /\ Len(cf2) = l
      /\ \A c \in 1 .. l : cf2[c] = cf[c]
  <2>1. l \in 0 .. Len(cf) /\ cf \in Seq(CframeType)
    BY <1>1, <1>2 DEF Typed
  <2>. QED BY <2>1, CutOff
<1>5. \A i \in 1 .. n : cs[i].f \in Nat /\ cs[i].c \in Nat
  BY <1>1, CallsTyped
<1>6. \A i \in 1 .. m : i \in 1 .. n /\ cs[i].f < b2 /\ cs[i].c <= l
  <2>1. SUFFICES ASSUME NEW i \in 1 .. m PROVE i \in 1 .. n /\ cs[i].f < b2 /\ cs[i].c <= l
    OBVIOUS
  <2>2. i \in 1 .. n
    BY <1>2
  <2>3. CASE i = m
    BY <2>3, <1>2, <1>5
  <2>4. CASE i < m
    <3>1. cs[i].f <= cs[m].f /\ cs[i].c <= cs[m].c
      BY <2>2, <2>4, <1>1 DEF Ordered
    <3>. QED BY <3>1, <2>2, <1>5
  <2>. QED BY <2>2, <2>3, <2>4, <1>2
<1>7. \A i \in m + 1 .. n : (IsFrame(cs[i]) => b2 <= cs[i].f) /\ (IsEntry(cs[i]) => l < cs[i].c)
  BY <1>1, <1>2, <1>5 DEF Ordered
<1>8. \A i \in 1 .. n : i \in 1 .. m \/ i \in m + 1 .. n
  BY <1>2
<1>. HIDE DEF ds
<1>0. DOMAIN fr2 = {g \in DOMAIN fr : g < b2} /\ \A f \in DOMAIN fr2 : fr2[f] = fr[f]
  BY DEF IsCut
<1>9. Typed(b2, fr2, cf2, ds)
  <2>1. DOMAIN fr2 \subseteq Nat \ {0} /\ \A f \in DOMAIN fr2 : fr2[f] \in FrameType
    BY <1>0, <1>1 DEF Typed
  <2>. QED BY <2>1, <1>2, <1>3, <1>4 DEF Typed
<1>10. Ordered(ds)
  <2>1. \A i \in 1 .. m : i \in 1 .. n
    BY <1>2
  <2>. QED BY <2>1, <1>1, <1>3 DEF Ordered
<1>11. Here(b2, cf2, ds)
  BY <1>2, <1>3, <1>4, <1>5 DEF Here
<1>12. FramesAre(fr2, ds)
  <2>1. ASSUME NEW f \in DOMAIN fr2 PROVE \E i \in 1 .. m : IsFrame(ds[i]) /\ ds[i].f = f
    <3>1. f \in DOMAIN fr /\ f < b2 /\ f \in Nat
      BY <1>0, <1>1 DEF Typed
    <3>2. PICK i \in 1 .. n : IsFrame(cs[i]) /\ cs[i].f = f
      BY <3>1, <1>1 DEF FramesAre
    <3>3. i \in 1 .. m
      BY <3>1, <3>2, <1>7, <1>8, <1>2
    <3>. QED BY <3>2, <3>3, <1>3
  <2>2. ASSUME NEW i \in 1 .. m, IsFrame(ds[i]), ds[i].f # 0 PROVE ds[i].f \in DOMAIN fr2
    <3>1. ds[i] = cs[i] /\ i \in 1 .. n /\ cs[i].f < b2
      BY <1>3, <1>6
    <3>2. cs[i].f \in DOMAIN fr
      BY <2>2, <3>1, <1>1 DEF FramesAre
    <3>. QED BY <3>1, <3>2, <1>0
  <2>. QED BY <2>1, <2>2, <1>3 DEF FramesAre
<1>13. CframesAre(cf2, ds)
  <2>1. ASSUME NEW c \in 1 .. l PROVE \E i \in 1 .. m : IsEntry(ds[i]) /\ ds[i].c = c
    <3>0. c \in 1 .. Len(cf)
      BY <1>2
    <3>1. PICK i \in 1 .. n : IsEntry(cs[i]) /\ cs[i].c = c
      BY <3>0, <1>1 DEF CframesAre
    <3>2. i \in 1 .. m
      BY <3>1, <1>7, <1>8, <1>2
    <3>. QED BY <3>1, <3>2, <1>3
  <2>2. ASSUME NEW i \in 1 .. m, IsEntry(ds[i]) PROVE ds[i].c \in 1 .. l
    <3>1. ds[i] = cs[i] /\ i \in 1 .. n /\ cs[i].c <= l
      BY <1>3, <1>6
    <3>2. cs[i].c \in 1 .. Len(cf)
      BY <2>2, <3>1, <1>1 DEF CframesAre
    <3>. QED BY <3>1, <3>2, <1>2
  <2>. QED BY <2>1, <2>2, <1>3, <1>4 DEF CframesAre
<1>14. First(cf2, ds)
  <2>1. ds[1] = cs[1]
    BY <1>2, <1>3
  <2>2. CASE cs[1] = Active("c", 0, 0)
    BY <2>1, <2>2 DEF First
  <2>3. CASE /\ cs[1] = [Active("enter", 0, 1) EXCEPT !.prot = TRUE]
             /\ cf[1] = [nres |-> 0, errf |-> 0, yield |-> TRUE]
    <3>1. cs[1].k = "enter" /\ cs[1].c = 1
      BY <2>3 DEF Active
    <3>2. 1 \in 1 .. l
      BY <3>1, <1>6, <1>2
    <3>. QED BY <3>2, <2>1, <2>3, <1>4 DEF First
  <2>. QED BY <1>1, <2>2, <2>3 DEF First
<1>15. Linkage(fr2, cf2, ds)
  <2>1. SUFFICES ASSUME NEW i \in 2 .. m PROVE Link(fr2, cf2, ds[i], ds[i - 1])
    BY <1>3 DEF Linkage
  <2>2. i \in 1 .. m /\ i \in 1 .. n /\ i \in 2 .. n /\ i - 1 \in 1 .. m /\ 1 \in 1 .. n /\ 1 < i
    BY <1>2
  <2>3. Link(fr, cf, cs[i], cs[i - 1]) /\ ds[i] = cs[i] /\ ds[i - 1] = cs[i - 1]
    BY <2>2, <1>3, <1>1 DEF Linkage
  <2>4. IsFrame(cs[i]) => fr2[cs[i].f] = fr[cs[i].f]
    <3>0. (IsFrame(cs[i]) => cs[1].f < cs[i].f) /\ cs[1].f \in Nat /\ cs[i].f \in Nat
      BY <2>2, <1>1, <1>5 DEF Ordered
    <3>1. IsFrame(cs[i]) => cs[i].f # 0
      BY <3>0
    <3>2. IsFrame(cs[i]) => cs[i].f \in DOMAIN fr /\ cs[i].f < b2
      BY <3>1, <2>2, <1>6, <1>1 DEF FramesAre
    <3>. QED BY <3>2, <1>0
  <2>5. IsEntry(cs[i]) => cf2[cs[i].c] = cf[cs[i].c]
    <3>1. cs[i].c <= l /\ (IsEntry(cs[i]) => cs[i].c \in 1 .. Len(cf))
      BY <2>2, <1>6, <1>1 DEF CframesAre
    <3>2. IsEntry(cs[i]) => cs[i].c \in 1 .. l
      BY <3>1, <1>2
    <3>. QED BY <3>2, <1>4
  <2>6. Link(fr2, cf2, cs[i], cs[i - 1])
    <3>. DEFINE a == cs[i]
                e == cs[i - 1]
    <3>1. /\ Link(fr, cf, a, e) /\ (IsFrame(a) => fr2[a.f] = fr[a.f])
          /\ (IsEntry(a) => cf2[a.c] = cf[a.c])
      BY <2>3, <2>4, <2>5
    <3>. HIDE DEF a, e
    <3>2. Link(fr2, cf2, a, e)
      BY <3>1, LinkKept
    <3>. QED BY <3>2 DEF a, e
  <2>. QED BY <2>3, <2>6, Zenon
<1>16. AboveBottom(cf2, ds)
  <2>1. \A i \in 1 .. m : i \in 1 .. n
    BY <1>2
  <2>2. ASSUME NEW i \in 1 .. m, cs[i].k = "cp" PROVE Bot(cf2, cs[i]) = Bot(cf, cs[i])
    BY <2>1, <2>2, <1>4, <1>6, <1>1, <1>5 DEF CframesAre, Bot, IsEntry, Entries
  <2>. QED BY <2>1, <2>2, <1>1, <1>3 DEF AboveBottom
<1>17. UpLive(up2, ds)
  <2>1. SUFFICES ASSUME NEW u \in up2 PROVE \E i \in 1 .. m : ds[i].k = "lua" /\ u = ds[i].f + 1
    BY <1>3 DEF UpLive
  <2>2. PICK i \in 1 .. n : cs[i].k = "lua" /\ u = cs[i].f + 1
    BY <1>1 DEF UpLive
  <2>3. i \in 1 .. m
    BY <2>2, <1>7, <1>8, <1>2, <1>5 DEF IsFrame, FrameKinds
  <2>. QED BY <2>2, <2>3, <1>3
<1>. QED BY <1>9, <1>10, <1>11, <1>12, <1>13, <1>14, <1>15, <1>16, <1>17 DEF Shape, ds

(***************************************************************************)
(* The state.                                                              *)
(***************************************************************************)
Rest == /\ top \in Nat /\ stacksize \in Nat /\ status \in {"ok", "errerr"}
        /\ openupval \subseteq Nat /\ todo \in TodoType

LEMMA TypeFrom ==
  ASSUME Shape(base, frames, cframe, openupval, calls), Rest
  PROVE  TypeOK
BY DEF Shape, Typed, Rest, TypeOK, CframeType

LEMMA ControlFrom ==
  ASSUME Shape(base, frames, cframe, openupval, calls)', Rest', NextCall', NextOther', TopAbove'
  PROVE  Control'
BY TypeFrom, PTL DEF Control

LEMMA Facts ==
  ASSUME Control
  PROVE  /\ Shape(base, frames, cframe, openupval, calls) /\ Rest /\ NextCall /\ NextOther /\ TopAbove
         /\ base \in Nat \ {0} /\ Len(calls) \in Nat \ {0} /\ Len(cframe) \in Nat
         /\ calls \in Seq(CallType) /\ cframe \in Seq(CframeType)
         /\ Innermost \in CallType /\ Innermost.f = base - 1 /\ Innermost.c = Len(cframe)
         /\ \A i \in 1 .. Len(calls) : calls[i] \in CallType /\ calls[i].f \in Nat /\ calls[i].c \in Nat
         /\ \A c \in 1 .. Len(cframe) : cframe[c] \in CframeType /\ cframe[c].nres \in Int
<1>1. /\ Shape(base, frames, cframe, openupval, calls) /\ Rest /\ NextCall /\ NextOther /\ TopAbove
      /\ Typed(base, frames, cframe, calls) /\ Here(base, cframe, calls)
  BY DEF Control, Shape, Rest, TypeOK
<1>2. /\ Len(calls) \in Nat /\ Len(cframe) \in Nat
      /\ \A i \in 1 .. Len(calls) : calls[i] \in CallType /\ calls[i].f \in Nat /\ calls[i].c \in Nat
      /\ \A c \in 1 .. Len(cframe) : cframe[c] \in CframeType
  BY <1>1, CallsTyped
<1>3. \A c \in 1 .. Len(cframe) : cframe[c].nres \in Int
  BY <1>2 DEF CframeType
<1>. QED BY <1>1, <1>2, <1>3 DEF Typed, Here, Innermost

\* The bottom of C code without a frame is below the frames that it has called.
LEMMA ShapeBots ==
  ASSUME NEW b, NEW fr, NEW cf, NEW ups, NEW cs, Shape(b, fr, cf, ups, cs)
  PROVE  \A i \in 1 .. Len(cs) : cs[i].k = "cp" =>
           /\ Bot(cf, cs[i]) \in Int
           /\ Bot(cf, cs[i]) <= b + 1
           /\ IsFrame(cs[Len(cs)]) => Bot(cf, cs[i]) <= b - 1
<1>. SUFFICES ASSUME NEW i \in 1 .. Len(cs), cs[i].k = "cp"
     PROVE  /\ Bot(cf, cs[i]) \in Int
            /\ Bot(cf, cs[i]) <= b + 1
            /\ IsFrame(cs[Len(cs)]) => Bot(cf, cs[i]) <= b - 1
  OBVIOUS
<1>. DEFINE n == Len(cs)
<1>1. /\ Ordered(cs) /\ Linkage(fr, cf, cs) /\ AboveBottom(cf, cs) /\ Typed(b, fr, cf, cs) /\ Here(b, cf, cs)
      /\ First(cf, cs) /\ CframesAre(cf, cs)
  BY DEF Shape
<1>2. n \in Nat /\ n \in 1 .. n /\ cs[n].f = b - 1 /\ cs[i].f \in Nat /\ b \in Nat
  BY <1>1, CallsTyped DEF Typed, Here
<1>3. cs[i].f <= b - 1
  BY <1>1, <1>2 DEF Ordered
<1>4. Bot(cf, cs[i]) \in Int
  <2>1. cs[i].c \in 1 .. Len(cf)
    BY <1>1 DEF CframesAre, IsEntry, Entries
  <2>2. cf[cs[i].c] \in CframeType
    BY <2>1, <1>1, CallsTyped
  <2>. QED BY <2>2 DEF Bot, CframeType
<1>5. i # 1
  BY <1>1 DEF First, Active
<1>6. CpLink(cf, cs[i], cs[i - 1])
  BY <1>1, <1>2, <1>5 DEF Linkage, Link
<1>7. Bot(cf, cs[i]) <= cs[i].f + 2
  BY <1>6 DEF CpLink, Bot
<1>8. IsFrame(cs[Len(cs)]) => Bot(cf, cs[i]) <= b - 1
  <2>1. IsFrame(cs[n]) => i # n
    BY DEF IsFrame, FrameKinds
  <2>. QED BY <2>1, <1>1, <1>2 DEF AboveBottom
<1>. QED BY <1>2, <1>3, <1>4, <1>7, <1>8

LEMMA BotBelow ==
  ASSUME Control
  PROVE  \A i \in 1 .. Len(calls) : calls[i].k = "cp" =>
           /\ Bot(cframe, calls[i]) \in Int
           /\ Bot(cframe, calls[i]) <= base + 1
           /\ IsFrame(Innermost) => Bot(cframe, calls[i]) <= base - 1
BY Facts, ShapeBots DEF Innermost

LEMMA StepSame ==
  ASSUME Control, MayFail, base' = base, frames' = frames, cframe' = cframe, calls' = calls,
         openupval' \subseteq openupval, status' \in {"ok", "errerr"}, stacksize' \in Nat,
         top' \in Nat, todo' \in TodoType, todo'.do \in {"run", "throw", "msg", "line", "err"},
         top <= top' \/ (base <= top' /\ IsFrame(Innermost)),
         todo'.do = "err" => top < top' \/ (base < top' /\ IsFrame(Innermost))
  PROVE  Control'
<1>1. Shape(base, frames, cframe, openupval, calls)'
  BY Facts DEF Shape, UpLive
<1>2. Rest'
  BY Facts DEF Rest
<1>3. NextCall'
  BY DEF NextCall
<1>4. NextOther'
  BY DEF NextOther, MayFail, Innermost
<1>5. TopAbove'
  <2>1. base <= top' /\ (todo'.do = "err" => base < top')
    BY Facts DEF TopAbove, Rest
  <2>2. ASSUME NEW i \in 1 .. Len(calls), calls[i].k = "cp"
        PROVE  Bot(cframe, calls[i]) <= top' /\ (todo'.do = "err" => Bot(cframe, calls[i]) < top')
    BY <2>2, <2>1, Facts, BotBelow DEF TopAbove, Rest
  <2>. QED BY <2>1, <2>2 DEF TopAbove, Bot
<1>. QED BY <1>1, <1>2, <1>3, <1>4, <1>5, ControlFrom

\* The call that each entry adds.
EnterActive(f, c, typ, h, after) == [Active("enter", f, c) EXCEPT !.prot = typ = "CP", !.h = h, !.after = after]
CpActive(f, c, h) == [Active("cp", f, c) EXCEPT !.prot = TRUE, !.h = h]

LEMMA EnterTyped ==
  ASSUME NEW f \in Nat, NEW c \in Nat, NEW typ, NEW h \in Nat \cup {-1},
         NEW after \in {"continue", "errhandler", "finalizer"},
         NEW a, a = EnterActive(f, c, typ, h, after)
  PROVE  a.k = "enter" /\ a.f = f /\ a.c = c /\ a.h = h /\ a.after = after /\ (a.prot <=> typ = "CP") /\ a \in CallType
<1>. DEFINE x == Active("enter", f, c)
<1>1. x \in CallType /\ x.k = "enter" /\ x.f = f /\ x.c = c
  BY DEF Active, CallType
<1>2. a = [x EXCEPT !.prot = typ = "CP", !.h = h, !.after = after]
  BY DEF EnterActive
<1>. HIDE DEF x
<1>3. a \in CallType
  BY <1>1, <1>2 DEF CallType
<1>4. a.k = x.k /\ a.f = x.f /\ a.c = x.c /\ a.h = h /\ a.after = after
  BY <1>1, <1>2 DEF CallType
<1>5. a.prot <=> typ = "CP"
  BY <1>1, <1>2 DEF CallType
<1>. QED BY <1>1, <1>3, <1>4, <1>5

LEMMA CpTyped ==
  ASSUME NEW f \in Nat, NEW c \in Nat, NEW h \in Nat \cup {-1}, NEW a, a = CpActive(f, c, h)
  PROVE  /\ a.k = "cp" /\ a.f = f /\ a.c = c /\ a.h = h /\ a.after = "continue" /\ a.prot
         /\ a \in CallType
<1>. DEFINE x == Active("cp", f, c)
<1>1. x \in CallType /\ x.k = "cp" /\ x.f = f /\ x.c = c /\ x.after = "continue"
  BY DEF Active, CallType
<1>2. a = [x EXCEPT !.prot = TRUE, !.h = h]
  BY DEF CpActive
<1>. HIDE DEF x
<1>3. a \in CallType
  BY <1>1, <1>2 DEF CallType
<1>4. a.k = x.k /\ a.f = x.f /\ a.c = x.c /\ a.h = h /\ a.after = x.after
  BY <1>1, <1>2 DEF CallType
<1>5. a.prot
  BY <1>1, <1>2 DEF CallType
<1>. QED BY <1>1, <1>3, <1>4, <1>5

\* The interpreter is entered.
LEMMA StepEnter ==
  ASSUME Control, NEW f \in Nat, NEW typ \in {"C", "CP"}, NEW h \in Nat \cup {-1}, NEW nres \in {0, 1},
         NEW after \in {"continue", "errhandler", "finalizer"}, NEW nargs \in Nat, NEW fs \in Kinds,
         Enter(f, typ, h, nres, after, nargs, fs),
         base' = base, frames' = frames, openupval' = openupval, top' = top, stacksize' = stacksize,
         status' \in {"ok", "errerr"}, MayFail,
         typ = "CP" => after = IF h = -1 THEN "finalizer" ELSE "continue",
         typ = "C" => h = 0 /\ after # "finalizer",
         typ = "CP" /\ after = "continue" => Innermost.k = "c",
         after = "continue" => Innermost.k # "lua",
         base <= f, \A i \in 1 .. Len(calls) : calls[i].k = "cp" => Bot(cframe, calls[i]) <= f
  PROVE  Control'
<1>. DEFINE a == [Active("enter", base - 1, Len(cframe) + 1) EXCEPT
                    !.prot = typ = "CP", !.h = h, !.after = after]
            e == Cframe(nres, h)
            n == Len(calls)
<1>1. /\ Shape(base, frames, cframe, openupval, calls) /\ base \in Nat \ {0} /\ n \in Nat \ {0}
      /\ Len(cframe) \in Nat /\ Innermost.f = base - 1 /\ Innermost.c = Len(cframe)
      /\ calls \in Seq(CallType) /\ cframe \in Seq(CframeType)
  BY Facts
<1>2. cframe' = Append(cframe, e) /\ calls' = Append(calls, a) /\ todo' = Calling(f, typ, nargs, fs)
  BY DEF Enter
<1>3. /\ a.k = "enter" /\ a.f = base - 1 /\ a.c = Len(cframe) + 1 /\ a.h = h /\ a.after = after
      /\ a.prot <=> typ = "CP"
      /\ a \in CallType
  <2>1. base - 1 \in Nat /\ Len(cframe) + 1 \in Nat /\ a = EnterActive(base - 1, Len(cframe) + 1, typ, h, after)
    BY <1>1 DEF EnterActive
  <2>. HIDE DEF a
  <2>. QED BY <2>1, EnterTyped
<1>4. e \in CframeType /\ e.nres = nres /\ e.errf = h /\ ~e.yield
  BY DEF Cframe, CframeType
<1>. HIDE DEF a, e
<1>5. Append(cframe, e)[Len(cframe) + 1] = e /\ \A c \in 1 .. Len(cframe) : Append(cframe, e)[c] = cframe[c]
  BY <1>1, <1>4, Pushed
<1>6. Append(calls, a)[n + 1] = a /\ Len(Append(calls, a)) = n + 1 /\ \A i \in 1 .. n : Append(calls, a)[i] = calls[i]
  BY <1>1, <1>3, Pushed
<1>7. EnterLink(Append(cframe, e), a, Innermost)
  BY <1>1, <1>3, <1>4, <1>5 DEF EnterLink, MayFail
<1>8. Link(frames, Append(cframe, e), a, calls[Len(calls)])
  BY <1>3, <1>7 DEF Link, Innermost
<1>9. Shape(base, frames, Append(cframe, e), openupval, Append(calls, a))
  <2>1. IsEntry(a) /\ a.k # "cp"
    BY <1>3 DEF IsEntry, Entries
  <2>. QED BY <2>1, <1>1, <1>3, <1>4, <1>8, ShapeEntry
<1>10. Shape(base, frames, cframe, openupval, calls)'
  BY <1>9, <1>2
<1>11. todo' \in TodoType /\ todo'.do = "call" /\ todo'.typ = typ /\ todo'.f = f
  BY <1>2 DEF Calling, TodoType
<1>12. Rest'
  BY <1>11, Facts DEF Rest
<1>13. \A i \in 1 .. n + 1 : calls'[i].k = "cp" => i \in 1 .. n /\ calls'[i] = calls[i] /\ Bot(cframe', calls'[i]) = Bot(cframe, calls[i])
  <2>1. SUFFICES ASSUME NEW i \in 1 .. n + 1, calls'[i].k = "cp"
        PROVE  i \in 1 .. n /\ calls'[i] = calls[i] /\ Bot(cframe', calls'[i]) = Bot(cframe, calls[i])
    OBVIOUS
  <2>2. i \in 1 .. n /\ calls'[i] = calls[i]
    BY <2>1, <1>1, <1>2, <1>3, <1>6
  <2>3. calls[i].c \in 1 .. Len(cframe)
    BY <2>1, <2>2, <1>1 DEF Shape, CframesAre, IsEntry, Entries
  <2>. QED BY <2>2, <2>3, <1>2, <1>5 DEF Bot
<1>14. Innermost' = a /\ Len(calls') = n + 1
  BY <1>2, <1>6 DEF Innermost
<1>15. NextCall'
  <2>1. base' <= todo'.f
    BY <1>11
  <2>2. \A i \in 1 .. Len(calls') : calls'[i].k = "cp" => Bot(cframe', calls'[i]) <= todo'.f
    BY <1>11, <1>13, <1>14
  <2>3. /\ typ = "CP" => Innermost'.k = "enter" /\ Innermost'.prot /\ todo'.typ = "CP"
        /\ typ = "C" => Innermost'.k = "enter" /\ ~Innermost'.prot /\ todo'.typ = "C"
    BY <1>11, <1>14, <1>3
  <2>. QED BY <2>1, <2>2, <2>3 DEF NextCall, Bot
<1>16. NextOther'
  BY <1>11 DEF NextOther
<1>17. TopAbove'
  <2>1. base' <= top' /\ todo'.do # "err"
    BY <1>11, Facts DEF TopAbove
  <2>2. \A i \in 1 .. Len(calls') : calls'[i].k = "cp" => Bot(cframe', calls'[i]) <= top'
    BY <1>13, <1>14, Facts DEF TopAbove
  <2>. QED BY <2>1, <2>2 DEF TopAbove, Bot
<1>. QED BY <1>10, <1>12, <1>15, <1>16, <1>17, ControlFrom

\* C code is called without a frame.
LEMMA StepEnterCp ==
  ASSUME Control, NEW h \in {0, -1}, EnterCp(h), Innermost.k = "c", top <= base + 1,
         base' = base, frames' = frames, openupval' = openupval, stacksize' = stacksize, status' = status,
         top' \in Nat, top <= top', todo' \in TodoType, todo'.do \in {"run", "throw"}
  PROVE  Control'
<1>. DEFINE a == [Active("cp", base - 1, Len(cframe) + 1) EXCEPT !.prot = TRUE, !.h = h]
            e == Cframe(-top, h)
            n == Len(calls)
<1>1. /\ Shape(base, frames, cframe, openupval, calls) /\ base \in Nat \ {0} /\ n \in Nat \ {0}
      /\ Len(cframe) \in Nat /\ Innermost.f = base - 1 /\ Innermost.c = Len(cframe)
      /\ calls \in Seq(CallType) /\ cframe \in Seq(CframeType) /\ top \in Nat /\ base <= top
  BY Facts DEF Rest, TopAbove
<1>2. cframe' = Append(cframe, e) /\ calls' = Append(calls, a)
  BY DEF EnterCp
<1>3. /\ a.k = "cp" /\ a.f = base - 1 /\ a.c = Len(cframe) + 1 /\ a.h = h /\ a.after = "continue"
      /\ a.prot
      /\ a \in CallType
  <2>1. base - 1 \in Nat /\ Len(cframe) + 1 \in Nat /\ a = CpActive(base - 1, Len(cframe) + 1, h)
    BY <1>1 DEF CpActive
  <2>. HIDE DEF a
  <2>. QED BY <2>1, CpTyped
<1>4. e \in CframeType /\ e.nres = -top /\ e.errf = h /\ ~e.yield
  BY <1>1 DEF Cframe, CframeType
<1>. HIDE DEF a, e
<1>5. Append(cframe, e)[Len(cframe) + 1] = e /\ \A c \in 1 .. Len(cframe) : Append(cframe, e)[c] = cframe[c]
  BY <1>1, <1>4, Pushed
<1>6. Append(calls, a)[n + 1] = a /\ Len(Append(calls, a)) = n + 1 /\ \A i \in 1 .. n : Append(calls, a)[i] = calls[i]
  BY <1>1, <1>3, Pushed
<1>7. CpLink(Append(cframe, e), a, Innermost)
  BY <1>1, <1>3, <1>4, <1>5 DEF CpLink
<1>8. Link(frames, Append(cframe, e), a, calls[Len(calls)])
  BY <1>3, <1>7 DEF Link, Innermost
<1>9. Shape(base, frames, Append(cframe, e), openupval, Append(calls, a))
  <2>1. IsEntry(a)
    BY <1>3 DEF IsEntry, Entries
  <2>2. \A i \in 1 .. Len(calls) : calls[i].k = "cp" => Bot(cframe, calls[i]) <= -e.nres
    BY <1>1, <1>4, Facts DEF TopAbove
  <2>. QED BY <2>1, <2>2, <1>1, <1>3, <1>4, <1>8, ShapeEntry
<1>10. Shape(base, frames, cframe, openupval, calls)'
  BY <1>9, <1>2
<1>12. Rest'
  BY Facts DEF Rest
<1>13. Innermost' = a /\ Len(calls') = n + 1
  BY <1>2, <1>6 DEF Innermost
<1>14. ASSUME NEW i \in 1 .. n + 1, calls'[i].k = "cp" PROVE Bot(cframe', calls'[i]) <= top
  <2>1. CASE i = n + 1
    BY <2>1, <1>1, <1>2, <1>3, <1>4, <1>5, <1>6 DEF Bot
  <2>2. CASE i \in 1 .. n
    <3>1. calls'[i] = calls[i] /\ calls[i].c \in 1 .. Len(cframe)
      BY <2>2, <1>14, <1>1, <1>2, <1>6 DEF Shape, CframesAre, IsEntry, Entries
    <3>2. Bot(cframe', calls'[i]) = Bot(cframe, calls[i])
      BY <3>1, <1>2, <1>5 DEF Bot
    <3>. QED BY <3>1, <3>2, <2>2, <1>14, Facts DEF TopAbove
  <2>. QED BY <2>1, <2>2, <1>1
<1>15. NextCall'
  BY DEF NextCall
<1>16. NextOther'
  BY <1>3, <1>13 DEF NextOther, MayFail
<1>17. TopAbove'
  <2>1. base' <= top' /\ todo'.do # "err"
    BY <1>1
  <2>2. ASSUME NEW i \in 1 .. Len(calls'), calls'[i].k = "cp" PROVE Bot(cframe', calls'[i]) <= top'
    <3>1. Bot(cframe', calls'[i]) <= top
      BY <2>2, <1>13, <1>14
    <3>2. Bot(cframe', calls'[i]) \in Int
      <4>1. Typed(base, frames, cframe, calls)' /\ CframesAre(cframe, calls)'
        BY <1>10 DEF Shape
      <4>2. calls'[i].c \in 1 .. Len(cframe')
        BY <4>1, <2>2 DEF CframesAre, IsEntry, Entries
      <4>3. cframe'[calls'[i].c] \in CframeType
        BY <4>1, <4>2, CallsTyped
      <4>. QED BY <4>3 DEF Bot, CframeType
    <3>. QED BY <3>1, <3>2, <1>1
  <2>. QED BY <2>1, <2>2 DEF TopAbove, Bot
<1>. QED BY <1>10, <1>12, <1>15, <1>16, <1>17, ControlFrom

(***************************************************************************)
(* The stack grows.                                                        *)
(***************************************************************************)
\* What a check of the stack may come to.
Result(o, short, need) ==
  /\ o.size \in Nat /\ stacksize <= o.size /\ o.e \in {"none", "mem", "msg", "throw"}
  /\ ~short => o.e = "none" /\ o.size = stacksize
  /\ short /\ o.e = "none" => /\ stacksize + need + 1 + LJ_STACK_EXTRA <= o.size
                          /\ o.size <= LJ_STACK_MAXEX /\ stacksize + need <= LUAI_MAXSTACK
  /\ o.e \in {"mem", "throw"} => o.size = stacksize
  /\ o.e = "throw" => Overdrawn
  /\ o.e = "msg" => /\ o.size > LJ_STACK_MAXEX
                    /\ o.size <= LJ_STACK_MAXEX + need + 2 * LUA_MINSTACK + 1 + LJ_STACK_EXTRA

LEMMA Checks ==
  ASSUME stacksize \in Nat, NEW short, NEW need, short => need \in Nat, NEW o \in Checked(short, need)
  PROVE  Result(o, short, need)
<1>. USE StackConstants
<1>1. CASE ~short
  <2>1. o = [e |-> "none", size |-> stacksize]
    BY <1>1 DEF Checked
  <2>2. o.e = "none" /\ o.size = stacksize /\ stacksize <= o.size /\ o.size \in Nat
    BY <2>1
  <2>. QED BY <2>2, <1>1 DEF Result
<1>2. CASE short /\ Overdrawn
  <2>1. o = [e |-> "throw", size |-> stacksize]
    BY <1>2 DEF Checked, growstack
  <2>2. o.e = "throw" /\ o.size = stacksize
    BY <2>1
  <2>. QED BY <2>2, <1>2 DEF Result
<1>3. CASE short /\ ~Overdrawn
  <2>. DEFINE size == resizestack(GrownSize(need))
  <2>1. need \in Nat /\ stacksize <= LJ_STACK_MAXEX
    BY <1>3 DEF Overdrawn, LJ_STACK_MAXEX
  <2>2. /\ size \in Nat /\ stacksize + need + 1 + LJ_STACK_EXTRA <= size
        /\ stacksize + need <= LUAI_MAXSTACK => size <= LJ_STACK_MAXEX
        /\ ~(stacksize + need <= LUAI_MAXSTACK) =>
             size > LJ_STACK_MAXEX /\ size = stacksize + need + 2 * LUA_MINSTACK + 1 + LJ_STACK_EXTRA
    BY <2>1 DEF resizestack, GrownSize, Least, LJ_STACK_MAXEX
  <2>3. \/ o = [e |-> IF size > LJ_STACK_MAXEX THEN "msg" ELSE "none", size |-> size]
        \/ o = [e |-> "mem", size |-> stacksize]
    BY <1>3 DEF Checked, growstack
  <2>. HIDE DEF size
  <2>4. CASE o = [e |-> "mem", size |-> stacksize]
    <3>1. o.e = "mem" /\ o.size = stacksize
      BY <2>4
    <3>. QED BY <3>1, <1>3 DEF Result
  <2>5. CASE o = [e |-> IF size > LJ_STACK_MAXEX THEN "msg" ELSE "none", size |-> size]
    <3>1. o.size = size /\ o.e = (IF size > LJ_STACK_MAXEX THEN "msg" ELSE "none")
      BY <2>5
    <3>2. CASE size > LJ_STACK_MAXEX
      BY <3>1, <3>2, <2>1, <2>2, <1>3 DEF Result, LJ_STACK_MAXEX
    <3>3. CASE ~(size > LJ_STACK_MAXEX)
      <4>1. o.e = "none" /\ o.size = size
        BY <3>1, <3>3
      <4>2. LJ_STACK_MAXEX \in Nat /\ need \in Nat /\ stacksize <= size /\ size <= LJ_STACK_MAXEX
        BY <3>3, <2>1, <2>2 DEF LJ_STACK_MAXEX
      <4>3. stacksize + need <= LUAI_MAXSTACK
        BY <4>2, <2>1, <2>2
      <4>. QED BY <4>1, <4>2, <4>3, <2>2, <1>3 DEF Result
    <3>. QED BY <3>2, <3>3
  <2>. QED BY <2>3, <2>4, <2>5
<1>. QED BY <1>1, <1>2, <1>3

\* The outcome of a check, and what follows (see GoOn).
Outcome(o, t, u, next) ==
  /\ stacksize' = o.size /\ stacksize' \in Nat /\ top' \in Nat /\ todo' \in TodoType
  /\ \/ o.e = "none" /\ top' = u /\ todo' = next
     \/ o.e = "mem" /\ top' = t + 1 /\ todo'.do = "throw"
     \/ o.e = "msg" /\ top' = t /\ todo'.do = "msg"
     \/ o.e = "throw" /\ top' = t /\ todo'.do = "throw"

LEMMA GoesOn ==
  ASSUME NEW short, NEW need, NEW o, Result(o, short, need),
         NEW t \in Nat, NEW u \in Nat, NEW next \in TodoType, GoOn(o, t, u, next)
  PROVE  Outcome(o, t, u, next)
<1>1. Go("msg") \in TodoType /\ Go("msg").do = "msg" /\ Go("throw") \in TodoType /\ Go("throw").do = "throw"
  BY DEF Go, TodoType, Kinds
<1>2. o.e \in {"none", "mem", "msg", "throw"}
  BY DEF Result
<1>3. CASE o.e = "none"
  BY <1>3 DEF GoOn, Result, Outcome
<1>4. CASE o.e = "mem"
  BY <1>4, <1>1 DEF GoOn, Result, Outcome
<1>5. CASE o.e = "msg"
  BY <1>5, <1>1 DEF GoOn, Result, Outcome
<1>6. CASE o.e = "throw"
  BY <1>6, <1>1 DEF GoOn, Result, Outcome
<1>. QED BY <1>2, <1>3, <1>4, <1>5, <1>6

LEMMA KindsNat == Kinds \subseteq Nat
BY StackConstants DEF Kinds

LEMMA Goes ==
  \A do \in {"run", "throw", "msg", "line", "err"} : Go(do) \in TodoType /\ Go(do).do = do
BY DEF Go, TodoType, Kinds

LEMMA Incr ==
  ASSUME stacksize \in Nat, NEW t \in Nat, NEW next \in TodoType, incr_top(t, next)
  PROVE  \E o : Result(o, t + 1 >= maxstack, 1) /\ Outcome(o, t + 1, t + 1, next)
<1>1. PICK o \in Checked(t + 1 >= maxstack, 1) : GoOn(o, t + 1, t + 1, next)
  BY DEF incr_top
<1>2. Result(o, t + 1 >= maxstack, 1)
  BY Checks
<1>3. Outcome(o, t + 1, t + 1, next)
  <2>1. t + 1 \in Nat
    OBVIOUS
  <2>. QED BY <1>1, <1>2, <2>1, GoesOn
<1>. QED BY <1>2, <1>3

\* The sizes of frames.
LEMMA Sized ==
  ASSUME NEW b, NEW fr, NEW cf, NEW ups, NEW cs, Shape(b, fr, cf, ups, cs), NEW i \in 1 .. Len(cs)
  PROVE  /\ cs[i].f \in {0} \cup DOMAIN fr
         /\ framesize(fr, cs[i].f) \in Nat
         /\ cs[i].k = "lua" => framesize(fr, cs[i].f) > 0 /\ cs[i].f # 0
         /\ cs[i].k \in {"c", "ff", "cp"} => framesize(fr, cs[i].f) = 0
<1>1. /\ Typed(b, fr, cf, cs) /\ Ordered(cs) /\ FramesAre(fr, cs) /\ First(cf, cs) /\ Linkage(fr, cf, cs)
      /\ Len(cs) \in Nat /\ Len(cs) >= 1
      /\ \A j \in 1 .. Len(cs) : cs[j] \in CallType /\ cs[j].f \in Nat
  BY CallsTyped DEF Shape, Typed
<1>2. \A f \in {0} \cup DOMAIN fr : framesize(fr, f) \in Nat
  BY <1>1, KindsNat DEF Typed, framesize, FrameType
<1>3. ASSUME NEW j \in 1 .. Len(cs), IsFrame(cs[j]) PROVE cs[j].f \in {0} \cup DOMAIN fr
  BY <1>1, <1>3 DEF FramesAre
<1>4. ASSUME NEW j \in 1 .. Len(cs), j # 1 PROVE j \in 2 .. Len(cs) /\ j - 1 \in 1 .. Len(cs) /\ Link(fr, cf, cs[j], cs[j - 1])
  BY <1>1, <1>4 DEF Linkage
<1>5. ASSUME NEW j \in 1 .. Len(cs), cs[j].k = "cp" PROVE j # 1 /\ j - 1 \in 1 .. Len(cs) /\ cs[j - 1].k = "c" /\ cs[j - 1].f = cs[j].f
  <2>1. j # 1
    BY <1>1, <1>5 DEF First, Active
  <2>. QED BY <2>1, <1>4, <1>5 DEF Link, CpLink
<1>6. ASSUME NEW j \in 1 .. Len(cs), cs[j].k \in {"lua", "c", "cp"} PROVE cs[j].f \in {0} \cup DOMAIN fr
  BY <1>3, <1>5, <1>6 DEF IsFrame, FrameKinds
<1>7. cs[i].f \in {0} \cup DOMAIN fr
  <2>1. CASE i = 1
    BY <2>1, <1>1 DEF First, Active
  <2>2. CASE i # 1 /\ cs[i].k = "enter"
    <3>1. cs[i - 1].k \in {"lua", "c", "cp"} /\ cs[i - 1].f = cs[i].f /\ i - 1 \in 1 .. Len(cs)
      BY <2>2, <1>4 DEF Link, EnterLink
    <3>. QED BY <3>1, <1>6
  <2>3. CASE cs[i].k # "enter"
    <3>1. cs[i].k \in {"lua", "c", "cp", "ff"}
      BY <2>3, <1>1 DEF CallType
    <3>. QED BY <3>1, <1>3, <1>6 DEF IsFrame, FrameKinds
  <2>. QED BY <2>1, <2>2, <2>3
<1>8. cs[i].k = "lua" => framesize(fr, cs[i].f) > 0 /\ cs[i].f # 0
  <2>1. SUFFICES ASSUME cs[i].k = "lua" PROVE framesize(fr, cs[i].f) > 0 /\ cs[i].f # 0
    OBVIOUS
  <2>2. i # 1
    BY <2>1, <1>1 DEF First, Active
  <2>3. cs[i].f # 0
    BY <2>1, <2>2, <1>1 DEF Ordered, IsFrame, FrameKinds
  <2>4. FuncLink(fr, cs[i], cs[i - 1])
    BY <2>1, <2>2, <1>4 DEF Link
  <2>. QED BY <2>1, <2>3, <2>4 DEF FuncLink, framesize
<1>9. ASSUME NEW j \in 1 .. Len(cs), cs[j].k \in {"c", "ff"} PROVE framesize(fr, cs[j].f) = 0
  <2>1. CASE j = 1
    <3>1. cs[j].f = 0
      BY <2>1, <1>1 DEF First, Active
    <3>. QED BY <3>1 DEF framesize
  <2>2. CASE j # 1 /\ cs[j].k = "c"
    <3>1. FuncLink(fr, cs[j], cs[j - 1])
      BY <2>2, <1>4 DEF Link
    <3>2. ~(fr[cs[j].f].fs > 0)
      BY <3>1, <2>2 DEF FuncLink
    <3>3. cs[j].f \in {0} \cup DOMAIN fr
      BY <1>6, <2>2
    <3>. QED BY <3>2, <3>3, <1>2 DEF framesize
  <2>3. CASE j # 1 /\ cs[j].k = "ff"
    <3>1. FfLink(fr, cs[j], cs[j - 1])
      BY <2>3, <1>4 DEF Link
    <3>. QED BY <3>1 DEF FfLink, framesize
  <2>. QED BY <1>9, <2>1, <2>2, <2>3
<1>10. cs[i].k \in {"c", "ff", "cp"} => framesize(fr, cs[i].f) = 0
  BY <1>5, <1>9
<1>. QED BY <1>2, <1>7, <1>8, <1>10

(***************************************************************************)
(* Functions are called.                                                   *)
(***************************************************************************)
\* Call a, with a frame of type typ, fits the calls that are active.
CallLink(a, typ, fs) ==
  /\ a.k \in {"lua", "c"} /\ (a.k = "lua" <=> fs > 0)
  /\ ~a.prot /\ a.h = 0 /\ a.after = "continue"
  /\ \/ Innermost.k = "lua" /\ typ \in {"LUA", "CONT"}
     \/ Innermost.k = "ff" /\ typ = "PCALL"
     \/ Innermost.k = "enter" /\ Innermost.prot /\ typ = "CP"
     \/ Innermost.k = "enter" /\ ~Innermost.prot /\ typ = "C"
PcallLink(a, typ, fs, xp) ==
  /\ a.k = "ff" /\ Innermost.k = "lua" /\ typ = "LUA" /\ fs = 0
  /\ a.prot /\ a.h = (IF xp THEN a.f + 1 ELSE 0) /\ a.after = "continue"
FrameFits(a, typ, fs, xp) ==
  /\ a \in CallType /\ a.c = Len(cframe) /\ base <= a.f
  /\ typ \in {"LUA", "C", "CP", "CONT", "PCALL"} /\ fs \in Kinds /\ xp \in BOOLEAN
  /\ CallLink(a, typ, fs) \/ PcallLink(a, typ, fs, xp)
  /\ \A i \in 1 .. Len(calls) : calls[i].k = "cp" => Bot(cframe, calls[i]) <= a.f

LEMMA FrameShape ==
  ASSUME Control, NEW a, NEW typ, NEW fs, NEW xp, FrameFits(a, typ, fs, xp),
         base' = a.f + 1, frames' = Linked(a.f, typ, fs, xp), cframe' = cframe, openupval' = openupval,
         calls' = Append(calls, a)
  PROVE  /\ Shape(base, frames, cframe, openupval, calls)'
         /\ frames' = AddFrame(frames, a.f, [typ |-> typ, delta |-> a.f - (base - 1), fs |-> fs, xp |-> xp])
         /\ Len(calls') = Len(calls) + 1 /\ Innermost' = a
         /\ \A i \in 1 .. Len(calls) : calls'[i] = calls[i]
<1>. DEFINE rec == [typ |-> typ, delta |-> a.f - (base - 1), fs |-> fs, xp |-> xp]
<1>1. /\ Shape(base, frames, cframe, openupval, calls) /\ base \in Nat \ {0} /\ Len(calls) \in Nat \ {0}
      /\ Innermost.f = base - 1 /\ Innermost.c = Len(cframe) /\ calls \in Seq(CallType)
  BY Facts
<1>2. frames' = AddFrame(frames, a.f, rec)
  BY DEF Linked, AddFrame
<1>0. /\ a \in CallType /\ a.f \in Nat /\ a.c = Len(cframe) /\ base <= a.f
      /\ typ \in {"LUA", "C", "CP", "CONT", "PCALL"} /\ fs \in Kinds /\ xp \in BOOLEAN
      /\ CallLink(a, typ, fs) \/ PcallLink(a, typ, fs, xp)
      /\ \A i \in 1 .. Len(calls) : calls[i].k = "cp" => Bot(cframe, calls[i]) <= a.f
  <2>1. a \in CallType => a.f \in Nat
    BY DEF CallType
  <2>. QED BY <2>1 DEF FrameFits
<1>3. rec \in FrameType /\ rec.typ = typ /\ rec.delta = a.f - (base - 1) /\ rec.fs = fs /\ rec.xp = xp
  BY <1>0, <1>1 DEF FrameType
<1>4. AddFrame(frames, a.f, rec)[a.f] = rec
  BY DEF AddFrame
<1>. HIDE DEF rec
<1>5. Link(frames', cframe, a, Innermost) /\ IsFrame(a)
  <2>1. frames'[a.f] = rec
    BY <1>2, <1>4
  <2>2. CASE CallLink(a, typ, fs)
    <3>1. FuncLink(frames', a, Innermost)
      BY <2>1, <2>2, <1>0, <1>1, <1>3 DEF FuncLink, CallLink
    <3>2. a.k \in {"lua", "c"}
      BY <2>2 DEF CallLink
    <3>. QED BY <3>1, <3>2 DEF Link, IsFrame, FrameKinds
  <2>3. CASE PcallLink(a, typ, fs, xp)
    <3>1. FfLink(frames', a, Innermost)
      BY <2>1, <2>3, <1>0, <1>1, <1>3 DEF FfLink, PcallLink
    <3>2. a.k = "ff"
      BY <2>3 DEF PcallLink
    <3>. QED BY <3>1, <3>2 DEF Link, IsFrame, FrameKinds
  <2>. QED BY <1>0, <2>2, <2>3
<1>6. Shape(a.f + 1, frames', cframe, openupval, Append(calls, a))
  BY <1>0, <1>1, <1>2, <1>3, <1>5, ShapeFrame DEF Innermost
<1>7. Shape(base, frames, cframe, openupval, calls)'
  BY <1>6
<1>. QED BY <1>0, <1>1, <1>2, <1>7, Pushed DEF Innermost, rec

LEMMA StepCall ==
  ASSUME Control, Call
  PROVE  Control'
<1>. USE StackConstants
<1>. DEFINE f == todo.f
            fs == todo.fs
            typ == todo.typ
            t == f + 1 + todo.n
            a == Active(IF fs > 0 THEN "lua" ELSE "c", f, Len(cframe))
<1>0. /\ todo \in TodoType /\ todo.do = "call" /\ stacksize \in Nat
      /\ base \in Nat \ {0} /\ Len(calls) \in Nat \ {0} /\ Len(cframe) \in Nat
  BY Facts DEF Rest, Call
<1>1. /\ todo \in TodoType /\ f \in Nat /\ fs \in Kinds /\ fs \in Nat /\ todo.n \in Nat /\ t \in Nat
      /\ todo.do = "call" /\ typ \in {"LUA", "C", "CP", "CONT", "PCALL"}
      /\ base \in Nat \ {0} /\ Len(calls) \in Nat \ {0} /\ Len(cframe) \in Nat /\ stacksize \in Nat
  <2>1. f \in Nat /\ fs \in Kinds /\ todo.n \in Nat /\ typ \in {"LUA", "C", "CP", "CONT", "PCALL"}
    BY <1>0 DEF TodoType
  <2>2. fs \in Nat
    BY <2>1, KindsNat
  <2>. QED BY <2>1, <2>2, <1>0
<1>2. a \in CallType /\ a.f = f /\ a.c = Len(cframe) /\ a.k = (IF fs > 0 THEN "lua" ELSE "c")
      /\ ~a.prot /\ a.h = 0 /\ a.after = "continue"
  BY <1>1 DEF Active, CallType
<1>. HIDE DEF a
<1>3. base <= f /\ \A i \in 1 .. Len(calls) : calls[i].k = "cp" => Bot(cframe, calls[i]) <= f
  BY <1>1, Facts DEF NextCall
<1>4. /\ base' = f + 1 /\ frames' = Linked(f, typ, fs, FALSE) /\ cframe' = cframe
      /\ openupval' = openupval /\ calls' = Append(calls, a) /\ status' = status
  BY DEF Call, a
<1>5. \/ Innermost.k = "lua" /\ typ \in {"LUA", "CONT"}
      \/ Innermost.k = "ff" /\ typ = "PCALL"
      \/ Innermost.k = "enter" /\ Innermost.prot /\ typ = "CP"
      \/ Innermost.k = "enter" /\ ~Innermost.prot /\ typ = "C"
  BY <1>1, Facts DEF NextCall
<1>6. IsFrame(a) /\ a.k # "ff" /\ (a.k = "lua" <=> fs > 0)
  BY <1>2 DEF IsFrame, FrameKinds
<1>8. /\ stacksize' \in Nat /\ top' \in Nat /\ todo' \in TodoType /\ todo'.do \in {"run", "msg", "throw"}
      /\ f + 1 <= top'
  <2>. DEFINE short == IF fs > 0 THEN f + 1 + fs > maxstack ELSE t + LUA_MINSTACK > maxstack
              need == IF fs > 0 THEN fs ELSE LUA_MINSTACK
              u == IF fs > 0 THEN f + 1 + fs ELSE t
              go == Go("run")
  <2>1. PICK o \in Checked(short, need) : GoOn(o, t, u, go)
    BY DEF Call
  <2>2. need \in Nat /\ u \in Nat /\ f + 1 <= u /\ f + 1 <= t /\ go \in TodoType /\ go.do = "run"
    BY <1>1, Goes
  <2>. HIDE DEF short, need, u, t, f, fs, typ, go
  <2>3. Result(o, short, need)
    BY <2>1, <2>2, <1>1, Checks
  <2>4. /\ stacksize' \in Nat /\ top' \in Nat /\ todo' \in TodoType
        /\ \/ top' = u /\ todo' = go
           \/ top' = t + 1 /\ todo'.do = "throw"
           \/ top' = t /\ todo'.do = "msg"
           \/ top' = t /\ todo'.do = "throw"
    BY <2>1, <2>2, <2>3, <1>1, GoesOn DEF Outcome
  <2>. QED BY <2>4, <2>2, <1>1
<1>. HIDE DEF f, fs, typ, t
<1>7. /\ Shape(base, frames, cframe, openupval, calls)'
      /\ Len(calls') = Len(calls) + 1 /\ Innermost' = a /\ \A i \in 1 .. Len(calls) : calls'[i] = calls[i]
  <2>1. CallLink(a, typ, fs)
    BY <1>2, <1>5, <1>6 DEF CallLink
  <2>2. FrameFits(a, typ, fs, FALSE)
    BY <2>1, <1>1, <1>2, <1>3 DEF FrameFits
  <2>3. frames' = Linked(a.f, typ, fs, FALSE) /\ base' = a.f + 1
    BY <1>2, <1>4
  <2>. QED BY <2>2, <2>3, <1>4, FrameShape
<1>9. Rest'
  BY <1>4, <1>8, Facts DEF Rest
<1>10. NextCall'
  BY <1>8 DEF NextCall
<1>11. NextOther'
  BY <1>8, <1>7, <1>2 DEF NextOther, MayFail
<1>12. TopAbove'
  <2>1. ASSUME NEW i \in 1 .. Len(calls) + 1, calls'[i].k = "cp" PROVE Bot(cframe', calls'[i]) <= top'
    <3>1. i \in 1 .. Len(calls)
      BY <2>1, <1>1, <1>2, <1>7 DEF Innermost
    <3>2. calls'[i] = calls[i]
      BY <3>1, <1>7
    <3>3. Bot(cframe, calls[i]) <= f /\ Bot(cframe, calls[i]) \in Int
      BY <2>1, <3>1, <3>2, <1>3, BotBelow
    <3>4. Bot(cframe', calls'[i]) = Bot(cframe, calls[i])
      BY <3>2, <1>4
    <3>. QED BY <3>3, <3>4, <1>1, <1>8
  <2>. QED BY <2>1, <1>4, <1>7, <1>8 DEF TopAbove, Bot
<1>. QED BY <1>7, <1>9, <1>10, <1>11, <1>12, ControlFrom

(***************************************************************************)
(* Steps that leave frames and calls.                                      *)
(***************************************************************************)
LEMMA InnermostSized ==
  ASSUME Control
  PROVE  /\ Len(calls) \in 1 .. Len(calls)
         /\ base - 1 \in {0} \cup DOMAIN frames /\ framesize(frames, base - 1) \in Nat
         /\ Innermost.k = "lua" => framesize(frames, base - 1) > 0
         /\ Innermost.k \in {"c", "ff", "cp"} => framesize(frames, base - 1) = 0
<1>1. Len(calls) \in 1 .. Len(calls) /\ calls[Len(calls)].f = base - 1 /\ Shape(base, frames, cframe, openupval, calls)
  BY Facts DEF Innermost
<1>2. /\ calls[Len(calls)].f \in {0} \cup DOMAIN frames
      /\ framesize(frames, calls[Len(calls)].f) \in Nat
      /\ calls[Len(calls)].k = "lua" => framesize(frames, calls[Len(calls)].f) > 0
      /\ calls[Len(calls)].k \in {"c", "ff", "cp"} => framesize(frames, calls[Len(calls)].f) = 0
  BY <1>1, Sized
<1>. QED BY <1>1, <1>2 DEF Innermost

Still == base' = base /\ frames' = frames /\ cframe' = cframe /\ calls' = calls /\ status' = status
\* Slot t may be the top.
Above(t) == t \in Nat /\ (top <= t \/ (base <= t /\ IsFrame(Innermost)))

LEMMA StepGrown ==
  ASSUME Control, MayFail, Still, openupval' = openupval,
         NEW short, NEW need, NEW o, Result(o, short, need), NEW t, NEW u, NEW next \in TodoType,
         Outcome(o, t, u, next), next.do \in {"run", "throw", "line", "err"}, Above(t), Above(u),
         next.do = "err" => top < u
  PROVE  Control'
<1>1. /\ top \in Nat /\ status \in {"ok", "errerr"}
  BY Facts DEF Rest
<1>2. /\ stacksize' \in Nat /\ top' \in Nat /\ todo' \in TodoType /\ status' \in {"ok", "errerr"}
      /\ todo'.do \in {"run", "throw", "msg", "line", "err"}
      /\ base' = base /\ frames' = frames /\ cframe' = cframe /\ calls' = calls
  BY <1>1 DEF Outcome, Still
<1>3. top <= top' \/ (base <= top' /\ IsFrame(Innermost))
  <2>1. top' \in {t, t + 1, u}
    BY DEF Outcome
  <2>2. t \in Nat /\ u \in Nat /\ base \in Nat
    BY Facts DEF Above
  <2>. QED BY <2>1, <2>2, <1>1 DEF Above
<1>4. todo'.do = "err" => top < top'
  BY DEF Outcome
<1>. QED BY <1>2, <1>3, <1>4, StepSame

LEMMA StepMsg ==
  ASSUME Control, err_msgv
  PROVE  Control'
<1>. DEFINE t == curr_top(base, frames, top)
            next == Go("line")
<1>1. MayFail /\ top \in Nat /\ stacksize \in Nat /\ base \in Nat
  BY Facts DEF err_msgv, NextOther, Rest
<1>2. next \in TodoType /\ next.do = "line"
  BY Goes
<1>3. t \in Nat /\ Above(t) /\ Above(t + 1)
  <2>1. CASE Innermost.k = "lua"
    <3>1. t = base + framesize(frames, base - 1) /\ framesize(frames, base - 1) \in Nat
      BY <2>1, InnermostSized DEF curr_top
    <3>. QED BY <3>1, <2>1, <1>1 DEF Above, IsFrame, FrameKinds
  <2>2. CASE Innermost.k # "lua"
    <3>1. t = top
      BY <2>2, <1>1, InnermostSized DEF curr_top, MayFail
    <3>. QED BY <3>1, <1>1 DEF Above
  <2>. QED BY <2>1, <2>2
<1>4. Still /\ openupval' = openupval /\ incr_top(t, next)
  BY DEF err_msgv, Still
<1>. HIDE DEF t, next
<1>5. PICK o : Result(o, t + 1 >= maxstack, 1) /\ Outcome(o, t + 1, t + 1, next)
  BY <1>1, <1>2, <1>3, <1>4, Incr
<1>. QED BY <1>1, <1>2, <1>3, <1>4, <1>5, StepGrown

\* A value is pushed on top.
LEMMA StepIncr ==
  ASSUME Control, MayFail, Still, openupval' = openupval,
         NEW next \in TodoType, next.do \in {"run", "throw", "line", "err"}, incr_top(top, next)
  PROVE  Control'
<1>1. top \in Nat /\ stacksize \in Nat /\ base \in Nat
  BY Facts DEF Rest
<1>2. Above(top + 1) /\ top < top + 1
  BY <1>1 DEF Above
<1>3. PICK o : Result(o, top + 1 >= maxstack, 1) /\ Outcome(o, top + 1, top + 1, next)
  BY <1>1, Incr
<1>. QED BY <1>2, <1>3, StepGrown

LEMMA StepLine ==
  ASSUME Control, lj_debug_addloc
  PROVE  Control'
<1>. DEFINE next == Go("err")
<1>1. MayFail /\ next \in TodoType /\ next.do = "err"
  BY Facts, Goes DEF lj_debug_addloc, NextOther
<1>2. Still /\ openupval' = openupval /\ incr_top(top, next)
  BY DEF lj_debug_addloc, Still
<1>. HIDE DEF next
<1>. QED BY <1>1, <1>2, StepIncr

LEMMA StepPush ==
  ASSUME Control, Push
  PROVE  Control'
<1>1. MayFail /\ todo \in TodoType /\ todo.do = "run"
  BY Facts DEF Push, Running, Rest, MayFail
<1>2. Still /\ openupval' = openupval /\ incr_top(top, todo)
  BY DEF Push, Still
<1>. QED BY <1>1, <1>2, StepIncr

LEMMA StepErrorCp ==
  ASSUME Control, ErrorCp
  PROVE  Control'
<1>. DEFINE next == Go("throw")
<1>1. MayFail /\ next \in TodoType /\ next.do = "throw"
  BY Goes DEF ErrorCp, Running, MayFail
<1>2. Still /\ openupval' = openupval /\ incr_top(top, next)
  BY DEF ErrorCp, Still
<1>. HIDE DEF next
<1>. QED BY <1>1, <1>2, StepIncr

LEMMA StepSettop ==
  ASSUME Control, NEW n \in Nat, lua_settop(n)
  PROVE  Control'
<1>. DEFINE short == base + n > top /\ Grows(n)
            need == n - (top - base)
<1>1. /\ MayFail /\ todo \in TodoType /\ todo.do = "run" /\ IsFrame(Innermost)
      /\ top \in Nat /\ base \in Nat /\ stacksize \in Nat
  BY Facts DEF lua_settop, Running, Rest, MayFail, IsFrame, FrameKinds
<1>2. Still /\ openupval' = openupval
  BY DEF lua_settop, Still
<1>3. PICK o \in Checked(short, need) : GoOn(o, top, base + n, todo)
  BY DEF lua_settop
<1>4. short => need \in Nat
  BY <1>1
<1>. HIDE DEF short, need
<1>5. Result(o, short, need)
  BY <1>1, <1>3, <1>4, Checks
<1>6. base + n \in Nat
  BY <1>1
<1>7. Outcome(o, top, base + n, todo)
  BY <1>1, <1>3, <1>5, <1>6, GoesOn
<1>8. Above(top) /\ Above(base + n)
  BY <1>1, <1>6 DEF Above
<1>. QED BY <1>1, <1>2, <1>5, <1>7, <1>8, StepGrown

LEMMA StepCheckstack ==
  ASSUME Control, NEW n \in Nat, lua_checkstack(n)
  PROVE  Control'
<1>1. /\ MayFail /\ todo \in TodoType /\ todo.do = "run" /\ top \in Nat /\ stacksize \in Nat
  BY Facts DEF lua_checkstack, Running, Rest, MayFail
<1>2. Still /\ openupval' = openupval
  BY DEF lua_checkstack, Still
<1>3. PICK o \in growstack(n) : GoOn(o, top, top, todo)
  BY DEF lua_checkstack
<1>4. o \in Checked(TRUE, n)
  BY <1>3 DEF Checked
<1>5. Result(o, TRUE, n)
  BY <1>1, <1>4, Checks
<1>6. Outcome(o, top, top, todo)
  BY <1>1, <1>3, <1>5, GoesOn
<1>7. Above(top)
  BY <1>1 DEF Above
<1>. QED BY <1>1, <1>2, <1>5, <1>6, <1>7, StepGrown

\* Nothing moves.
Stays == Still /\ top' = top /\ stacksize' = stacksize

LEMMA StepErrorLua ==
  ASSUME Control, ErrorLua
  PROVE  Control'
<1>1. /\ MayFail /\ Stays /\ openupval' = openupval /\ todo' = Go("msg")
  BY DEF ErrorLua, Running, MayFail, Stays, Still
<1>2. /\ todo' \in TodoType /\ todo'.do = "msg"
  BY <1>1, Goes
<1>. QED BY <1>1, <1>2, Facts, StepSame DEF Stays, Still, Rest

LEMMA StepLuaError ==
  ASSUME Control, lua_error
  PROVE  Control'
<1>1. /\ MayFail /\ Stays /\ openupval' = openupval /\ todo' = Go("err") /\ top > base /\ IsFrame(Innermost)
  BY DEF lua_error, Running, MayFail, Stays, Still, IsFrame, FrameKinds
<1>2. /\ todo' \in TodoType /\ todo'.do = "err"
  BY <1>1, Goes
<1>. QED BY <1>1, <1>2, Facts, StepSame DEF Stays, Still, Rest

LEMMA StepTraverse ==
  ASSUME Control, gc_traverse_thread
  PROVE  Control'
<1>1. /\ todo \in TodoType /\ todo.do = "run" /\ MayFail /\ top \in Nat /\ stacksize \in Nat
  BY Facts DEF gc_traverse_thread, NextOther, Rest
<1>2. stacksize' \in Nat
  BY <1>1, StackConstants DEF gc_traverse_thread, resizestack
<1>3. Still /\ top' = top /\ openupval' = openupval /\ todo' = todo
  BY DEF gc_traverse_thread, Still
<1>. QED BY <1>1, <1>2, <1>3, Facts, StepSame DEF Still, Rest

LEMMA StepOpenUpvalue ==
  ASSUME Control, OpenUpvalue
  PROVE  Control'
<1>1. /\ todo.do = "run" /\ Innermost.k = "lua" /\ Still /\ top' = top /\ stacksize' = stacksize /\ todo' = todo
      /\ openupval' = openupval \cup {base}
  BY DEF OpenUpvalue, Running, Still
<1>2. Shape(base, frames, cframe, openupval, calls)'
  <2>1. UpLive(openupval', calls)
    <3>1. Innermost.k = "lua" /\ base = Innermost.f + 1 /\ UpLive(openupval, calls) /\ Len(calls) \in 1 .. Len(calls)
      <4>1. UpLive(openupval, calls)
        BY Facts DEF Shape
      <4>2. base = Innermost.f + 1 /\ Len(calls) \in 1 .. Len(calls)
        BY Facts
      <4>. QED BY <1>1, <4>1, <4>2
    <3>2. \A u \in openupval' : u \in openupval \/ u = base
      BY <1>1
    <3>. QED BY <3>1, <3>2 DEF UpLive, Innermost
  <2>. QED BY <2>1, <1>1, Facts DEF Shape, Still
<1>3. Rest'
  BY <1>1, Facts DEF Rest, Still
<1>4. NextCall' /\ NextOther' /\ TopAbove'
  BY <1>1, Facts DEF NextCall, NextOther, TopAbove, MayFail, Still, Innermost
<1>. QED BY <1>2, <1>3, <1>4, ControlFrom

\* A function of those that are active is about to call or to return.
LEMMA StepNext ==
  ASSUME Control, Stays, openupval' \subseteq openupval, todo' \in TodoType,
         todo'.do \in {"call", "return"}, NextCall', NextOther'
  PROVE  Control'
<1>1. Shape(base, frames, cframe, openupval, calls)'
  BY Facts DEF Shape, UpLive, Stays, Still
<1>2. Rest'
  BY Facts DEF Rest, Stays, Still
<1>3. TopAbove'
  BY Facts DEF TopAbove, Stays, Still
<1>. QED BY <1>1, <1>2, <1>3, ControlFrom

LEMMA CallingTyped ==
  ASSUME NEW f \in Nat, NEW typ \in {"LUA", "C", "CP", "CONT", "PCALL"}, NEW n \in Nat, NEW fs \in Kinds
  PROVE  /\ Calling(f, typ, n, fs) \in TodoType /\ Calling(f, typ, n, fs).do = "call"
         /\ Calling(f, typ, n, fs).f = f /\ Calling(f, typ, n, fs).typ = typ
         /\ Calling(f, typ, n, fs).n = n /\ Calling(f, typ, n, fs).fs = fs
BY DEF Calling, TodoType

LEMMA StepLuaCalls ==
  ASSUME Control, Innermost.k = "lua", Stays, openupval' = openupval,
         NEW f \in Nat, base <= f, NEW typ \in {"LUA", "CONT"}, NEW n \in Nat, NEW fs \in Kinds,
         todo' = Calling(f, typ, n, fs)
  PROVE  Control'
<1>1. todo' \in TodoType /\ todo'.do = "call" /\ todo'.f = f /\ todo'.typ = typ
  BY CallingTyped
<1>2. ASSUME NEW i \in 1 .. Len(calls), calls[i].k = "cp" PROVE Bot(cframe, calls[i]) <= f
  BY <1>2, BotBelow, Facts DEF IsFrame, FrameKinds
<1>3. NextCall'
  BY <1>1, <1>2 DEF NextCall, Stays, Still, Innermost
<1>4. NextOther'
  BY <1>1 DEF NextOther
<1>. QED BY <1>1, <1>3, <1>4, StepNext

LEMMA StepCallLua ==
  ASSUME Control, CallLua
  PROVE  Control'
<1>1. PICK f \in {base + 1, top - 1} \cap base + 1 .. top - 1, fs \in Kinds : todo' = Calling(f, "LUA", 0, fs)
  BY DEF CallLua
<1>2. Innermost.k = "lua" /\ Stays /\ openupval' = openupval
  BY DEF CallLua, Running, Stays, Still
<1>3. base \in Nat /\ top \in Nat /\ f \in base + 1 .. top - 1
  BY <1>1, Facts DEF Rest
<1>4. f \in Nat /\ base <= f
  BY <1>3
<1>. QED BY <1>1, <1>2, <1>4, StepLuaCalls

LEMMA StepCallMeta ==
  ASSUME Control, CallMeta
  PROVE  Control'
<1>1. PICK fs \in Kinds : todo' = Calling(top + 1, "CONT", 2, fs)
  BY DEF CallMeta
<1>2. Innermost.k = "lua" /\ Stays /\ openupval' = openupval
  BY DEF CallMeta, Running, Stays, Still
<1>3. top + 1 \in Nat /\ base <= top + 1
  BY Facts DEF Rest, TopAbove
<1>. QED BY <1>1, <1>2, <1>3, StepLuaCalls

LEMMA ReturningTyped ==
  ASSUME NEW n \in Nat
  PROVE  Returning(n) \in TodoType /\ Returning(n).do = "return" /\ Returning(n).n = n
BY DEF Returning, Go, TodoType, Kinds

LEMMA StepReturn ==
  ASSUME Control, Stays, openupval' \subseteq openupval, \A u \in openupval' : u < base,
         IsFrame(Innermost), base > 1, NEW n \in Nat, todo' = Returning(n)
  PROVE  Control'
<1>1. todo' \in TodoType /\ todo'.do = "return"
  BY ReturningTyped
<1>2. NextCall' /\ NextOther'
  BY <1>1 DEF NextCall, NextOther, Stays, Still, Innermost
<1>. QED BY <1>1, <1>2, StepNext

LEMMA StepReturnLua ==
  ASSUME Control, ReturnLua
  PROVE  Control'
<1>1. Innermost.k = "lua" /\ Stays /\ openupval' \subseteq openupval /\ todo' = Returning(0)
      /\ \A u \in openupval' : u < base
  BY DEF ReturnLua, Running, Stays, Still
<1>2. base > 1
  <2>1. base - 1 # 0 /\ base \in Nat \ {0}
    BY <1>1, InnermostSized, Facts DEF framesize
  <2>. QED BY <2>1
<1>. QED BY <1>1, <1>2, StepReturn DEF IsFrame, FrameKinds

\* Upvalues are those of Lua functions.
UpsBelow(b, ups, cs, i) ==
  \A u \in ups : /\ u \in Nat
                 /\ u <= b
                 /\ IsFrame(cs[i]) /\ cs[i].k # "lua" => u <= cs[i].f \/ u > cs[i].f + 1
                 /\ IsFrame(cs[i]) /\ i # 1 /\ u <= cs[i].f => u <= cs[i - 1].f + 1

LEMMA UpBelow ==
  ASSUME NEW b, NEW fr, NEW cf, NEW ups, NEW cs, Shape(b, fr, cf, ups, cs), NEW i \in 1 .. Len(cs)
  PROVE  UpsBelow(b, ups, cs, i)
<1>. SUFFICES ASSUME NEW u \in ups
     PROVE  /\ u \in Nat
            /\ u <= b
            /\ IsFrame(cs[i]) /\ cs[i].k # "lua" => u <= cs[i].f \/ u > cs[i].f + 1
            /\ IsFrame(cs[i]) /\ i # 1 /\ u <= cs[i].f => u <= cs[i - 1].f + 1
  BY DEF UpsBelow
<1>1. /\ Ordered(cs) /\ Here(b, cf, cs) /\ UpLive(ups, cs) /\ Len(cs) \in 1 .. Len(cs) /\ b \in Nat
      /\ \A j \in 1 .. Len(cs) : cs[j].f \in Nat
  <2>1. Typed(b, fr, cf, cs) /\ Ordered(cs) /\ Here(b, cf, cs) /\ UpLive(ups, cs)
    BY DEF Shape
  <2>2. Len(cs) \in Nat /\ \A j \in 1 .. Len(cs) : cs[j].f \in Nat
    BY <2>1, CallsTyped
  <2>3. Len(cs) >= 1 /\ b \in Nat
    BY <2>1 DEF Typed
  <2>. QED BY <2>1, <2>2, <2>3
<1>2. PICK j \in 1 .. Len(cs) : cs[j].k = "lua" /\ u = cs[j].f + 1
  BY <1>1 DEF UpLive
<1>3. u \in Nat /\ u <= b
  BY <1>1, <1>2 DEF Ordered, Here
<1>4. IsFrame(cs[j]) /\ (j < i \/ j = i \/ i < j)
  BY <1>2 DEF IsFrame, FrameKinds
<1>5. IsFrame(cs[i]) /\ cs[i].k # "lua" => u <= cs[i].f \/ u > cs[i].f + 1
  BY <1>1, <1>2, <1>4 DEF Ordered
<1>6. IsFrame(cs[i]) /\ i # 1 /\ u <= cs[i].f => u <= cs[i - 1].f + 1
  <2>. SUFFICES ASSUME IsFrame(cs[i]), i # 1, u <= cs[i].f PROVE u <= cs[i - 1].f + 1
    OBVIOUS
  <2>1. j < i
    BY <1>1, <1>2, <1>4 DEF Ordered
  <2>2. i - 1 \in 1 .. Len(cs) /\ (j = i - 1 \/ j < i - 1)
    BY <2>1
  <2>. QED BY <2>2, <1>1, <1>2 DEF Ordered
<1>. QED BY <1>3, <1>5, <1>6

LEMMA StepReturnC ==
  ASSUME Control, ReturnC
  PROVE  Control'
<1>1. PICK n \in {0, 1} : todo' = Returning(n)
  BY DEF ReturnC
<1>2. Innermost.k = "c" /\ Stays /\ openupval' = openupval /\ base > 1
  BY DEF ReturnC, Running, Stays, Still
<1>3. \A u \in openupval : u < base
  <2>1. /\ Shape(base, frames, cframe, openupval, calls) /\ Len(calls) \in 1 .. Len(calls)
        /\ calls[Len(calls)].f = base - 1 /\ calls[Len(calls)].k = "c" /\ base \in Nat
    BY <1>2, Facts, InnermostSized DEF Innermost
  <2>2. IsFrame(calls[Len(calls)])
    BY <2>1 DEF IsFrame, FrameKinds
  <2>3. \A u \in openupval : u \in Nat /\ u <= base /\ (u <= base - 1 \/ u > base)
    <3>. DEFINE i == Len(calls)
    <3>1. i \in 1 .. Len(calls) /\ IsFrame(calls[i]) /\ calls[i].k # "lua" /\ calls[i].f = base - 1
      BY <2>1, <2>2
    <3>. HIDE DEF i
    <3>2. \A u \in openupval : u \in Nat /\ u <= base /\ (u <= calls[i].f \/ u > calls[i].f + 1)
      <4>1. UpsBelow(base, openupval, calls, i)
        BY <2>1, <3>1, UpBelow
      <4>. QED BY <3>1, <4>1 DEF UpsBelow
    <3>. QED BY <3>1, <3>2, <2>1
  <2>. QED BY <2>1, <2>3
<1>. QED BY <1>1, <1>2, <1>3, StepReturn DEF IsFrame, FrameKinds

(***************************************************************************)
(* Steps that push calls.                                                  *)
(***************************************************************************)
LEMMA StepPcall ==
  ASSUME Control, Pcall
  PROVE  Control'
<1>1. PICK xp \in BOOLEAN, fs \in Kinds :
        LET skip == IF xp THEN 2 ELSE 1
        IN  \E p \in {base + 1, top - 1 - skip} :
              /\ p > base /\ p + skip < top
              /\ base' = p + 1
              /\ frames' = Linked(p, "LUA", 0, xp)
              /\ calls' = Append(calls, [Active("ff", p, Len(cframe)) EXCEPT
                                           !.prot = TRUE, !.h = IF xp THEN p + 1 ELSE 0])
              /\ todo' = Calling(p + skip, "PCALL", 0, fs)
  BY DEF Pcall
<1>. DEFINE skip == IF xp THEN 2 ELSE 1
<1>2. PICK p \in {base + 1, top - 1 - skip} :
              /\ p > base /\ p + skip < top
              /\ base' = p + 1
              /\ frames' = Linked(p, "LUA", 0, xp)
              /\ calls' = Append(calls, [Active("ff", p, Len(cframe)) EXCEPT
                                           !.prot = TRUE, !.h = IF xp THEN p + 1 ELSE 0])
              /\ todo' = Calling(p + skip, "PCALL", 0, fs)
  BY <1>1
<1>3. /\ Innermost.k = "lua" /\ UNCHANGED <<top, stacksize, cframe, status, openupval>>
      /\ base \in Nat /\ base > 0 /\ top \in Nat /\ skip \in {1, 2} /\ Len(cframe) \in Nat /\ Len(calls) \in Nat
  BY Facts DEF Pcall, Running, Rest
<1>4. p \in Nat /\ base < p /\ p + skip \in Nat /\ p < p + skip /\ p + skip < top
  BY <1>2, <1>3
<1>. DEFINE h == IF xp THEN p + 1 ELSE 0
            a == [Active("ff", p, Len(cframe)) EXCEPT !.prot = TRUE, !.h = h]
<1>5. /\ a \in CallType /\ a.k = "ff" /\ a.f = p /\ a.c = Len(cframe) /\ a.prot /\ a.h = h
      /\ a.after = "continue"
  <2>. DEFINE x == Active("ff", p, Len(cframe))
  <2>1. x \in CallType /\ x.k = "ff" /\ x.f = p /\ x.c = Len(cframe) /\ x.after = "continue"
    BY <1>3, <1>4 DEF Active, CallType
  <2>2. h \in Nat
    BY <1>4
  <2>. HIDE DEF x, h
  <2>3. [x EXCEPT !.prot = TRUE, !.h = h] \in CallType
    BY <2>1, <2>2 DEF CallType
  <2>4. a.k = x.k /\ a.f = x.f /\ a.c = x.c /\ a.h = h /\ a.after = x.after /\ a.prot
    BY <2>1 DEF x, CallType
  <2>. QED BY <2>1, <2>3, <2>4 DEF x
<1>6. calls' = Append(calls, a)
  BY <1>2
<1>. HIDE DEF a
<1>7. ASSUME NEW i \in 1 .. Len(calls), calls[i].k = "cp"
      PROVE  Bot(cframe, calls[i]) <= p /\ Bot(cframe, calls[i]) \in Int
  <2>1. Bot(cframe, calls[i]) <= base - 1 /\ Bot(cframe, calls[i]) \in Int
    BY <1>3, <1>7, BotBelow DEF IsFrame, FrameKinds
  <2>. QED BY <2>1, <1>3, <1>4
<1>8. FrameFits(a, "LUA", 0, xp)
  <2>1. PcallLink(a, "LUA", 0, xp)
    BY <1>3, <1>5 DEF PcallLink
  <2>. QED BY <2>1, <1>3, <1>4, <1>5, <1>7 DEF FrameFits, Kinds
<1>9. /\ Shape(base, frames, cframe, openupval, calls)'
      /\ Len(calls') = Len(calls) + 1 /\ Innermost' = a
      /\ \A i \in 1 .. Len(calls) : calls'[i] = calls[i]
  <2>1. base' = a.f + 1 /\ frames' = Linked(a.f, "LUA", 0, xp)
    BY <1>2, <1>5
  <2>. QED BY <2>1, <1>3, <1>6, <1>8, FrameShape
<1>10. todo' \in TodoType /\ todo'.do = "call" /\ todo'.f = p + skip /\ todo'.typ = "PCALL"
  BY <1>2, <1>4, CallingTyped
<1>. HIDE DEF skip
<1>11. Rest'
  BY <1>3, <1>10, Facts DEF Rest
<1>12. ASSUME NEW i \in 1 .. Len(calls'), calls'[i].k = "cp" PROVE Bot(cframe', calls'[i]) <= p
  <2>1. i \in 1 .. Len(calls) /\ calls'[i] = calls[i]
    BY <1>3, <1>5, <1>9, <1>12 DEF Innermost
  <2>. QED BY <2>1, <1>3, <1>7, <1>12
<1>13. ASSUME NEW i \in 1 .. Len(calls'), calls'[i].k = "cp" PROVE Bot(cframe', calls'[i]) \in Int
  <2>1. i \in 1 .. Len(calls) /\ calls'[i] = calls[i]
    BY <1>3, <1>5, <1>9, <1>13 DEF Innermost
  <2>. QED BY <2>1, <1>3, <1>7, <1>13
<1>14. NextCall'
  <2>1. base' <= todo'.f
    BY <1>2, <1>3, <1>4, <1>10
  <2>2. ASSUME NEW i \in 1 .. Len(calls'), calls'[i].k = "cp" PROVE Bot(cframe', calls'[i]) <= todo'.f
    BY <2>2, <1>3, <1>4, <1>10, <1>12, <1>13
  <2>. QED BY <2>1, <2>2, <1>5, <1>9, <1>10 DEF NextCall, Bot
<1>15. NextOther'
  BY <1>10 DEF NextOther
<1>16. TopAbove'
  <2>1. base' <= top' /\ todo'.do # "err"
    BY <1>2, <1>3, <1>4, <1>10
  <2>2. ASSUME NEW i \in 1 .. Len(calls'), calls'[i].k = "cp" PROVE Bot(cframe', calls'[i]) <= top'
    BY <2>2, <1>3, <1>4, <1>12, <1>13
  <2>. QED BY <2>1, <2>2 DEF TopAbove, Bot
<1>. QED BY <1>9, <1>11, <1>14, <1>15, <1>16, ControlFrom

\* C code finds its top above its bottom.
LEMMA AboveTop ==
  ASSUME Control, NEW t \in Nat, top <= t
  PROVE  base <= t /\ \A i \in 1 .. Len(calls) : calls[i].k = "cp" => Bot(cframe, calls[i]) <= t
<1>1. base \in Nat /\ top \in Nat /\ base <= top
  BY Facts DEF Rest, TopAbove
<1>2. ASSUME NEW i \in 1 .. Len(calls), calls[i].k = "cp" PROVE Bot(cframe, calls[i]) <= t
  <2>1. Bot(cframe, calls[i]) <= top /\ Bot(cframe, calls[i]) \in Int
    BY <1>2, Facts, BotBelow DEF TopAbove
  <2>. QED BY <2>1, <1>1
<1>. QED BY <1>1, <1>2

LEMMA InnermostLink ==
  ASSUME Control
  PROVE  /\ Len(calls) # 1 => /\ Len(calls) - 1 \in 1 .. Len(calls)
                              /\ Link(frames, cframe, Innermost, calls[Len(calls) - 1])
         /\ Len(calls) = 1 => \/ Innermost = Active("c", 0, 0)
                              \/ Innermost = [Active("enter", 0, 1) EXCEPT !.prot = TRUE]
<1>1. Linkage(frames, cframe, calls) /\ First(cframe, calls) /\ Len(calls) \in Nat \ {0}
  BY Facts DEF Shape
<1>2. ASSUME Len(calls) # 1
      PROVE  Len(calls) - 1 \in 1 .. Len(calls) /\ Link(frames, cframe, Innermost, calls[Len(calls) - 1])
  <2>1. Len(calls) \in 2 .. Len(calls) /\ Len(calls) - 1 \in 1 .. Len(calls)
    BY <1>1, <1>2
  <2>. QED BY <1>1, <2>1 DEF Linkage, Innermost
<1>. QED BY <1>1, <1>2 DEF First, Innermost

LEMMA BottomAt ==
  ASSUME Control, Innermost.k \in {"c", "cp"}
  PROVE  /\ Bottom \in Nat /\ base <= Bottom
         /\ Innermost.k = "cp" => Bottom = Bot(cframe, Innermost)
<1>1. CASE Innermost.k = "c"
  BY <1>1, Facts DEF Bottom
<1>2. CASE Innermost.k = "cp"
  <2>1. Len(calls) \in 1 .. Len(calls) /\ Len(calls) # 1
    BY <1>2, InnermostLink, InnermostSized DEF Active
  <2>2. CpLink(cframe, Innermost, calls[Len(calls) - 1])
    BY <2>1, <1>2, InnermostLink DEF Link
  <2>3. Bot(cframe, Innermost) \in Int
    BY <2>1, <1>2, BotBelow DEF Innermost
  <2>4. Bottom = Bot(cframe, Innermost)
    BY <1>2, Facts DEF Bottom, Bot
  <2>. QED BY <2>2, <2>3, <2>4, <1>2, Facts DEF CpLink, Bot
<1>. QED BY <1>1, <1>2

\* The bottom of the C code that is active is above those outside.
LEMMA AboveBot ==
  ASSUME Control, Innermost.k \in {"c", "cp"}, NEW t \in Nat, t >= Bottom
  PROVE  base <= t /\ \A i \in 1 .. Len(calls) : calls[i].k = "cp" => Bot(cframe, calls[i]) <= t
<1>1. base \in Nat /\ Len(calls) \in Nat \ {0} /\ Innermost.f = base - 1 /\ Innermost.c = Len(cframe)
      /\ Shape(base, frames, cframe, openupval, calls)
  BY Facts
<1>2. CASE Innermost.k = "c"
  <2>1. Bottom = base
    BY <1>2 DEF Bottom
  <2>2. ASSUME NEW i \in 1 .. Len(calls), calls[i].k = "cp" PROVE Bot(cframe, calls[i]) <= t
    <3>1. Bot(cframe, calls[i]) <= base - 1 /\ Bot(cframe, calls[i]) \in Int
      BY <1>2, <2>2, BotBelow DEF IsFrame, FrameKinds
    <3>. QED BY <3>1, <2>1, <1>1
  <2>. QED BY <2>1, <2>2
<1>3. CASE Innermost.k = "cp"
  <2>1. Bottom = Bot(cframe, Innermost)
    BY <1>3, BottomAt
  <2>2. Len(calls) \in 1 .. Len(calls) /\ calls[Len(calls)] = Innermost
    BY <1>1 DEF Innermost
  <2>3. Bot(cframe, Innermost) \in Int
    BY <2>2, <1>3, BotBelow
  <2>4. base <= Bot(cframe, Innermost)
    BY <2>1, BottomAt
  <2>5. ASSUME NEW i \in 1 .. Len(calls), calls[i].k = "cp" PROVE Bot(cframe, calls[i]) <= t
    <3>1. i = Len(calls) \/ Bot(cframe, calls[i]) <= Bot(cframe, Innermost)
      BY <2>5, <2>2, <1>1, <1>3 DEF Shape, AboveBottom
    <3>2. Bot(cframe, calls[i]) \in Int
      BY <2>5, BotBelow
    <3>. QED BY <3>1, <3>2, <2>1, <2>2, <2>3
  <2>. QED BY <2>1, <2>3, <2>4, <2>5, <1>1
<1>. QED BY <1>2, <1>3

LEMMA StepLuaCall ==
  ASSUME Control, OneResult, lua_call
  PROVE  Control'
<1>1. PICK fs \in Kinds, w \in NRes : Enter(top - 1, "C", 0, w, "continue", 0, fs)
  BY DEF lua_call
<1>2. /\ Innermost.k \in {"c", "cp"} /\ top > Bottom /\ UNCHANGED <<base, top, stacksize, frames, status, openupval>>
      /\ w \in {0, 1} /\ MayFail /\ Innermost.k # "lua"
  BY <1>1 DEF lua_call, Running, OneResult, MayFail
<1>3. top - 1 \in Nat /\ top - 1 >= Bottom
  <2>1. Bottom \in Nat
    BY <1>2, BottomAt
  <2>. QED BY <2>1, <1>2, Facts DEF Rest
<1>4. base <= top - 1 /\ \A i \in 1 .. Len(calls) : calls[i].k = "cp" => Bot(cframe, calls[i]) <= top - 1
  BY <1>2, <1>3, AboveBot
<1>. QED BY <1>1, <1>2, <1>3, <1>4, Facts, StepEnter DEF Rest

LEMMA StepLuaPcall ==
  ASSUME Control, OneResult, lua_pcall
  PROVE  Control'
<1>1. PICK fs \in Kinds, w \in NRes, h \in {0} \cup (IF top - 1 > base THEN {base} ELSE {}) :
        Enter(top - 1, "CP", h, w, "continue", 0, fs)
  BY DEF lua_pcall
<1>2. /\ Innermost.k = "c" /\ top > base /\ UNCHANGED <<base, top, stacksize, frames, status, openupval>>
      /\ w \in {0, 1} /\ MayFail /\ base \in Nat /\ top \in Nat /\ status \in {"ok", "errerr"}
  BY <1>1, Facts DEF lua_pcall, Running, OneResult, MayFail, Rest
<1>3. top - 1 \in Nat /\ top - 1 >= Bottom /\ h \in Nat /\ h # -1
  BY <1>1, <1>2 DEF Bottom
<1>4. base <= top - 1 /\ \A i \in 1 .. Len(calls) : calls[i].k = "cp" => Bot(cframe, calls[i]) <= top - 1
  BY <1>2, <1>3, AboveBot
<1>. QED BY <1>1, <1>2, <1>3, <1>4, StepEnter

LEMMA StepFinalizer ==
  ASSUME Control, gc_call_finalizer
  PROVE  Control'
<1>1. PICK fs \in Kinds : Enter(top, "CP", -1, 0, "finalizer", 1, fs)
  BY DEF gc_call_finalizer
<1>2. /\ MayFail /\ UNCHANGED <<base, top, stacksize, frames, status, openupval>>
      /\ top \in Nat /\ status \in {"ok", "errerr"}
  BY Facts DEF gc_call_finalizer, Rest, NextOther
<1>3. base <= top /\ \A i \in 1 .. Len(calls) : calls[i].k = "cp" => Bot(cframe, calls[i]) <= top
  BY <1>2, AboveTop
<1>. QED BY <1>1, <1>2, <1>3, StepEnter

LEMMA StepErrRun ==
  ASSUME Control, lj_err_run
  PROVE  Control'
<1>1. todo.do = "err" /\ MayFail /\ top \in Nat /\ base \in Nat /\ base < top
  BY Facts DEF lj_err_run, NextOther, TopAbove, Rest
<1>2. CASE RunsHandler
  <2>1. PICK fs \in Kinds : Enter(top - 1, "C", 0, 1, "errhandler", 1, fs)
    BY <1>2 DEF lj_err_run, Kinds
  <2>2. status' = "errerr" /\ UNCHANGED <<base, top, stacksize, frames, openupval>>
    BY <1>2 DEF lj_err_run
  <2>3. top - 1 \in Nat /\ base <= top - 1
    BY <1>1
  <2>4. ASSUME NEW i \in 1 .. Len(calls), calls[i].k = "cp" PROVE Bot(cframe, calls[i]) <= top - 1
    <3>1. Bot(cframe, calls[i]) < top /\ Bot(cframe, calls[i]) \in Int
      BY <2>4, <1>1, Facts, BotBelow DEF TopAbove
    <3>. QED BY <3>1, <1>1
  <2>. QED BY <2>1, <2>2, <2>3, <2>4, <1>1, StepEnter
<1>3. CASE ~RunsHandler
  <2>1. todo' = Go("throw") /\ Stays /\ openupval' = openupval
    BY <1>3 DEF lj_err_run, Stays, Still
  <2>2. todo' \in TodoType /\ todo'.do = "throw"
    BY <2>1, Goes
  <2>. QED BY <2>1, <2>2, <1>1, Facts, StepSame DEF Stays, Still, Rest
<1>. QED BY <1>2, <1>3

LEMMA StepCpcall ==
  ASSUME Control, lua_cpcall
  PROVE  Control'
<1>1. /\ Innermost.k = "c" /\ UNCHANGED <<base, stacksize, frames, status, openupval>> /\ MayFail
      /\ top \in Nat /\ base \in Nat /\ top <= base + 1 /\ status \in {"ok", "errerr"}
  BY Facts DEF lua_cpcall, Running, MayFail, Rest, Bottom
<1>2. CASE Enter(top, "CP", 0, 0, "continue", 1, 0) /\ UNCHANGED top
  <2>1. base <= top /\ \A i \in 1 .. Len(calls) : calls[i].k = "cp" => Bot(cframe, calls[i]) <= top
    BY <1>1, AboveTop
  <2>. QED BY <1>1, <1>2, <2>1, StepEnter DEF Kinds
<1>3. CASE MemFails /\ EnterCp(0) /\ top' = top + 1 /\ todo' = Go("throw")
  <2>1. todo' \in TodoType /\ todo'.do = "throw" /\ top' \in Nat /\ top <= top'
    BY <1>1, <1>3, Goes
  <2>. QED BY <1>1, <1>3, <2>1, StepEnterCp
<1>. QED BY <1>2, <1>3 DEF lua_cpcall

LEMMA StepLoad ==
  ASSUME Control, lua_load
  PROVE  Control'
<1>1. /\ Innermost.k = "c" /\ UNCHANGED <<base, top, stacksize, frames, status, openupval, todo>>
      /\ top \in Nat /\ base \in Nat /\ top <= base + 1 /\ EnterCp(-1)
      /\ todo \in TodoType /\ todo.do = "run"
  BY Facts DEF lua_load, Running, Rest, Bottom
<1>. QED BY <1>1, StepEnterCp

(***************************************************************************)
(* Steps that cut calls off.                                               *)
(***************************************************************************)
Cuts(m) ==
  /\ m \in 1 .. Len(calls)
  /\ base' = calls[m].f + 1 /\ IsCut(frames', frames, base')
  /\ cframe' = SubSeq(cframe, 1, calls[m].c) /\ calls' = Outer(m)
  /\ openupval' \subseteq openupval /\ \A u \in openupval' : u <= base'

LEMMA Cut ==
  ASSUME Control, NEW m, Cuts(m)
  PROVE  /\ Shape(base, frames, cframe, openupval, calls)'
         /\ Len(calls') = m /\ m \in 1 .. Len(calls) /\ m \in 1 .. m /\ Innermost' = calls[m]
         /\ \A i \in 1 .. m : i \in 1 .. Len(calls) /\ calls'[i] = calls[i]
         /\ \A i \in 1 .. m : calls[i].k = "cp" => Bot(cframe', calls[i]) = Bot(cframe, calls[i])
<1>1. m \in 1 .. Len(calls) /\ Shape(base, frames, cframe, openupval, calls)
  BY Facts DEF Cuts
<1>2. Shape(base', frames', cframe', openupval', SubSeq(calls, 1, m))
  BY <1>1, ShapeCut DEF Cuts
<1>3. Shape(base, frames, cframe, openupval, calls)'
  BY <1>2 DEF Cuts, Outer
<1>4. /\ Len(calls) \in Nat /\ m \in Nat /\ m \in 1 .. m /\ m \in 0 .. Len(calls) /\ calls \in Seq(CallType)
      /\ Len(cframe) \in Nat /\ cframe \in Seq(CframeType)
  BY <1>1, Facts
<1>5. Len(calls') = m /\ \A i \in 1 .. m : i \in 1 .. Len(calls) /\ calls'[i] = calls[i]
  <2>1. Len(SubSeq(calls, 1, m)) = m /\ \A i \in 1 .. m : SubSeq(calls, 1, m)[i] = calls[i]
    BY <1>4, CutOff
  <2>. QED BY <2>1, <1>4 DEF Cuts, Outer
<1>6. ASSUME NEW i \in 1 .. m, calls[i].k = "cp" PROVE Bot(cframe', calls[i]) = Bot(cframe, calls[i])
  <2>1. calls[i].c \in 1 .. Len(cframe')
    <3>1. CframesAre(cframe', calls')
      BY <1>3 DEF Shape
    <3>. QED BY <3>1, <1>5, <1>6 DEF CframesAre, IsEntry, Entries
  <2>2. calls[m].c \in 0 .. Len(cframe)
    <3>1. calls[m].c \in Nat
      BY <1>1, Facts
    <3>2. m = Len(calls) \/ calls[m].c <= calls[Len(calls)].c
      BY <1>1, <1>4 DEF Shape, Ordered
    <3>3. calls[Len(calls)].c = Len(cframe)
      BY Facts DEF Innermost
    <3>. QED BY <3>1, <3>2, <3>3, <1>4
  <2>3. \A c \in 1 .. calls[m].c : cframe'[c] = cframe[c]
    <3>1. \A c \in 1 .. calls[m].c : SubSeq(cframe, 1, calls[m].c)[c] = cframe[c]
      BY <1>4, <2>2, CutOff
    <3>. QED BY <3>1 DEF Cuts
  <2>4. Len(cframe') = calls[m].c
    <3>1. Len(SubSeq(cframe, 1, calls[m].c)) = calls[m].c
      BY <1>4, <2>2, CutOff
    <3>. QED BY <3>1 DEF Cuts
  <2>. QED BY <2>1, <2>3, <2>4 DEF Bot
<1>. QED BY <1>1, <1>3, <1>4, <1>5, <1>6 DEF Innermost

\* What is done after that.
LEMMA StepCut ==
  ASSUME Control, NEW m, Cuts(m), stacksize' \in Nat, status' \in {"ok", "errerr"},
         NEW t \in Nat, base' <= t, \A i \in 1 .. m : calls[i].k = "cp" => Bot(cframe, calls[i]) <= t,
         top' = t \/ top' = curr_top(base', frames, t) \/ top' = curr_top(base', frames', t),
         todo' \in TodoType,
         \/ todo'.do \in {"run", "throw"} /\ calls[m].k \in {"lua", "c", "cp"}
         \/ todo'.do = "return" /\ IsFrame(calls[m]) /\ base' > 1 /\ \A u \in openupval' : u < base'
  PROVE  Control'
<1>1. /\ Shape(base, frames, cframe, openupval, calls)'
      /\ Len(calls') = m /\ m \in 1 .. Len(calls) /\ m \in 1 .. m /\ Innermost' = calls[m]
      /\ \A i \in 1 .. m : i \in 1 .. Len(calls) /\ calls'[i] = calls[i]
      /\ \A i \in 1 .. m : calls[i].k = "cp" => Bot(cframe', calls[i]) = Bot(cframe, calls[i])
  BY Cut
<1>2. Shape(base', frames', cframe', openupval', calls')
  BY <1>1
<1>3. /\ framesize(frames', base' - 1) \in Nat /\ base' - 1 \in {0} \cup DOMAIN frames' /\ base' \in Nat
      /\ calls[m].k \in {"c", "ff", "cp"} => framesize(frames', base' - 1) = 0
  <2>1. base' \in Nat /\ calls'[m] = calls[m] /\ calls'[m].f = base' - 1
    BY <1>1, <1>2 DEF Shape, Typed, Here
  <2>. QED BY <2>1, <1>1, <1>2, Sized
<1>4. framesize(frames', base' - 1) = framesize(frames, base' - 1)
  <2>1. IsCut(frames', frames, base')
    BY DEF Cuts
  <2>. QED BY <2>1, <1>3 DEF framesize, IsCut
<1>5. top' = t \/ (top' = base' + framesize(frames', base' - 1) /\ framesize(frames', base' - 1) > 0)
  BY <1>4 DEF curr_top
<1>6. top' \in Nat /\ base' <= top'
  BY <1>3, <1>5
<1>7. Rest'
  <2>1. openupval' \subseteq Nat
    BY Facts DEF Rest, Cuts
  <2>. QED BY <2>1, <1>6 DEF Rest
<1>8. NextCall'
  BY DEF NextCall
<1>9. NextOther'
  BY <1>1 DEF NextOther, MayFail
<1>10. TopAbove'
  <2>1. ASSUME NEW i \in 1 .. m, calls[i].k = "cp" PROVE Bot(cframe', calls[i]) <= top'
    <3>1. CASE top' = t
      BY <2>1, <3>1, <1>1
    <3>2. CASE top' # t
      <4>1. IsFrame(calls[m])
        BY <3>2, <1>3, <1>5 DEF IsFrame, FrameKinds
      <4>2. \A j \in 1 .. Len(calls') : calls'[j].k = "cp" =>
              /\ Bot(cframe', calls'[j]) \in Int
              /\ IsFrame(calls'[Len(calls')]) => Bot(cframe', calls'[j]) <= base' - 1
        BY <1>2, ShapeBots
      <4>3. Bot(cframe', calls[i]) \in Int /\ Bot(cframe', calls[i]) <= base' - 1
        BY <4>1, <4>2, <2>1, <1>1
      <4>. QED BY <4>3, <1>3, <1>6
    <3>. QED BY <3>1, <3>2
  <2>2. ASSUME NEW i \in 1 .. Len(calls'), calls'[i].k = "cp" PROVE Bot(cframe', calls'[i]) <= top'
    BY <2>1, <2>2, <1>1
  <2>3. todo'.do # "err"
    OBVIOUS
  <2>. QED BY <2>2, <2>3, <1>6 DEF TopAbove, Bot
<1>. QED BY <1>1, <1>7, <1>8, <1>9, <1>10, ControlFrom

\* No frame is between those of call m and the next.
LEMMA CutAt ==
  ASSUME Control, NEW m \in 1 .. Len(calls), NEW b \in Nat, calls[m].f < b,
         \A i \in m + 1 .. Len(calls) : IsFrame(calls[i]) => b <= calls[i].f
  PROVE  IsCut(Below(b), frames, calls[m].f + 1)
<1>1. /\ Ordered(calls) /\ FramesAre(frames, calls) /\ Typed(base, frames, cframe, calls) /\ Len(calls) \in Nat
      /\ \A i \in 1 .. Len(calls) : calls[i].f \in Nat
  BY Facts DEF Shape
<1>2. ASSUME NEW f \in DOMAIN frames PROVE f < b <=> f < calls[m].f + 1
  <2>1. PICK i \in 1 .. Len(calls) : IsFrame(calls[i]) /\ calls[i].f = f
    BY <1>1 DEF FramesAre
  <2>2. CASE i \in m + 1 .. Len(calls)
    <3>1. calls[m].f < calls[i].f /\ b <= calls[i].f
      BY <2>1, <2>2, <1>1 DEF Ordered
    <3>. QED BY <3>1, <2>1, <1>1
  <2>3. CASE i <= m
    <3>1. calls[i].f <= calls[m].f
      BY <2>1, <2>3, <1>1 DEF Ordered
    <3>. QED BY <3>1, <2>1, <1>1
  <2>. QED BY <2>2, <2>3, <1>1
<1>3. {g \in DOMAIN frames : g < b} = {g \in DOMAIN frames : g < calls[m].f + 1}
  BY <1>2
<1>. QED BY <1>3 DEF Below, IsCut

LEMMA LinkAt ==
  ASSUME Control, NEW i \in 1 .. Len(calls), i # 1
  PROVE  i - 1 \in 1 .. Len(calls) /\ Link(frames, cframe, calls[i], calls[i - 1])
<1>1. Linkage(frames, cframe, calls) /\ Len(calls) \in Nat
  BY Facts DEF Shape
<1>. QED BY <1>1 DEF Linkage

Host == /\ calls[1].k = "c" /\ calls[1].f = 0 /\ calls[1].c = 0 /\ ~calls[1].prot
Resumed == /\ calls[1].k = "enter" /\ calls[1].f = 0 /\ calls[1].c = 1 /\ calls[1].prot /\ calls[1].h = 0
           /\ calls[1].after = "continue" /\ cframe[1].yield /\ cframe[1].nres = 0 /\ cframe[1].errf = 0
LEMMA FirstIs ==
  ASSUME Control
  PROVE  Host \/ Resumed
<1>1. First(cframe, calls)
  BY Facts DEF Shape
<1>2. CASE calls[1] = Active("c", 0, 0)
  BY <1>2 DEF Active, Host
<1>3. CASE /\ calls[1] = [Active("enter", 0, 1) EXCEPT !.prot = TRUE]
           /\ cframe[1] = [nres |-> 0, errf |-> 0, yield |-> TRUE]
  BY <1>3 DEF Active, Resumed
<1>. QED BY <1>1, <1>2, <1>3 DEF First

\* The function that returns, and what has called it.
LEMMA Returns ==
  ASSUME Control, todo.do = "return"
  PROVE  /\ todo.n \in Nat /\ IsFrame(Innermost) /\ Len(calls) - 1 \in 1 .. Len(calls) /\ Len(calls) \in 2 .. Len(calls)
         /\ calls[Len(calls)].f = base - 1 /\ IsFrame(calls[Len(calls)])
         /\ prev(base - 1) = calls[Len(calls) - 1].f /\ calls[Len(calls) - 1].f < base - 1
         /\ calls[Len(calls) - 1].c = Len(cframe)
         /\ frames[base - 1].typ \in {"LUA", "CONT"} => calls[Len(calls) - 1].k = "lua"
         /\ frames[base - 1].typ = "PCALL" => calls[Len(calls) - 1].k = "ff"
         /\ frames[base - 1].typ \in {"C", "CP"} => calls[Len(calls) - 1].k = "enter" /\ Innermost.k # "ff"
<1>1. /\ todo.n \in Nat /\ IsFrame(Innermost) /\ base > 1 /\ Innermost.f = base - 1 /\ Innermost.c = Len(cframe)
      /\ base \in Nat /\ Len(calls) \in Nat \ {0}
  BY Facts DEF NextOther, Rest, TodoType
<1>2. Len(calls) # 1
  BY <1>1, InnermostLink DEF Active
<1>3. /\ Len(calls) - 1 \in 1 .. Len(calls) /\ Len(calls) \in 2 .. Len(calls)
      /\ Link(frames, cframe, Innermost, calls[Len(calls) - 1])
  BY <1>1, <1>2, InnermostLink
<1>4. calls[Len(calls) - 1].f < base - 1 /\ calls[Len(calls) - 1].f \in Nat
  <2>1. Ordered(calls) /\ Len(calls) - 1 < Len(calls) /\ Len(calls) \in 1 .. Len(calls)
    BY <1>1, Facts DEF Shape
  <2>. QED BY <2>1, <1>1, <1>3, Facts DEF Ordered, Innermost
<1>. DEFINE a == Innermost
            e == calls[Len(calls) - 1]
<1>5. Link(frames, cframe, a, e) /\ a.f = base - 1 /\ IsFrame(a) /\ a.c = Len(cframe) /\ e.f < base - 1 /\ e.f \in Nat
  BY <1>1, <1>3, <1>4
<1>. HIDE DEF a, e
<1>6. FuncLink(frames, a, e) \/ FfLink(frames, a, e)
  BY <1>5 DEF Link, IsFrame, FrameKinds
<1>7. /\ frames[base - 1].delta = base - 1 - e.f /\ e.c = Len(cframe)
      /\ frames[base - 1].typ \in {"LUA", "CONT"} => e.k = "lua"
      /\ frames[base - 1].typ = "PCALL" => e.k = "ff"
      /\ frames[base - 1].typ \in {"C", "CP"} => e.k = "enter" /\ a.k # "ff"
  <2>1. CASE FuncLink(frames, a, e)
    <3>1. FfLink(frames, a, e) \/ a.k # "ff"
      BY <1>5 DEF Link
    <3>. QED BY <3>1, <2>1, <1>5 DEF FuncLink, FfLink
  <2>2. CASE FfLink(frames, a, e)
    BY <2>2, <1>5 DEF FfLink
  <2>. QED BY <1>6, <2>1, <2>2
<1>8. prev(base - 1) = e.f
  BY <1>1, <1>5, <1>7 DEF prev
<1>. QED BY <1>1, <1>3, <1>5, <1>7, <1>8 DEF e, a, Innermost

LEMMA StepReturnToLua ==
  ASSUME Control, ReturnToLua
  PROVE  Control'
<1>. DEFINE m == Len(calls) - 1
<1>1. /\ todo.n \in Nat /\ m \in 1 .. Len(calls) /\ Len(calls) \in Nat
      /\ calls[Len(calls)].f = base - 1 /\ prev(base - 1) = calls[m].f /\ calls[m].f < base - 1
      /\ calls[m].c = Len(cframe) /\ calls[m].k = "lua"
      /\ base \in Nat /\ top \in Nat /\ base <= top /\ calls[m].f \in Nat /\ cframe \in Seq(CframeType)
  BY Returns, Facts DEF ReturnToLua, Rest, TopAbove
<1>2. /\ base' = calls[m].f + 1 /\ frames' = Below(base - 1) /\ calls' = Outer(m)
      /\ top' = curr_top(base', frames', top) /\ todo' = Go("run")
      /\ UNCHANGED <<stacksize, cframe, status, openupval>>
  BY <1>1 DEF ReturnToLua, Unlinked
<1>3. \A i \in m + 1 .. Len(calls) : IsFrame(calls[i]) => base - 1 <= calls[i].f
  BY <1>1
<1>4. IsCut(frames', frames, base')
  <2>1. base - 1 \in Nat
    BY <1>1
  <2>. HIDE DEF m
  <2>. QED BY <2>1, <1>1, <1>2, <1>3, CutAt
<1>5. cframe' = SubSeq(cframe, 1, calls[m].c)
  <2>1. SubSeq(cframe, 1, Len(cframe)) = cframe
    BY <1>1
  <2>. QED BY <2>1, <1>1, <1>2
<1>6. \A u \in openupval' : u <= base'
  <2>. DEFINE i == Len(calls)
  <2>1. /\ i \in 1 .. Len(calls) /\ i # 1 /\ IsFrame(calls[i]) /\ calls[i].f = base - 1
        /\ Shape(base, frames, cframe, openupval, calls) /\ \A u \in openupval : u < base
    BY <1>1, Returns, Facts DEF ReturnToLua, NextOther
  <2>. HIDE DEF i
  <2>2. UpsBelow(base, openupval, calls, i)
    BY <2>1, UpBelow
  <2>3. \A u \in openupval : u <= calls[i - 1].f + 1
    BY <2>1, <2>2, <1>1 DEF UpsBelow
  <2>. QED BY <2>3, <1>2 DEF i
<1>. HIDE DEF m
<1>7. Cuts(m)
  BY <1>1, <1>2, <1>4, <1>5, <1>6 DEF Cuts
<1>8. /\ base' <= top /\ \A i \in 1 .. m : calls[i].k = "cp" => Bot(cframe, calls[i]) <= top
  <2>1. \A i \in 1 .. m : i \in 1 .. Len(calls)
    BY <1>1
  <2>. QED BY <2>1, <1>1, <1>2, Facts DEF TopAbove
<1>9. todo' \in TodoType /\ todo'.do = "run" /\ stacksize' \in Nat /\ status' \in {"ok", "errerr"}
  BY <1>2, Goes, Facts DEF Rest
<1>. QED BY <1>1, <1>2, <1>7, <1>8, <1>9, StepCut

LEMMA StepReturnToPcall ==
  ASSUME Control, ReturnToPcall
  PROVE  Control'
<1>. DEFINE m == Len(calls) - 1
<1>1. /\ todo.n \in Nat /\ m \in 1 .. Len(calls) /\ Len(calls) \in Nat
      /\ calls[Len(calls)].f = base - 1 /\ prev(base - 1) = calls[m].f /\ calls[m].f < base - 1
      /\ calls[m].c = Len(cframe) /\ calls[m].k = "ff"
      /\ base \in Nat /\ top \in Nat /\ base <= top /\ calls[m].f \in Nat /\ cframe \in Seq(CframeType)
  BY Returns, Facts DEF ReturnToPcall, Rest, TopAbove
<1>2. /\ base' = calls[m].f + 1 /\ frames' = Below(base - 1) /\ calls' = Outer(m)
      /\ todo' = Returning(todo.n + 1)
      /\ UNCHANGED <<top, stacksize, cframe, status, openupval>>
  BY <1>1 DEF ReturnToPcall, Unlinked
<1>3. \A i \in m + 1 .. Len(calls) : IsFrame(calls[i]) => base - 1 <= calls[i].f
  BY <1>1
<1>4. IsCut(frames', frames, base')
  <2>1. base - 1 \in Nat
    BY <1>1
  <2>. HIDE DEF m
  <2>. QED BY <2>1, <1>1, <1>2, <1>3, CutAt
<1>5. cframe' = SubSeq(cframe, 1, calls[m].c)
  <2>1. SubSeq(cframe, 1, Len(cframe)) = cframe
    BY <1>1
  <2>. QED BY <2>1, <1>1, <1>2
<1>6. \A u \in openupval : u \in Nat /\ u <= base'
  <2>. DEFINE i == Len(calls)
  <2>1. /\ i \in 1 .. Len(calls) /\ i # 1 /\ IsFrame(calls[i]) /\ calls[i].f = base - 1
        /\ Shape(base, frames, cframe, openupval, calls) /\ \A u \in openupval : u < base
    BY <1>1, Returns, Facts DEF ReturnToPcall, NextOther
  <2>. HIDE DEF i
  <2>2. UpsBelow(base, openupval, calls, i)
    BY <2>1, UpBelow
  <2>3. \A u \in openupval : u \in Nat /\ u <= calls[i - 1].f + 1
    BY <2>1, <2>2, <1>1 DEF UpsBelow
  <2>. QED BY <2>3, <1>2 DEF i
<1>. HIDE DEF m
<1>7. Cuts(m)
  BY <1>1, <1>2, <1>4, <1>5, <1>6 DEF Cuts
<1>8. /\ base' <= top /\ \A i \in 1 .. m : calls[i].k = "cp" => Bot(cframe, calls[i]) <= top
  <2>1. \A i \in 1 .. m : i \in 1 .. Len(calls)
    BY <1>1
  <2>. QED BY <2>1, <1>1, <1>2, Facts DEF TopAbove
<1>9. todo' \in TodoType /\ todo'.do = "return" /\ stacksize' \in Nat /\ status' \in {"ok", "errerr"}
  <2>1. todo.n + 1 \in Nat
    BY <1>1
  <2>. QED BY <2>1, <1>2, ReturningTyped, Facts DEF Rest
<1>10. IsFrame(calls[m]) /\ base' > 1 /\ \A u \in openupval' : u < base'
  <2>1. IsFrame(calls[m]) /\ calls[m].k # "lua" /\ m # 1
    BY <1>1, Facts DEF IsFrame, FrameKinds, Shape, First, Active
  <2>2. calls[m].f > 0
    <3>1. Ordered(calls) /\ 1 \in 1 .. Len(calls) /\ 1 < m /\ calls[1].f \in Nat
      BY <1>1, <2>1, Facts DEF Shape
    <3>. QED BY <3>1, <2>1, <1>1 DEF Ordered
  <2>3. UpsBelow(base, openupval, calls, m)
    BY <1>1, Facts, UpBelow
  <2>4. \A u \in openupval : u <= calls[m].f \/ u > calls[m].f + 1
    BY <2>1, <2>3 DEF UpsBelow
  <2>. QED BY <2>1, <2>2, <2>4, <1>1, <1>2, <1>6
<1>. QED BY <1>1, <1>2, <1>7, <1>8, <1>9, <1>10, StepCut

LEMMA StepLeaveCp ==
  ASSUME Control, LeaveCp
  PROVE  Control'
<1>. DEFINE m == Len(calls) - 1
<1>1. /\ Innermost.k = "cp" /\ cframe' = SubSeq(cframe, 1, Len(cframe) - 1) /\ calls' = Outer(m)
      /\ top' = Bottom + 1 /\ UNCHANGED <<base, stacksize, frames, status, openupval, todo>>
      /\ todo \in TodoType /\ todo.do = "run" /\ base \in Nat /\ Len(calls) \in Nat
  BY Facts DEF LeaveCp, Running, Rest
<1>2. m \in 1 .. Len(calls) /\ CpLink(cframe, Innermost, calls[m])
  BY <1>1, InnermostLink DEF Active, Link
<1>3. calls[m].k = "c" /\ calls[m].f = base - 1 /\ calls[m].c = Len(cframe) - 1 /\ calls[m].c \in Nat
  BY <1>2, Facts DEF CpLink
<1>4. IsCut(frames', frames, base')
  <2>1. \A f \in DOMAIN frames : f < base
    <3>1. ASSUME NEW f \in DOMAIN frames PROVE f < base
      <4>1. PICK i \in 1 .. Len(calls) : calls[i].f = f
        BY Facts DEF Shape, FramesAre
      <4>2. i = Len(calls) \/ calls[i].f <= calls[Len(calls)].f
        <5>1. Ordered(calls) /\ Len(calls) \in 1 .. Len(calls)
          BY <1>1, <1>2, Facts DEF Shape
        <5>. QED BY <5>1, <1>1 DEF Ordered
      <4>. QED BY <4>1, <4>2, Facts DEF Innermost
    <3>. QED BY <3>1
  <2>. QED BY <2>1, <1>1 DEF IsCut
<1>5. \A u \in openupval' : u <= base'
  BY <1>1, <1>2, Facts, UpBelow DEF UpsBelow
<1>. HIDE DEF m
<1>7. Cuts(m)
  BY <1>1, <1>2, <1>3, <1>4, <1>5 DEF Cuts
<1>8. /\ Bottom + 1 \in Nat /\ base' <= Bottom + 1
      /\ \A i \in 1 .. m : calls[i].k = "cp" => Bot(cframe, calls[i]) <= Bottom + 1
  <2>1. Bottom \in Nat /\ Bottom + 1 >= Bottom /\ Bottom + 1 \in Nat /\ \A i \in 1 .. m : i \in 1 .. Len(calls)
    BY <1>1, <1>2, BottomAt
  <2>. QED BY <2>1, <1>1, AboveBot
<1>. QED BY <1>1, <1>3, <1>7, <1>8, Facts, StepCut DEF Rest

(***************************************************************************)
(* Threads start.                                                          *)
(***************************************************************************)
LEMMA ShapeStart ==
  Shape(1, << >>, << >>, {}, <<Active("c", 0, 0)>>)
<1>. DEFINE a == Active("c", 0, 0)
            cs == <<a>>
<1>1. a \in CallType /\ a.k = "c" /\ a.f = 0 /\ a.c = 0 /\ IsFrame(a) /\ ~IsEntry(a)
  BY DEF Active, CallType, IsFrame, IsEntry, FrameKinds, Entries
<1>2. a = Active("c", 0, 0)
  OBVIOUS
<1>. HIDE DEF a
<1>3. Len(cs) = 1 /\ cs[1] = a /\ cs \in Seq(CallType) /\ \A i \in 1 .. Len(cs) : i = 1
  BY <1>1
<1>. HIDE DEF cs
<1>4. /\ DOMAIN << >> = {} /\ << >> \in Seq(CframeType) /\ Len(<< >>) = 0
  OBVIOUS
<1>5. Typed(1, << >>, << >>, cs)
  BY <1>3, <1>4 DEF Typed
<1>6. Ordered(cs) /\ Here(1, << >>, cs) /\ CframesAre(<< >>, cs) /\ FramesAre(<< >>, cs) /\ First(<< >>, cs)
  BY <1>1, <1>2, <1>3, <1>4 DEF Ordered, Here, CframesAre, FramesAre, First
<1>7. Linkage(<< >>, << >>, cs) /\ AboveBottom(<< >>, cs) /\ UpLive({}, cs)
  BY <1>1, <1>3 DEF Linkage, AboveBottom, UpLive
<1>8. Shape(1, << >>, << >>, {}, cs)
  BY <1>5, <1>6, <1>7 DEF Shape
<1>. QED BY <1>8 DEF cs, a

LEMMA ShapeResume ==
  Shape(1, << >>, <<[nres |-> 0, errf |-> 0, yield |-> TRUE]>>, {}, <<[Active("enter", 0, 1) EXCEPT !.prot = TRUE]>>)
<1>. DEFINE a == [Active("enter", 0, 1) EXCEPT !.prot = TRUE]
            e == [nres |-> 0, errf |-> 0, yield |-> TRUE]
            cs == <<a>>
            cf == <<e>>
<1>1. a \in CallType /\ a.k = "enter" /\ a.f = 0 /\ a.c = 1 /\ ~IsFrame(a) /\ IsEntry(a) /\ a.prot
  BY DEF Active, CallType, IsFrame, IsEntry, FrameKinds, Entries
<1>2. a = [Active("enter", 0, 1) EXCEPT !.prot = TRUE] /\ e = [nres |-> 0, errf |-> 0, yield |-> TRUE]
  OBVIOUS
<1>0. e \in CframeType
  BY DEF CframeType
<1>. HIDE DEF a, e
<1>3. Len(cs) = 1 /\ cs[1] = a /\ cs \in Seq(CallType) /\ \A i \in 1 .. Len(cs) : i = 1
  BY <1>1
<1>4. Len(cf) = 1 /\ cf[1] = e /\ cf \in Seq(CframeType) /\ \A i \in 1 .. Len(cf) : i = 1
  BY <1>0
<1>. HIDE DEF cs, cf
<1>5. Typed(1, << >>, cf, cs)
  <2>1. DOMAIN << >> = {}
    OBVIOUS
  <2>. QED BY <2>1, <1>3, <1>4 DEF Typed
<1>6. Ordered(cs) /\ Here(1, cf, cs) /\ CframesAre(cf, cs) /\ FramesAre(<< >>, cs)
  <2>1. DOMAIN << >> = {}
    OBVIOUS
  <2>. QED BY <2>1, <1>1, <1>3, <1>4 DEF Ordered, Here, CframesAre, FramesAre
<1>9. First(cf, cs)
  BY <1>2, <1>3, <1>4 DEF First
<1>7. Linkage(<< >>, cf, cs) /\ AboveBottom(cf, cs) /\ UpLive({}, cs)
  BY <1>1, <1>3 DEF Linkage, AboveBottom, UpLive
<1>8. Shape(1, << >>, cf, {}, cs)
  BY <1>5, <1>6, <1>7, <1>9 DEF Shape
<1>. QED BY <1>8 DEF cs, cf, a, e

\* The C code of the host, or of a thread that has ended.
LEMMA StepNewThread ==
  ASSUME NewThread
  PROVE  Control'
<1>1. Shape(base', frames', cframe', openupval', calls')
  BY ShapeStart DEF NewThread
<1>2. Shape(base, frames, cframe, openupval, calls)'
  BY <1>1
<1>3. todo' \in TodoType /\ todo'.do = "run"
  BY Goes DEF NewThread
<1>4. Rest'
  BY <1>3, StackConstants DEF Rest, NewThread, LJ_STACK_START
<1>5. Innermost' = Active("c", 0, 0) /\ Active("c", 0, 0).k = "c" /\ Len(calls') = 1
  BY DEF NewThread, Innermost, Active
<1>6. NextCall' /\ NextOther'
  BY <1>3, <1>5 DEF NextCall, NextOther, MayFail
<1>7. TopAbove'
  <2>1. \A i \in 1 .. Len(calls') : calls'[i].k # "cp"
    BY <1>5 DEF NewThread
  <2>. QED BY <2>1, <1>3 DEF TopAbove, NewThread
<1>. QED BY <1>2, <1>4, <1>6, <1>7, ControlFrom

LEMMA Start ==
  ASSUME Init
  PROVE  Control
<1>1. Shape(base, frames, cframe, openupval, calls)
  BY ShapeStart, ShapeResume DEF Init
<1>2. CASE cframe = << >> /\ calls = <<Active("c", 0, 0)>> /\ todo = Go("run")
  <2>3. todo \in TodoType /\ todo.do = "run"
    BY <1>2, Goes
  <2>4. Rest
    BY <2>3, StackConstants DEF Rest, Init, LJ_STACK_START
  <2>5. Innermost = Active("c", 0, 0) /\ Active("c", 0, 0).k = "c" /\ Len(calls) = 1
    BY <1>2 DEF Innermost, Active
  <2>6. NextCall /\ NextOther
    BY <2>3, <2>5 DEF NextCall, NextOther, MayFail
  <2>7. TopAbove
    <3>1. \A i \in 1 .. Len(calls) : calls[i].k # "cp"
      BY <2>5, <1>2
    <3>. QED BY <3>1, <2>3 DEF TopAbove, Init
  <2>. QED BY <1>1, <2>4, <2>6, <2>7, TypeFrom DEF Control
<1>3. CASE /\ cframe = <<[nres |-> 0, errf |-> 0, yield |-> TRUE]>>
           /\ calls = <<[Active("enter", 0, 1) EXCEPT !.prot = TRUE]>>
           /\ \E fs \in Kinds : todo = Calling(1, "CP", 0, fs)
  <2>. DEFINE a == [Active("enter", 0, 1) EXCEPT !.prot = TRUE]
  <2>3. todo \in TodoType /\ todo.do = "call" /\ todo.typ = "CP" /\ todo.f = 1
    BY <1>3, CallingTyped
  <2>4. Rest
    BY <2>3, StackConstants DEF Rest, Init, LJ_STACK_START
  <2>5. Innermost = a /\ a.k = "enter" /\ a.prot /\ Len(calls) = 1 /\ \A i \in 1 .. Len(calls) : calls[i].k # "cp"
    BY <1>3 DEF Innermost, Active
  <2>. HIDE DEF a
  <2>6. NextCall /\ NextOther
    BY <2>3, <2>5 DEF NextCall, NextOther, Init
  <2>7. TopAbove
    BY <2>5, <2>3 DEF TopAbove, Init
  <2>. QED BY <1>1, <2>4, <2>6, <2>7, TypeFrom DEF Control
<1>. QED BY <1>2, <1>3 DEF Init

(***************************************************************************)
(* Returns to C code: the results fit, as one at most is asked for.        *)
(***************************************************************************)
\* The call that has entered the interpreter goes on, with at most one result.
ReturnedToC(m, w) ==
  /\ m = Len(calls) - 2 /\ m \in 1 .. Len(calls) /\ w \in {0, 1} /\ base <= maxstack
  /\ calls[m].k \in {"lua", "c", "cp"} /\ calls[m].f < base - 1 /\ calls[Len(calls) - 1].k = "enter"
  /\ base' = calls[m].f + 1 /\ frames' = Below(base - 1) /\ calls' = Outer(m)
  /\ cframe' = SubSeq(cframe, 1, calls[m].c) /\ UNCHANGED <<stacksize, status, openupval>>
  /\ \/ todo' = Go("run") /\ top' = curr_top(base', frames', base - 1 + w)
     \/ todo' = Go("throw") /\ top' = base - 1 + w

LEMMA ReturnToCGoes ==
  ASSUME Control, AllFit, ReturnToC, ~cframe[Len(cframe)].yield
  PROVE  \E m, w : ReturnedToC(m, w)
<1>. DEFINE j == Len(calls) - 1
            m == Len(calls) - 2
            w == cframe[Len(cframe)].nres
            f == base - 1
<1>0. /\ todo.do = "return" /\ todo.n \in Nat /\ j \in 1 .. Len(calls) /\ Len(calls) \in Nat
      /\ calls[Len(calls)].f = f /\ prev(f) = calls[j].f /\ calls[j].f < f
      /\ calls[j].c = Len(cframe) /\ calls[j].k = "enter" /\ IsFrame(Innermost) /\ Innermost.k \notin {"enter", "ff"}
      /\ base \in Nat /\ top \in Nat /\ calls[j].f \in Nat /\ stacksize \in Nat
      /\ cframe \in Seq(CframeType) /\ Len(cframe) \in Nat /\ Len(calls) \in 2 .. Len(calls)
  BY Returns, Facts DEF ReturnToC, Rest, TopAbove, IsFrame, FrameKinds
<1>1. j # 1 /\ EnterLink(cframe, calls[j], calls[m]) /\ m \in 1 .. Len(calls)
  <2>1. j # 1
    <3>1. ASSUME j = 1 PROVE FALSE
      <4>1. calls[1].k = "enter" /\ calls[1].c = Len(cframe)
        BY <3>1, <1>0
      <4>2. cframe[1].yield /\ calls[1].c = 1
        BY <4>1, FirstIs DEF Host, Resumed
      <4>. QED BY <4>1, <4>2
    <3>. QED BY <3>1
  <2>2. j - 1 \in 1 .. Len(calls) /\ Link(frames, cframe, calls[j], calls[j - 1])
    <3>1. j \in 1 .. Len(calls)
      BY <1>0
    <3>. HIDE DEF j
    <3>. QED BY <2>1, <3>1, LinkAt
  <2>3. j - 1 = m
    BY <1>0
  <2>4. m \in 1 .. Len(calls) /\ Link(frames, cframe, calls[j], calls[m])
    BY <2>2, <2>3
  <2>. QED BY <2>1, <2>4, <1>0 DEF Link
<1>2. /\ calls[m].k \in {"lua", "c", "cp"} /\ calls[m].f = calls[j].f /\ calls[m].c = Len(cframe) - 1
      /\ w \in {0, 1} /\ calls[m].c \in Nat
  <2>1. calls[m].c \in Nat
    BY <1>1, Facts
  <2>2. /\ calls[m].k \in {"lua", "c", "cp"} /\ calls[j].f = calls[m].f /\ calls[j].c = calls[m].c + 1
        /\ cframe[calls[j].c].nres \in {0, 1}
    <3>. DEFINE a == calls[j]
                b == calls[m]
    <3>1. EnterLink(cframe, a, b)
      BY <1>1
    <3>. HIDE DEF a, b
    <3>2. b.k \in {"lua", "c", "cp"} /\ a.f = b.f /\ a.c = b.c + 1 /\ cframe[a.c].nres \in {0, 1}
      BY <3>1 DEF EnterLink
    <3>. QED BY <3>2 DEF a, b
  <2>3. w \in {0, 1}
    BY <2>2, <1>0
  <2>4. calls[m].c = Len(cframe) - 1
    <3>. HIDE DEF j, m
    <3>. QED BY <2>1, <2>2, <1>0
  <2>. QED BY <2>1, <2>2, <2>3, <2>4
<1>. DEFINE short == w > todo.n /\ f + w > maxstack
            t == IF f + todo.n > maxstack THEN f + 1 + todo.n ELSE maxstack + 1
            next == IF calls[j].after = "errhandler" THEN "throw" ELSE "run"
            u == IF next = "run" THEN curr_top(base', frames', f + w) ELSE f + w
            go == Go(next)
<1>3. /\ base' = calls[j].f + 1 /\ frames' = Below(f) /\ UNCHANGED <<status, openupval>>
  BY <1>0 DEF ReturnToC, Unlinked
<1>4. PICK o \in Checked(short, w + 1) :
        /\ GoOn(o, t, u, go)
        /\ IF o.e = "none" THEN calls' = Outer(m) /\ cframe' = SubSeq(cframe, 1, Len(cframe) - 1)
                           ELSE calls' = Outer(Len(calls) - 1) /\ UNCHANGED cframe
  BY DEF ReturnToC
<1>5. ~short /\ base <= maxstack
  <2>1. FitsIn(Innermost, frames, stacksize)
    BY <1>0 DEF AllFit, Exempt, Innermost
  <2>2. f < maxstack /\ maxstack \in Int
    BY <2>1, <1>0, StackConstants, Facts DEF FitsIn, maxstack, Room
  <2>. QED BY <2>2, <1>2, <1>0
<1>6. o.e = "none" /\ stacksize' = stacksize /\ top' = u /\ todo' = go
  <2>1. o = [e |-> "none", size |-> stacksize]
    BY <1>5 DEF Checked
  <2>. QED BY <2>1, <1>4 DEF GoOn
<1>7. calls' = Outer(m) /\ cframe' = SubSeq(cframe, 1, calls[m].c)
  BY <1>2, <1>4, <1>6
<1>8. /\ m = Len(calls) - 2 /\ calls[m].f < base - 1 /\ calls[Len(calls) - 1].k = "enter" /\ base' = calls[m].f + 1
      /\ frames' = Below(base - 1)
  BY <1>0, <1>2, <1>3
<1>9. \/ todo' = Go("run") /\ top' = curr_top(base', frames', base - 1 + w)
      \/ todo' = Go("throw") /\ top' = base - 1 + w
  BY <1>6
<1>. HIDE DEF m, w, short, t, u, next, go, f, j
<1>10. ReturnedToC(m, w)
  BY <1>1, <1>2, <1>3, <1>5, <1>6, <1>7, <1>8, <1>9 DEF ReturnedToC
<1>. QED BY <1>10

LEMMA StepReturnToC ==
  ASSUME Control, AllFit, ReturnToC
  PROVE  Control'
<1>1. CASE cframe[Len(cframe)].yield
  BY <1>1, StepNewThread DEF ReturnToC
<1>2. CASE ~cframe[Len(cframe)].yield
  <2>1. PICK m, w : ReturnedToC(m, w)
    BY <1>2, ReturnToCGoes
  <2>. DEFINE f == base - 1
              t == f + w
  <2>2. /\ m \in 1 .. Len(calls) /\ w \in {0, 1} /\ calls[m].k \in {"lua", "c", "cp"} /\ calls[m].f < f
        /\ base' = calls[m].f + 1 /\ frames' = Below(f) /\ calls' = Outer(m)
        /\ cframe' = SubSeq(cframe, 1, calls[m].c) /\ UNCHANGED <<stacksize, status, openupval>>
        /\ todo' \in {Go("run"), Go("throw")} /\ (top' = t \/ top' = curr_top(base', frames', t))
    BY <2>1 DEF ReturnedToC
  <2>3. /\ base \in Nat \ {0} /\ f \in Nat /\ calls[m].f \in Nat /\ Len(calls) \in Nat
        /\ stacksize \in Nat /\ status \in {"ok", "errerr"}
        /\ todo.do = "return" /\ IsFrame(Innermost) /\ Len(calls) \in 2 .. Len(calls) /\ calls[Len(calls)].f = f
    <3>1. todo.do = "return"
      BY DEF ReturnToC
    <3>2. /\ IsFrame(Innermost) /\ Len(calls) \in 2 .. Len(calls) /\ calls[Len(calls)].f = f
      BY <3>1, Returns
    <3>3. stacksize \in Nat /\ status \in {"ok", "errerr"}
      BY Facts DEF Rest
    <3>4. /\ base \in Nat \ {0} /\ Len(calls) \in Nat
          /\ \A i \in 1 .. Len(calls) : calls[i].f \in Nat
      BY Facts
    <3>5. f \in Nat
      BY <3>4
    <3>6. calls[m].f \in Nat
      BY <3>4, <2>2
    <3>. QED BY <3>1, <3>2, <3>3, <3>4, <3>5, <3>6
  <2>4. IsCut(frames', frames, base')
    <3>1. ASSUME NEW i \in m + 1 .. Len(calls), IsFrame(calls[i]) PROVE f <= calls[i].f
      <4>1. m = Len(calls) - 2 /\ calls[Len(calls) - 1].k = "enter"
        BY <2>1 DEF ReturnedToC
      <4>2. i = Len(calls) - 1 \/ i = Len(calls)
        BY <4>1, <2>3
      <4>3. i # Len(calls) - 1
        BY <3>1, <4>1 DEF IsFrame, FrameKinds
      <4>. QED BY <4>2, <4>3, <2>3
    <3>2. f \in Nat /\ calls[m].f < f /\ base' = calls[m].f + 1
      BY <2>2, <2>3
    <3>. HIDE DEF f
    <3>. QED BY <3>1, <3>2, <2>2, CutAt
  <2>5. ASSUME NEW v \in openupval PROVE v <= base'
    <3>. DEFINE i == Len(calls)
    <3>1. /\ i \in 1 .. Len(calls) /\ i # 1 /\ IsFrame(calls[i]) /\ calls[i].f = base - 1
          /\ Shape(base, frames, cframe, openupval, calls) /\ v < base
      BY <2>3, Returns, Facts DEF NextOther, Innermost
    <3>2. calls[i - 1].f = calls[m].f
      <4>1. prev(base - 1) = calls[i - 1].f
        BY <2>3, Returns
      <4>2. base' = prev(base - 1) + 1
        BY <1>2 DEF ReturnToC, Unlinked
      <4>3. calls[i - 1].f \in Nat
        BY <2>3, Returns, Facts
      <4>. QED BY <4>1, <4>2, <4>3, <2>2, <2>3
    <3>. HIDE DEF i
    <3>3. UpsBelow(base, openupval, calls, i)
      BY <3>1, UpBelow
    <3>4. v <= calls[i - 1].f + 1
      BY <3>1, <3>3, <2>3 DEF UpsBelow
    <3>. QED BY <3>2, <3>4, <2>2
  <2>6. t \in Nat /\ base' <= t
    BY <2>2, <2>3
  <2>7. ASSUME NEW i \in 1 .. m, calls[i].k = "cp" PROVE Bot(cframe, calls[i]) <= t
    <3>1. i \in 1 .. Len(calls)
      BY <2>2, <2>3
    <3>2. Bot(cframe, calls[i]) <= base - 1 /\ Bot(cframe, calls[i]) \in Int
      BY <3>1, <2>3, <2>7, BotBelow
    <3>. QED BY <3>2, <2>2, <2>3
  <2>8. todo' \in TodoType /\ todo'.do \in {"run", "throw"}
    BY <2>2, Goes
  <2>9. stacksize' \in Nat /\ status' \in {"ok", "errerr"} /\ openupval' = openupval
    BY <2>2, <2>3
  <2>. HIDE DEF f, t
  <2>10. Cuts(m)
    BY <2>2, <2>4, <2>5, <2>9 DEF Cuts
  <2>. QED BY <2>2, <2>6, <2>7, <2>8, <2>9, <2>10, StepCut
<1>. QED BY <1>1, <1>2
(***************************************************************************)
(* Numbers, recursive functions, and the walk along frames and cframes.    *)
(***************************************************************************)
\* A set of numbers that is not empty has a least one.
LEMMA LeastOf ==
  ASSUME NEW S, S \subseteq Nat, S # {}
  PROVE  /\ Min(S) \in S /\ \A m \in S : Min(S) <= m
<1>. DEFINE R == OpToRel(<, Nat)
<1>1. R = {p \in Nat \X Nat : p[1] < p[2]}
  BY DEF OpToRel
<1>2. IsWellFoundedOn(R, Nat)
  BY NatLessThanWellFounded
<1>. HIDE DEF R
<1>3. PICK n \in S : \A m \in S : ~(<<m, n>> \in R)
  BY <1>2, WFMin, Zenon
<1>4. \A m \in S : ~(m < n)
  <2>. SUFFICES ASSUME NEW m \in S, m < n PROVE FALSE
    OBVIOUS
  <2>1. <<m, n>> \in R
    BY <1>1
  <2>. QED BY <1>3, <2>1
<1>5. \E x \in S : \A y \in S : x =< y
  <2>1. ASSUME NEW m \in S PROVE n <= m
    BY <1>4, <2>1
  <2>. QED BY <2>1
<1>. HIDE DEF R
<1>. QED BY <1>5 DEF Min

\* A finite set of numbers has a greatest one.
LEMMA GreatestOf ==
  ASSUME NEW n \in Nat, NEW S \in SUBSET (0 .. n), S # {}
  PROVE  /\ Max(S) \in S /\ \A m \in S : m <= Max(S)
<1>. DEFINE D == {n - m : m \in S}
<1>1. D \subseteq Nat
  <2>1. ASSUME NEW m \in S PROVE n - m \in Nat
    <3>1. m \in 0 .. n
      OBVIOUS
    <3>. QED BY <3>1
  <2>. QED BY <2>1
<1>0. D # {}
  OBVIOUS
<1>. HIDE DEF D
<1>2. Min(D) \in D /\ \A d \in D : Min(D) <= d
  BY <1>0, <1>1, LeastOf
<1>3. PICK m \in S : \A x \in S : n - m <= n - x
  BY <1>2 DEF D
<1>4. ASSUME NEW x \in S PROVE m >= x
  <2>1. x \in 0 .. n /\ m \in 0 .. n /\ n - m <= n - x
    BY <1>3
  <2>. QED BY <2>1
<1>5. \E x \in S : \A y \in S : x >= y
  BY <1>4
<1>6. Max(S) \in S /\ \A y \in S : Max(S) >= y
  <2>. HIDE DEF D
  <2>. QED BY <1>5 DEF Max
<1>. QED BY <1>6

\* A function can be defined by what it is at 0 and by a step of F.
Iterated(c, N, U, F, x) ==
  c \in [0 .. N -> U] /\ c[0] = x /\ \A m \in 1 .. N : c[m] = F[c[m - 1]]
LEMMA Iterates ==
  ASSUME NEW N \in Nat, NEW U, NEW F \in [U -> U], NEW x \in U
  PROVE  \E c : Iterated(c, N, U, F, x)
<1>. USE DEF Iterated
<1>. DEFINE P(n) == \E c \in [0 .. n -> U] : c[0] = x /\ \A m \in 1 .. n : c[m] = F[c[m - 1]]
            S == {n \in Nat : ~P(n)}
<1>1. S = {}
  <2>. SUFFICES ASSUME S # {} PROVE FALSE
    OBVIOUS
  <2>0. S \subseteq Nat
    OBVIOUS
  <2>1. Min(S) \in S /\ \A m \in S : Min(S) <= m
    <3>. HIDE DEF S
    <3>. QED BY <2>0, LeastOf
  <2>. DEFINE n == Min(S)
  <2>. HIDE DEF S, n
  <2>2. n \in S /\ n \in Nat /\ \A m \in S : n <= m
    BY <2>0, <2>1 DEF n
  <2>3. P(0)
    <3>. DEFINE c == [m \in 0 .. 0 |-> x]
    <3>. c \in [0 .. 0 -> U] /\ c[0] = x /\ \A m \in 1 .. 0 : c[m] = F[c[m - 1]]
      OBVIOUS
    <3>. QED OBVIOUS
  <2>4. n # 0
    BY <2>2, <2>3 DEF S
  <2>5. n - 1 \in Nat /\ n - 1 \notin S
    BY <2>2, <2>4
  <2>6. PICK c \in [0 .. n - 1 -> U] : c[0] = x /\ \A m \in 1 .. n - 1 : c[m] = F[c[m - 1]]
    BY <2>5 DEF S
  <2>. DEFINE d == [m \in 0 .. n |-> IF m < n THEN c[m] ELSE F[c[n - 1]]]
  <2>7. d \in [0 .. n -> U]
    BY <2>2, <2>5, <2>6
  <2>8. d[0] = x
    BY <2>2, <2>4, <2>6
  <2>9. ASSUME NEW m \in 1 .. n PROVE d[m] = F[d[m - 1]]
    <3>1. CASE m < n
      BY <2>2, <2>6, <3>1
    <3>2. CASE m = n
      BY <2>2, <2>5, <2>6, <3>2
    <3>. QED BY <3>1, <3>2, <2>2
  <2>10. P(n)
    BY <2>7, <2>8, <2>9
  <2>. QED BY <2>2, <2>10 DEF S
<1>. QED BY <1>1

LEMMA UpTo ==
  ASSUME NEW n \in Nat, NEW S, 0 \in S, \A j \in 1 .. n : j - 1 \in S => j \in S
  PROVE  \A j \in 0 .. n : j \in S
<1>. DEFINE D == {j \in 0 .. n : j \notin S}
<1>. SUFFICES ASSUME D # {} PROVE FALSE
  OBVIOUS
<1>1. PICK q \in D : \A m \in D : q <= m
  <2>1. D \subseteq Nat
    OBVIOUS
  <2>. HIDE DEF D
  <2>. QED BY <2>1, LeastOf
<1>2. q # 0 /\ q \in 1 .. n /\ q - 1 \in 0 .. n /\ ~(q <= q - 1)
  BY <1>1
<1>3. q - 1 \in S
  BY <1>1, <1>2
<1>. QED BY <1>1, <1>2, <1>3

\* A walk that stays in G, and goes down as long as it goes, ends in G.
LEMMA WalkEnds ==
  ASSUME base \in Nat \ {0}, Len(cframe) \in Nat, NEW step, NEW G,
         \A p \in G : p[1] \in Nat /\ p[2] \in Nat,
         <<base - 1, Len(cframe)>> \in G,
         \A p \in G : step[p] \in G /\ (step[p] = p \/ step[p][1] + step[p][2] < p[1] + p[2])
  PROVE  Walk(step) \in G /\ step[Walk(step)] = Walk(step)
<1>. DEFINE n == base + Len(cframe)
            x == <<base - 1, Len(cframe)>>
            Body(a) == [i \in 0 .. n |-> IF i = 0 THEN x ELSE step[a[i - 1]]]
            at == CHOOSE a : a = Body(a)
<1>0. n \in Nat /\ x \in G /\ x[1] + x[2] = n - 1
  OBVIOUS
<1>1. Walk(step) = at[n]
  BY DEF Walk
<1>2. \E a : a = Body(a)
  <2>1. PICK F \in [G -> G] : \A p \in G : F[p] = step[p]
    <3>1. [p \in G |-> step[p]] \in [G -> G]
      OBVIOUS
    <3>. QED BY <3>1
  <2>2. PICK c : Iterated(c, n, G, F, x)
    <3>. HIDE DEF n, x
    <3>. QED BY <1>0, Iterates
  <2>. HIDE DEF n, x
  <2>3. c \in [0 .. n -> G] /\ c[0] = x /\ \A m \in 1 .. n : c[m] = step[c[m - 1]]
    <3>1. ASSUME NEW m \in 1 .. n PROVE c[m] = step[c[m - 1]]
      <4>1. c[m - 1] \in G
        BY <1>0, <2>2 DEF Iterated
      <4>. QED BY <2>1, <2>2, <4>1 DEF Iterated
    <3>. QED BY <2>2, <3>1 DEF Iterated
  <2>4. ASSUME NEW i \in 0 .. n PROVE c[i] = IF i = 0 THEN x ELSE step[c[i - 1]]
    <3>1. i # 0 => i \in 1 .. n
      BY <1>0
    <3>. QED BY <2>3, <3>1
  <2>5. c = [i \in 0 .. n |-> c[i]]
    BY <2>3
  <2>. QED BY <2>4, <2>5
<1>3. at = Body(at)
  <2>. HIDE DEF Body
  <2>. QED BY <1>2
<1>. HIDE DEF at, n, x
<1>4. at[0] = x /\ \A i \in 1 .. n : at[i] = step[at[i - 1]]
  <2>1. ASSUME NEW i \in 1 .. n PROVE at[i] = step[at[i - 1]]
    <3>1. i \in 0 .. n /\ i # 0
      BY <1>0
    <3>. QED BY <1>3, <3>1
  <2>2. 0 \in 0 .. n
    BY <1>0
  <2>. QED BY <1>3, <2>1, <2>2
<1>. HIDE DEF Body
<1>. DEFINE S == {i \in 0 .. n : at[i] \in G /\ (step[at[i]] = at[i] \/ at[i][1] + at[i][2] + i < n)}
<1>5. 0 \in S
  BY <1>0, <1>4
<1>6. ASSUME NEW i \in 1 .. n, i - 1 \in S PROVE i \in S
  <2>. DEFINE p == at[i - 1]
  <2>1. p \in G /\ at[i] = step[p] /\ (step[p] = p \/ p[1] + p[2] + (i - 1) < n)
    BY <1>4, <1>6
  <2>. HIDE DEF p
  <2>2. at[i] \in G
    BY <2>1
  <2>3. CASE step[p] = p
    <3>1. step[at[i]] = at[i]
      BY <2>1, <2>3
    <3>. QED BY <2>2, <3>1
  <2>4. CASE step[p] # p
    <3>0. step[p][1] + step[p][2] < p[1] + p[2]
      BY <2>1, <2>4
    <3>. DEFINE a == p[1] b == p[2] c == at[i][1] d == at[i][2]
    <3>1. a + b + (i - 1) < n /\ c + d < a + b
      BY <2>1, <2>4, <3>0
    <3>2. a \in Nat /\ b \in Nat /\ c \in Nat /\ d \in Nat /\ i \in Int /\ n \in Int
      BY <2>1, <2>2, <1>0
    <3>. HIDE DEF a, b, c, d
    <3>3. c + d + i < n
      BY <3>1, <3>2
    <3>4. at[i][1] + at[i][2] + i < n
      BY <3>3 DEF c, d
    <3>. QED BY <2>2, <3>4
  <2>. QED BY <2>3, <2>4
<1>7. n \in S
  <2>. HIDE DEF S
  <2>1. \A i \in 1 .. n : i - 1 \in S => i \in S
    BY <1>6
  <2>2. \A i \in 0 .. n : i \in S
    BY <1>0, <1>5, <2>1, UpTo
  <2>. QED BY <1>0, <2>2
<1>8. ~(at[n][1] + at[n][2] + n < n)
  BY <1>0, <1>7
<1>. QED BY <1>1, <1>7, <1>8

(***************************************************************************)
(* The walk of err_unwind finds the innermost protected call.              *)
(***************************************************************************)
At(j) == <<calls[j].f, calls[j].c>>
\* The walk only visits functions, and C code without a frame, from which the catcher is not inner.
Visited == {j \in 1 .. Len(calls) : calls[j].k \in {"lua", "c", "cp"} /\ \A i \in Protected : i <= j}

LEMMA AtPosition ==
  ASSUME Control, NEW j \in 1 .. Len(calls)
  PROVE  /\ calls[j].f \in 0 .. base - 1 /\ calls[j].c \in 0 .. Len(cframe)
         /\ At(j) \in Positions /\ At(j)[1] = calls[j].f /\ At(j)[2] = calls[j].c
<1>1. calls[j].f \in Nat /\ calls[j].c \in Nat /\ Len(cframe) \in Nat /\ base \in Nat /\ Len(calls) \in Nat
  BY Facts
<1>2. j = Len(calls) \/ (calls[j].f <= calls[Len(calls)].f /\ calls[j].c <= calls[Len(calls)].c)
  <2>1. Ordered(calls) /\ Len(calls) \in 1 .. Len(calls)
    BY <1>1, Facts DEF Shape
  <2>. QED BY <2>1, <1>1 DEF Ordered
<1>3. calls[Len(calls)].f = base - 1 /\ calls[Len(calls)].c = Len(cframe)
  BY Facts DEF Innermost
<1>4. calls[j].f \in 0 .. base - 1 /\ calls[j].c \in 0 .. Len(cframe)
  BY <1>1, <1>2, <1>3
<1>. QED BY <1>4 DEF At, Positions

\* Calls within the host's C code have a cframe, and functions other than the host's a frame.
LEMMA Deep ==
  ASSUME Control, NEW j \in 1 .. Len(calls)
  PROVE  /\ calls[j].c = 0 => j = 1 /\ Host
         /\ j = 1 /\ calls[j].k \in {"lua", "c", "cp", "ff"} => calls[j].c = 0 /\ Host
         /\ j # 1 /\ IsFrame(calls[j]) => calls[j].f > 0 /\ calls[j].f \in DOMAIN frames
<1>1. /\ Ordered(calls) /\ FramesAre(frames, calls) /\ Len(calls) \in Nat /\ calls[j].f \in Nat /\ calls[j].c \in Nat
      /\ calls[1].f \in Nat /\ calls[1].c \in Nat
  <2>1. 1 \in 1 .. Len(calls) /\ Len(calls) \in Nat
    BY Facts
  <2>. QED BY <2>1, Facts DEF Shape
<1>2. j # 1 => calls[j].c > 0
  <2>. SUFFICES ASSUME j # 1 PROVE calls[j].c > 0
    OBVIOUS
  <2>1. CASE Resumed
    <3>1. 1 \in 1 .. Len(calls) /\ 1 < j
      BY <1>1
    <3>2. calls[1].c <= calls[j].c /\ calls[1].c = 1
      BY <3>1, <2>1, <1>1 DEF Ordered, Resumed
    <3>. QED BY <3>2, <1>1
  <2>2. CASE Host
    <3>1. 2 \in 1 .. Len(calls) /\ 2 # 1 /\ 2 - 1 = 1 /\ (j = 2 \/ 2 < j)
      BY <1>1
    <3>2. Link(frames, cframe, calls[2], calls[1]) /\ calls[2] \in CallType /\ calls[2].c \in Nat
      BY <3>1, LinkAt, Facts
    <3>. DEFINE a == calls[2]
                b == calls[1]
    <3>3. Link(frames, cframe, a, b) /\ a \in CallType /\ b.k = "c" /\ b.c = 0
      BY <3>2, <2>2 DEF Host
    <3>. HIDE DEF a, b
    <3>4. a.c = 1
      BY <3>3 DEF Link, FuncLink, FfLink, EnterLink, CpLink, CallType
    <3>5. j = 2 \/ calls[2].c <= calls[j].c
      BY <3>1, <1>1 DEF Ordered
    <3>. QED BY <3>2, <3>4, <3>5, <1>1 DEF a
  <2>. QED BY <2>1, <2>2, FirstIs
<1>3. j # 1 /\ IsFrame(calls[j]) => calls[j].f > 0 /\ calls[j].f \in DOMAIN frames
  <2>. SUFFICES ASSUME j # 1, IsFrame(calls[j]) PROVE calls[j].f > 0 /\ calls[j].f \in DOMAIN frames
    OBVIOUS
  <2>1. 1 \in 1 .. Len(calls) /\ 1 < j
    BY <1>1
  <2>2. calls[1].f < calls[j].f
    BY <2>1, <1>1 DEF Ordered
  <2>3. calls[j].f > 0
    BY <2>2, <1>1
  <2>. QED BY <2>3, <1>1 DEF FramesAre
<1>4. calls[1].c = 0 /\ calls[1].k = "c" => Host
  BY FirstIs DEF Host, Resumed
<1>5. calls[1].k \in {"lua", "c", "cp", "ff"} => Host
  BY FirstIs DEF Host, Resumed
<1>6. calls[1].c = 0 => Host
  BY FirstIs DEF Host, Resumed
<1>. QED BY <1>2, <1>3, <1>5, <1>6 DEF Host

\* The bottom of C code without a frame tells it from the functions that it has called.
LEMMA ReachedAt ==
  ASSUME Control, NEW j \in 1 .. Len(calls), calls[j].k \in {"lua", "c", "cp"}, calls[j].c > 0
  PROVE  FrameReached(calls[j].f, calls[j].c) <=> calls[j].k = "cp"
<1>1. /\ Ordered(calls) /\ CframesAre(cframe, calls) /\ AboveBottom(cframe, calls)
      /\ Len(calls) \in Nat /\ calls[j].f \in Nat /\ calls[j].c \in 1 .. Len(cframe) /\ Len(cframe) \in Nat
  BY Facts, AtPosition DEF Shape
<1>2. PICK i \in 1 .. Len(calls) : IsEntry(calls[i]) /\ calls[i].c = calls[j].c
  BY <1>1 DEF CframesAre
<1>3. i <= j /\ (i < j => IsFrame(calls[j]) /\ calls[j].k # "cp")
  <2>1. ~(j < i)
    BY <1>1, <1>2 DEF Ordered
  <2>2. i < j => ~IsEntry(calls[j])
    BY <1>1, <1>2 DEF Ordered
  <2>. QED BY <2>1, <2>2, <1>1 DEF IsEntry, Entries, IsFrame, FrameKinds
<1>4. CASE calls[i].k = "enter"
  <2>1. cframe[calls[i].c].nres \in {0, 1}
    <3>1. CASE i = 1
      BY <3>1, <1>4, FirstIs DEF Host, Resumed
    <3>2. CASE i # 1
      <4>1. Link(frames, cframe, calls[i], calls[i - 1])
        BY <3>2, LinkAt
      <4>. QED BY <4>1, <1>4 DEF Link, EnterLink
    <3>. QED BY <3>1, <3>2
  <2>2. calls[j].k # "cp"
    BY <1>3, <1>4, <1>1
  <2>. QED BY <2>1, <2>2, <1>2 DEF FrameReached
<1>5. CASE calls[i].k = "cp"
  <2>0. i # 1
    BY <1>5, FirstIs DEF Host, Resumed
  <2>1. CpLink(cframe, calls[i], calls[i - 1])
    <3>1. Link(frames, cframe, calls[i], calls[i - 1])
      BY <2>0, LinkAt
    <3>. QED BY <3>1, <1>5 DEF Link
  <2>2. calls[i].f < -cframe[calls[i].c].nres /\ cframe[calls[i].c].nres \in Int /\ calls[i].f \in Nat
    BY <2>1, <1>1, <1>2, Facts DEF CpLink
  <2>3. CASE i = j
    BY <2>2, <2>3, <1>5 DEF FrameReached
  <2>4. CASE i < j
    <3>1. Bot(cframe, calls[i]) <= calls[j].f /\ calls[j].k # "cp"
      BY <2>4, <1>1, <1>3, <1>5 DEF AboveBottom
    <3>2. -cframe[calls[j].c].nres <= calls[j].f
      BY <3>1, <1>2 DEF Bot
    <3>3. ~(calls[j].f < -cframe[calls[j].c].nres)
      BY <3>2, <2>2, <1>1, <1>2
    <3>. QED BY <3>1, <3>3 DEF FrameReached
  <2>. QED BY <2>3, <2>4, <1>3, <1>1
<1>. QED BY <1>2, <1>4, <1>5 DEF IsEntry, Entries

\* How a function was called: the frame it has, and the call outside it.
CalledBy(j, b) ==
  /\ calls[j].f \in DOMAIN frames /\ prev(calls[j].f) = b.f /\ calls[j].c = b.c /\ ~calls[j].prot
  /\ b.f < calls[j].f
  /\ \/ b.k = "lua" /\ frames[calls[j].f].typ \in {"LUA", "CONT"}
     \/ b.k = "ff" /\ b.prot /\ frames[calls[j].f].typ = "PCALL"
     \/ b.k = "enter" /\ b.prot /\ frames[calls[j].f].typ = "CP"
     \/ b.k = "enter" /\ ~b.prot /\ frames[calls[j].f].typ = "C"
LEMMA Caller ==
  ASSUME Control, NEW j \in 1 .. Len(calls), j # 1, calls[j].k \in {"lua", "c"}
  PROVE  j - 1 \in 1 .. Len(calls) /\ CalledBy(j, calls[j - 1])
<1>. DEFINE a == calls[j]
            b == calls[j - 1]
<1>1. /\ j - 1 \in 1 .. Len(calls) /\ Link(frames, cframe, a, b) /\ a.k \in {"lua", "c"}
      /\ a.f \in DOMAIN frames /\ b.f < a.f /\ a.f \in Nat /\ b.f \in Nat
  <2>0. IsFrame(calls[j])
    BY DEF IsFrame, FrameKinds
  <2>1. j - 1 \in 1 .. Len(calls) /\ j - 1 < j /\ j \in 1 .. Len(calls)
    BY LinkAt
  <2>2. calls[j - 1].f < calls[j].f
    BY <2>0, <2>1, Facts DEF Shape, Ordered
  <2>. QED BY <2>0, <2>1, <2>2, LinkAt, Deep, Facts
<1>2. b.k = "ff" => b.prot
  <2>1. CASE j - 1 = 1
    BY <2>1, FirstIs DEF Host, Resumed
  <2>2. CASE j - 1 # 1
    <3>1. Link(frames, cframe, calls[j - 1], calls[j - 1 - 1])
      BY <2>2, <1>1, LinkAt
    <3>. QED BY <3>1 DEF Link, FfLink
  <2>. QED BY <2>1, <2>2
<1>. HIDE DEF a, b
<1>3. FuncLink(frames, a, b)
  BY <1>1 DEF Link
<1>4. prev(a.f) = b.f
  BY <1>1, <1>3 DEF prev, FuncLink
<1>5. /\ a.c = b.c /\ ~a.prot
      /\ \/ b.k = "lua" /\ frames[a.f].typ \in {"LUA", "CONT"}
         \/ b.k = "ff" /\ b.prot /\ frames[a.f].typ = "PCALL"
         \/ b.k = "enter" /\ b.prot /\ frames[a.f].typ = "CP"
         \/ b.k = "enter" /\ ~b.prot /\ frames[a.f].typ = "C"
  BY <1>2, <1>3 DEF FuncLink
<1>. QED BY <1>1, <1>4, <1>5 DEF CalledBy, a, b

LEMMA EntryAt ==
  ASSUME Control, NEW j \in 1 .. Len(calls), calls[j].k = "enter"
  PROVE  \/ j = 1 /\ Resumed
         \/ j # 1 /\ j - 1 \in 1 .. Len(calls) /\ EnterLink(cframe, calls[j], calls[j - 1])
<1>1. CASE j = 1
  BY <1>1, FirstIs DEF Host
<1>2. CASE j # 1
  <2>1. j - 1 \in 1 .. Len(calls) /\ Link(frames, cframe, calls[j], calls[j - 1])
    BY <1>2, LinkAt
  <2>. QED BY <2>1, <1>2 DEF Link
<1>. QED BY <1>1, <1>2

LEMMA CpAt ==
  ASSUME Control, NEW j \in 1 .. Len(calls), calls[j].k = "cp"
  PROVE  j # 1 /\ j - 1 \in 1 .. Len(calls) /\ CpLink(cframe, calls[j], calls[j - 1])
<1>1. j # 1
  BY FirstIs DEF Host, Resumed
<1>2. j - 1 \in 1 .. Len(calls) /\ Link(frames, cframe, calls[j], calls[j - 1])
  BY <1>1, LinkAt
<1>. QED BY <1>1, <1>2 DEF Link

LEMMA UnwindAt ==
  ASSUME NEW f \in 0 .. base - 1, NEW c \in 0 .. Len(cframe)
  PROVE  UnwindStep[<<f, c>>] =
           IF c = 0 \/ FrameReached(f, c) \/ f = 0 THEN <<f, c>>
           ELSE CASE frames[f].typ \in {"LUA", "CONT"} -> <<prev(f), c>>
                  [] frames[f].typ = "C" -> <<prev(f), c - 1>>
                  [] OTHER -> <<f, c>>
<1>1. <<f, c>> \in Positions
  BY DEF Positions
<1>2. UnwindStep[<<f, c>>] =
        LET p == <<f, c>>
        IN  IF p[2] = 0 \/ FrameReached(p[1], p[2]) \/ p[1] = 0 THEN p
            ELSE CASE frames[p[1]].typ \in {"LUA", "CONT"} -> <<prev(p[1]), p[2]>>
                   [] frames[p[1]].typ = "C" -> <<prev(p[1]), p[2] - 1>>
                   [] OTHER -> p
  BY <1>1, Zenon DEF UnwindStep
<1>3. <<f, c>>[1] = f /\ <<f, c>>[2] = c
  OBVIOUS
<1>. QED BY <1>2, <1>3

\* Where the walk is at a function or C code without a frame: it goes on to one outside it, or ends.
LEMMA UnwindGoes ==
  ASSUME Control, NEW j \in 1 .. Len(calls), calls[j].k \in {"lua", "c", "cp"}, calls[j].c > 0, calls[j].k # "cp"
  PROVE  /\ j # 1 /\ j - 1 \in 1 .. Len(calls) /\ CalledBy(j, calls[j - 1])
         /\ calls[j - 1].k = "lua" => UnwindStep[At(j)] = At(j - 1)
         /\ calls[j - 1].k = "enter" /\ ~calls[j - 1].prot =>
              /\ j - 2 \in 1 .. Len(calls) /\ EnterLink(cframe, calls[j - 1], calls[j - 2])
              /\ UnwindStep[At(j)] = At(j - 2)
         /\ calls[j - 1].prot => UnwindStep[At(j)] = At(j)
<1>1. j # 1 /\ calls[j].k \in {"lua", "c"} /\ IsFrame(calls[j])
  BY Deep DEF Host, IsFrame, FrameKinds
<1>2. j - 1 \in 1 .. Len(calls) /\ CalledBy(j, calls[j - 1])
  BY <1>1, Caller
<1>3. /\ calls[j].f \in 0 .. base - 1 /\ calls[j].c \in 0 .. Len(cframe) /\ calls[j].f > 0
      /\ ~FrameReached(calls[j].f, calls[j].c)
  BY <1>1, AtPosition, Deep, ReachedAt
<1>. DEFINE f == calls[j].f
            c == calls[j].c
<1>4. UnwindStep[At(j)] = CASE frames[f].typ \in {"LUA", "CONT"} -> <<prev(f), c>>
                            [] frames[f].typ = "C" -> <<prev(f), c - 1>>
                            [] OTHER -> <<f, c>>
  <2>1. f \in 0 .. base - 1 /\ c \in 0 .. Len(cframe) /\ f # 0 /\ c # 0 /\ ~FrameReached(f, c) /\ At(j) = <<f, c>>
    BY <1>3 DEF At
  <2>. HIDE DEF f, c
  <2>. QED BY <2>1, UnwindAt
<1>5. calls[j - 1].k = "lua" => UnwindStep[At(j)] = At(j - 1)
  <2>1. calls[j - 1].k = "lua" => frames[f].typ \in {"LUA", "CONT"} /\ prev(f) = calls[j - 1].f /\ c = calls[j - 1].c
    BY <1>2 DEF CalledBy
  <2>. HIDE DEF f, c
  <2>. QED BY <2>1, <1>4 DEF At
<1>6. ASSUME calls[j - 1].k = "enter", ~calls[j - 1].prot
      PROVE  /\ j - 2 \in 1 .. Len(calls) /\ EnterLink(cframe, calls[j - 1], calls[j - 2])
             /\ UnwindStep[At(j)] = At(j - 2)
  <2>1. j - 1 - 1 = j - 2
    BY <1>2
  <2>2. j - 2 \in 1 .. Len(calls) /\ EnterLink(cframe, calls[j - 1], calls[j - 2])
    <3>. DEFINE i == j - 1
    <3>1. i \in 1 .. Len(calls) /\ calls[i].k = "enter" /\ ~calls[i].prot
      BY <1>2, <1>6
    <3>. HIDE DEF i
    <3>2. i - 1 \in 1 .. Len(calls) /\ EnterLink(cframe, calls[i], calls[i - 1])
      BY <3>1, EntryAt DEF Resumed
    <3>. QED BY <3>2, <2>1 DEF i
  <2>3. frames[f].typ = "C" /\ prev(f) = calls[j - 1].f /\ c = calls[j - 1].c
    BY <1>2, <1>6 DEF CalledBy
  <2>4. calls[j - 1].f = calls[j - 2].f /\ calls[j - 1].c = calls[j - 2].c + 1 /\ calls[j - 2].c \in Nat
    BY <2>2, Facts DEF EnterLink
  <2>5. prev(f) = calls[j - 2].f /\ c - 1 = calls[j - 2].c
    BY <2>3, <2>4
  <2>. HIDE DEF f, c
  <2>6. UnwindStep[At(j)] = <<prev(f), c - 1>>
    BY <1>4, <2>3
  <2>. QED BY <2>2, <2>5, <2>6 DEF At
<1>7. calls[j - 1].prot => UnwindStep[At(j)] = At(j)
  <2>1. calls[j - 1].prot => frames[f].typ \in {"PCALL", "CP"} \/ calls[j - 1].k = "lua"
    BY <1>2 DEF CalledBy
  <2>2. calls[j - 1].k = "lua" => ~calls[j - 1].prot
    <3>. DEFINE i == j - 1
    <3>1. i \in 1 .. Len(calls)
      BY <1>2
    <3>. HIDE DEF i
    <3>2. calls[i].k = "lua" => ~calls[i].prot
      <4>1. CASE i = 1
        BY <4>1, FirstIs DEF Host, Resumed
      <4>2. CASE i # 1
        BY <4>2, <3>1, Caller DEF CalledBy
      <4>. QED BY <4>1, <4>2
    <3>. QED BY <3>2 DEF i
  <2>3. At(j) = <<f, c>>
    BY DEF At
  <2>. HIDE DEF f, c
  <2>. QED BY <2>1, <2>2, <2>3, <1>4
<1>. QED BY <1>1, <1>2, <1>5, <1>6, <1>7

LEMMA UnwindVisits ==
  ASSUME Control, NEW j \in Visited
  PROVE  \/ UnwindStep[At(j)] = At(j)
         \/ \E i \in Visited : /\ UnwindStep[At(j)] = At(i)
                               /\ calls[i].f + calls[i].c < calls[j].f + calls[j].c
<1>1. /\ j \in 1 .. Len(calls) /\ calls[j].k \in {"lua", "c", "cp"} /\ \A i \in Protected : i <= j
      /\ Protected \subseteq 1 .. Len(calls) /\ Len(calls) \in Nat
  BY Facts DEF Visited, Protected
<1>2. CASE calls[j].c = 0 \/ calls[j].k = "cp"
  <2>1. calls[j].f \in 0 .. base - 1 /\ calls[j].c \in 0 .. Len(cframe)
    BY <1>1, AtPosition
  <2>2. calls[j].c = 0 \/ FrameReached(calls[j].f, calls[j].c)
    BY <1>1, <1>2, <2>1, ReachedAt
  <2>. QED BY <2>1, <2>2, UnwindAt DEF At
<1>3. CASE calls[j].c # 0 /\ calls[j].k # "cp"
  <2>0. calls[j].c > 0
    BY <1>1, <1>3, Facts
  <2>1. /\ j # 1 /\ j - 1 \in 1 .. Len(calls) /\ CalledBy(j, calls[j - 1])
        /\ calls[j - 1].k = "lua" => UnwindStep[At(j)] = At(j - 1)
        /\ calls[j - 1].k = "enter" /\ ~calls[j - 1].prot =>
             /\ j - 2 \in 1 .. Len(calls) /\ EnterLink(cframe, calls[j - 1], calls[j - 2])
             /\ UnwindStep[At(j)] = At(j - 2)
        /\ calls[j - 1].prot => UnwindStep[At(j)] = At(j)
    BY <2>0, <1>1, <1>3, UnwindGoes
  <2>2. ~calls[j].prot /\ calls[j - 1].f < calls[j].f /\ calls[j - 1].c = calls[j].c
        /\ calls[j - 1].k \in {"lua", "ff", "enter"} /\ (calls[j - 1].k = "ff" => calls[j - 1].prot)
    BY <2>1 DEF CalledBy
  <2>3. calls[j].f \in Nat /\ calls[j].c \in Nat /\ calls[j - 1].f \in Nat
    BY <1>1, <2>1, Facts
  <2>4. \A i \in Protected : i <= j - 1
    BY <1>1, <2>2 DEF Protected
  <2>5. CASE calls[j - 1].k = "lua" /\ ~calls[j - 1].prot
    <3>1. j - 1 \in Visited
      BY <2>1, <2>4, <2>5 DEF Visited
    <3>. QED BY <3>1, <2>1, <2>2, <2>3, <2>5
  <2>6. CASE calls[j - 1].k = "enter" /\ ~calls[j - 1].prot
    <3>0. \A i \in Protected : i # j - 1
      BY <2>6 DEF Protected
    <3>1. \A i \in Protected : i <= j - 2
      BY <3>0, <2>4, <1>1
    <3>2. /\ j - 2 \in 1 .. Len(calls) /\ calls[j - 2].k \in {"lua", "c", "cp"} /\ UnwindStep[At(j)] = At(j - 2)
          /\ calls[j - 1].f = calls[j - 2].f /\ calls[j - 1].c = calls[j - 2].c + 1
      BY <2>1, <2>6 DEF EnterLink
    <3>3. j - 2 \in Visited
      BY <3>1, <3>2 DEF Visited
    <3>4. calls[j - 2].c \in Nat /\ calls[j - 2].f \in Nat
      BY <3>2, Facts
    <3>. QED BY <3>2, <3>3, <3>4, <2>2, <2>3
  <2>7. CASE calls[j - 1].prot
    BY <2>1, <2>7
  <2>. QED BY <2>2, <2>5, <2>6, <2>7
<1>. QED BY <1>2, <1>3

LEMMA UnwindWalk ==
  ASSUME Control, MayFail
  PROVE  \E j \in Visited : Walk(UnwindStep) = At(j) /\ UnwindStep[At(j)] = At(j)
<1>. DEFINE G == {At(j) : j \in Visited}
<1>1. \A j \in Visited : j \in 1 .. Len(calls)
  BY DEF Visited
<1>2. \A p \in G : p[1] \in Nat /\ p[2] \in Nat
  <2>1. ASSUME NEW j \in Visited PROVE At(j)[1] \in Nat /\ At(j)[2] \in Nat
    BY <1>1, AtPosition, Facts
  <2>. QED BY <2>1
<1>3. <<base - 1, Len(cframe)>> \in G
  <2>1. Len(calls) \in Visited
    BY Facts DEF Visited, Protected, MayFail, Innermost
  <2>2. At(Len(calls)) = <<base - 1, Len(cframe)>>
    BY Facts DEF At, Innermost
  <2>. QED BY <2>1, <2>2
<1>4. \A p \in G : UnwindStep[p] \in G /\ (UnwindStep[p] = p \/ UnwindStep[p][1] + UnwindStep[p][2] < p[1] + p[2])
  <2>1. ASSUME NEW j \in Visited
        PROVE  /\ UnwindStep[At(j)] \in G
               /\ \/ UnwindStep[At(j)] = At(j)
                  \/ UnwindStep[At(j)][1] + UnwindStep[At(j)][2] < At(j)[1] + At(j)[2]
    <3>1. CASE UnwindStep[At(j)] = At(j)
      BY <3>1
    <3>2. CASE UnwindStep[At(j)] # At(j)
      <4>1. PICK i \in Visited : UnwindStep[At(j)] = At(i) /\ calls[i].f + calls[i].c < calls[j].f + calls[j].c
        BY <3>2, UnwindVisits
      <4>2. At(i)[1] = calls[i].f /\ At(i)[2] = calls[i].c /\ At(j)[1] = calls[j].f /\ At(j)[2] = calls[j].c
        BY DEF At
      <4>. QED BY <4>1, <4>2
    <3>. QED BY <3>1, <3>2
  <2>. QED BY <2>1
<1>5. base \in Nat \ {0} /\ Len(cframe) \in Nat
  BY Facts
<1>. HIDE DEF G
<1>6. Walk(UnwindStep) \in G /\ UnwindStep[Walk(UnwindStep)] = Walk(UnwindStep)
  BY <1>2, <1>3, <1>4, <1>5, WalkEnds
<1>. QED BY <1>6 DEF G

\* What catches an error, as the walk finds it: nothing, or call i, from call j.
CaughtBy(i, j) ==
  /\ i \in Protected /\ \A q \in Protected : q <= i
  /\ j \in 1 .. Len(calls)
  /\ err_unwind.frame = calls[j].f /\ err_unwind.c = calls[j].c
  /\ \/ i = j /\ calls[i].k = "cp" /\ err_unwind.how = "cp"
     \/ /\ j = i + 1 /\ CalledBy(j, calls[i])
        /\ \/ calls[i].k = "ff" /\ err_unwind.how = "ff"
           \/ calls[i].k = "enter" /\ err_unwind.how \in {"enter", "resume"}
              /\ (err_unwind.how = "resume" <=> cframe[calls[i].c].yield)
LEMMA CatchAt ==
  ASSUME Control, MayFail
  PROVE  \/ Protected = {} /\ err_unwind.how = "none"
         \/ \E i, j \in 1 .. Len(calls) : CaughtBy(i, j)
<1>1. PICK j \in Visited : Walk(UnwindStep) = At(j) /\ UnwindStep[At(j)] = At(j)
  BY UnwindWalk
<1>. DEFINE f == calls[j].f
            c == calls[j].c
<1>2. /\ j \in 1 .. Len(calls) /\ calls[j].k \in {"lua", "c", "cp"} /\ \A i \in Protected : i <= j
      /\ Protected \subseteq 1 .. Len(calls) /\ Len(calls) \in Nat /\ f \in Nat /\ c \in Nat
  BY Facts DEF Visited, Protected
<1>3. Walk(UnwindStep)[1] = f /\ Walk(UnwindStep)[2] = c
  BY <1>1 DEF At
<1>4. /\ err_unwind.frame = f /\ err_unwind.c = c
      /\ err_unwind.how = CASE c = 0 -> "none"
                            [] c > 0 /\ FrameReached(f, c) -> "cp"
                            [] c > 0 /\ ~FrameReached(f, c) /\ f = 0 -> "none"
                            [] OTHER -> IF frames[f].typ = "PCALL" THEN "ff"
                                        ELSE IF cframe[c].yield THEN "resume" ELSE "enter"
  <2>. HIDE DEF f, c
  <2>. QED BY <1>3, Zenon DEF err_unwind
<1>. HIDE DEF f, c
<1>5. CASE c = 0
  <2>1. j = 1 /\ Host
    BY <1>2, <1>5, Deep DEF c
  <2>2. Protected = {}
    <3>1. ASSUME NEW i \in Protected PROVE FALSE
      <4>1. i = 1 /\ calls[i].prot
        BY <1>2, <2>1 DEF Protected
      <4>. QED BY <4>1, <2>1 DEF Host
    <3>. QED BY <3>1
  <2>3. err_unwind.how = "none"
    BY <1>4, <1>5
  <2>. QED BY <2>2, <2>3
<1>6. CASE c # 0 /\ calls[j].k = "cp"
  <2>1. c > 0 /\ FrameReached(f, c)
    BY <1>2, <1>6, ReachedAt DEF f, c
  <2>2. err_unwind.how = "cp"
    BY <1>4, <2>1
  <2>3. j \in Protected
    BY <1>2, <1>6, CpAt DEF Protected, CpLink
  <2>4. CaughtBy(j, j)
    BY <1>2, <1>4, <1>6, <2>2, <2>3 DEF CaughtBy, f, c
  <2>. QED BY <2>4, <1>2
<1>7. CASE c # 0 /\ calls[j].k # "cp"
  <2>. DEFINE i == j - 1
  <2>1. c > 0 /\ ~FrameReached(f, c)
    BY <1>2, <1>7, ReachedAt DEF f, c
  <2>2. /\ j # 1 /\ i \in 1 .. Len(calls) /\ CalledBy(j, calls[i])
        /\ calls[i].k = "lua" => UnwindStep[At(j)] = At(i)
        /\ calls[i].k = "enter" /\ ~calls[i].prot =>
             /\ j - 2 \in 1 .. Len(calls) /\ EnterLink(cframe, calls[i], calls[j - 2])
             /\ UnwindStep[At(j)] = At(j - 2)
    BY <1>2, <1>7, <2>1, UnwindGoes DEF c
  <2>3. f > 0
    <3>1. IsFrame(calls[j])
      BY <1>2, <1>7 DEF IsFrame, FrameKinds
    <3>. QED BY <1>2, <2>2, <3>1, Deep DEF f
  <2>4. calls[i].k # "lua"
    <3>1. calls[i].f < calls[j].f /\ At(j) = <<calls[j].f, calls[j].c>> /\ At(i) = <<calls[i].f, calls[i].c>>
      BY <2>2 DEF CalledBy, At
    <3>2. calls[j].f \in Nat
      BY <1>2 DEF f
    <3>3. At(i) # At(j)
      BY <3>1, <3>2, <2>2, Facts
    <3>. QED BY <3>3, <1>1, <2>2
  <2>5. ~(calls[i].k = "enter" /\ ~calls[i].prot)
    <3>. SUFFICES ASSUME calls[i].k = "enter", ~calls[i].prot PROVE FALSE
      OBVIOUS
    <3>1. calls[j].c = calls[i].c /\ calls[i].c = calls[j - 2].c + 1 /\ calls[j - 2].c \in Nat
      BY <2>2, Facts DEF CalledBy, EnterLink
    <3>2. calls[j - 2].c # calls[j].c
      BY <3>1
    <3>. QED BY <3>2, <1>1, <2>2 DEF At
  <2>6. /\ calls[i].k \in {"ff", "enter"} /\ calls[i].prot /\ calls[i].c = c
        /\ calls[i].k = "ff" => frames[f].typ = "PCALL"
        /\ calls[i].k = "enter" => frames[f].typ = "CP"
    BY <2>2, <2>4, <2>5 DEF CalledBy, f, c
  <2>7. err_unwind.how = IF frames[f].typ = "PCALL" THEN "ff" ELSE IF cframe[c].yield THEN "resume" ELSE "enter"
    BY <1>4, <2>1, <2>3
  <2>8. i \in Protected /\ j = i + 1
    BY <2>2, <2>6, <1>2 DEF Protected
  <2>9. \A q \in Protected : q <= i
    <3>1. j \notin Protected
      BY <2>2 DEF CalledBy, Protected
    <3>. QED BY <3>1, <1>2
  <2>. HIDE DEF i
  <2>10. CaughtBy(i, j)
    BY <1>2, <1>4, <2>2, <2>6, <2>7, <2>8, <2>9 DEF CaughtBy, f, c
  <2>. QED BY <2>2, <2>10, <1>2
<1>. QED BY <1>5, <1>6, <1>7

LEMMA CatcherIs ==
  ASSUME NEW i \in Protected, \A q \in Protected : q <= i, Protected \subseteq Int
  PROVE  Catcher = i
<1>1. \E x \in Protected : \A q \in Protected : q <= x
  OBVIOUS
<1>2. Catcher \in Protected /\ \A q \in Protected : q <= Catcher
  BY <1>1, Zenon DEF Catcher
<1>. QED BY <1>2

\* The property CatchFound.
LEMMA Catches ==
  ASSUME Control
  PROVE  CatchFound
<1>. SUFFICES ASSUME MayFail
     PROVE  LET r == err_unwind
            IN  IF Protected = {} THEN r.how = "none"
                ELSE LET a == calls[Catcher]
                     IN  IF a.k = "ff" THEN r.how = "ff" /\ prev(r.frame) = a.f
                         ELSE r.c = a.c /\ r.how \in {a.k, "resume"}
  BY DEF CatchFound
<1>1. CASE Protected = {} /\ err_unwind.how = "none"
  BY <1>1
<1>2. ASSUME NEW i \in 1 .. Len(calls), NEW j \in 1 .. Len(calls), CaughtBy(i, j)
      PROVE  /\ Protected # {} /\ Catcher = i
             /\ calls[i].k = "ff" => err_unwind.how = "ff" /\ prev(err_unwind.frame) = calls[i].f
             /\ calls[i].k # "ff" => err_unwind.c = calls[i].c /\ err_unwind.how \in {calls[i].k, "resume"}
  <2>1. i \in Protected /\ \A q \in Protected : q <= i
    BY <1>2 DEF CaughtBy
  <2>2. Catcher = i
    <3>1. Protected \subseteq Int
      BY Facts DEF Protected
    <3>. QED BY <2>1, <3>1, CatcherIs
  <2>3. /\ calls[i].k = "ff" => err_unwind.how = "ff" /\ prev(err_unwind.frame) = calls[i].f
        /\ calls[i].k # "ff" => err_unwind.c = calls[i].c /\ err_unwind.how \in {calls[i].k, "resume"}
    BY <1>2 DEF CaughtBy, CalledBy
  <2>. QED BY <2>1, <2>2, <2>3
<1>3. CASE \E i, j \in 1 .. Len(calls) : CaughtBy(i, j)
  <2>1. PICK i \in 1 .. Len(calls), j \in 1 .. Len(calls) : CaughtBy(i, j)
    BY <1>3
  <2>. QED BY <2>1, <1>2
<1>. QED BY <1>1, <1>3, CatchAt

(***************************************************************************)
(* Errors are thrown.                                                      *)
(***************************************************************************)
LEMMA OwnerIs ==
  ASSUME Control, NEW i \in 1 .. Len(calls)
  PROVE  /\ IsEntry(calls[i]) => Owner(calls[i].c) = i
         /\ calls[i].k = "ff" => OwnerFF(calls[i].f) = i
<1>1. /\ Ordered(calls) /\ Len(calls) \in Nat /\ i \in Nat
      /\ \A j \in 1 .. Len(calls) : calls[j].f \in Nat /\ calls[j].c \in Nat
  BY Facts DEF Shape
<1>2. ASSUME IsEntry(calls[i]) PROVE Owner(calls[i].c) = i
  <2>1. ASSUME NEW j \in 1 .. Len(calls), IsEntry(calls[j]), calls[j].c = calls[i].c PROVE j = i
    <3>1. ~(i < j) /\ ~(j < i)
      BY <1>1, <1>2, <2>1 DEF Ordered
    <3>. QED BY <3>1, <1>1
  <2>. DEFINE c == calls[i].c
  <2>2. \A j \in 1 .. Len(calls) : calls[j].k \in Entries /\ calls[j].c = c => j = i
    BY <2>1 DEF IsEntry
  <2>3. calls[i].k \in Entries /\ calls[i].c = c
    BY <1>2 DEF IsEntry
  <2>. HIDE DEF c
  <2>4. Owner(c) \in 1 .. Len(calls) /\ calls[Owner(c)].k \in Entries /\ calls[Owner(c)].c = c
    BY <2>3, Zenon DEF Owner
  <2>. QED BY <2>2, <2>4 DEF c
<1>3. ASSUME calls[i].k = "ff" PROVE OwnerFF(calls[i].f) = i
  <2>1. ASSUME NEW j \in 1 .. Len(calls), calls[j].k = "ff", calls[j].f = calls[i].f PROVE j = i
    <3>1. ~(i < j) /\ ~(j < i)
      BY <1>1, <1>3, <2>1 DEF Ordered, IsFrame, FrameKinds
    <3>. QED BY <3>1, <1>1
  <2>. DEFINE f == calls[i].f
  <2>2. \A j \in 1 .. Len(calls) : calls[j].k = "ff" /\ calls[j].f = f => j = i
    BY <2>1
  <2>3. calls[i].k = "ff" /\ calls[i].f = f
    BY <1>3
  <2>. HIDE DEF f
  <2>4. OwnerFF(f) \in 1 .. Len(calls) /\ calls[OwnerFF(f)].k = "ff" /\ calls[OwnerFF(f)].f = f
    BY <2>3, Zenon DEF OwnerFF
  <2>. QED BY <2>2, <2>4 DEF f
<1>. QED BY <1>2, <1>3

\* Frames are cut off above call m.
LEMMA CutAbove ==
  ASSUME Control, NEW m \in 1 .. Len(calls)
  PROVE  IsCut(Below(calls[m].f + 1), frames, calls[m].f + 1)
<1>1. Ordered(calls) /\ Len(calls) \in Nat /\ \A i \in 1 .. Len(calls) : calls[i].f \in Nat
  BY Facts DEF Shape
<1>2. ASSUME NEW q \in m + 1 .. Len(calls), IsFrame(calls[q]) PROVE calls[m].f + 1 <= calls[q].f
  <2>1. q \in 1 .. Len(calls) /\ m < q
    BY <1>1
  <2>2. calls[m].f < calls[q].f
    BY <1>1, <1>2, <2>1 DEF Ordered
  <2>. QED BY <2>1, <2>2, <1>1
<1>. DEFINE b == calls[m].f + 1
<1>3. b \in Nat /\ calls[m].f < b
  BY <1>1
<1>4. \A q \in m + 1 .. Len(calls) : IsFrame(calls[q]) => b <= calls[q].f
  BY <1>2
<1>. HIDE DEF b
<1>5. IsCut(Below(b), frames, calls[m].f + 1)
  BY <1>3, <1>4, CutAt
<1>. QED BY <1>5 DEF b

\* The error has been thrown to call m, with its message at slot level or below.
ToCatch(m, level) ==
  \/ level <= calls[m].f + 2
  \/ \E j \in 2 .. Len(calls) :
       /\ level = calls[j].f /\ IsFrame(calls[j])
       /\ calls[j - 1].k = "enter" /\ calls[j - 1].prot /\ calls[j - 1].after = "continue"
       /\ calls[j - 1].f = calls[m].f
Thrown(m, level) ==
  /\ Cuts(m) /\ m < Len(calls) /\ level \in Nat /\ calls[m].f < level
  /\ stacksize' = relimitstack(Unwound(level)) /\ status' = "ok"
  /\ \A q \in 1 .. m : calls[q].k = "cp" => Bot(cframe, calls[q]) <= level
  /\ \/ calls[m].k \in {"lua", "c", "cp"} /\ todo' = Go("throw") /\ top' = Unwound(level)
     \/ /\ calls[m].k \in {"lua", "c", "cp"} /\ ToCatch(m, level)
        /\ todo' = Go("run") /\ top' = curr_top(base', frames, Unwound(level))
     \/ /\ calls[m].k = "ff" /\ base' > 1 /\ \A u \in openupval' : u < base'
        /\ todo' = Returning(2) /\ top' = Unwound(level)

LEMMA ThrownTo ==
  ASSUME Control, NEW m, NEW level, Thrown(m, level)
  PROVE  Control'
<1>. DEFINE t == Unwound(level)
<1>1. /\ m \in 1 .. Len(calls) /\ m < Len(calls) /\ base' = calls[m].f + 1 /\ calls[m].f < level
      /\ level \in Nat /\ Cuts(m) /\ stacksize' = relimitstack(t) /\ status' = "ok"
      /\ top \in Nat /\ base \in Nat /\ base <= top /\ calls[m].f \in Nat /\ Len(calls) \in Nat /\ stacksize \in Nat
      /\ \A u \in openupval' : u <= base'
  BY Facts DEF Thrown, Cuts, Rest, TopAbove
<1>2. calls[m].f <= base - 1
  BY <1>1, AtPosition
<1>3. t \in Nat /\ base' <= t /\ (t = top \/ t = level + 1)
  <2>. DEFINE f == calls[m].f
  <2>1. /\ base' = f + 1 /\ f < level /\ f \in Nat /\ f <= base - 1
        /\ level \in Nat /\ top \in Nat /\ base \in Nat /\ base <= top
    BY <1>1, <1>2
  <2>2. t = IF level < top - 1 THEN level + 1 ELSE top
    BY DEF Unwound
  <2>. HIDE DEF f, t
  <2>3. CASE level < top - 1
    BY <2>1, <2>2, <2>3
  <2>4. CASE ~(level < top - 1)
    BY <2>1, <2>2, <2>4
  <2>. QED BY <2>3, <2>4
<1>. HIDE DEF t
<1>4. ASSUME NEW i \in 1 .. m, calls[i].k = "cp" PROVE Bot(cframe, calls[i]) <= t
  <2>1. i \in 1 .. Len(calls)
    BY <1>1
  <2>2. Bot(cframe, calls[i]) \in Int /\ Bot(cframe, calls[i]) <= top
    BY <2>1, <1>4, Facts, BotBelow DEF TopAbove
  <2>3. Bot(cframe, calls[i]) <= level
    BY <1>4 DEF Thrown
  <2>. QED BY <2>2, <2>3, <1>1, <1>3
<1>5. stacksize' \in Nat
  BY <1>1, StackConstants DEF relimitstack, resizestack
<1>6. top' = t \/ top' = curr_top(base', frames, t)
  BY DEF Thrown, t
<1>7. todo' \in TodoType
      /\ \/ todo'.do \in {"run", "throw"} /\ calls[m].k \in {"lua", "c", "cp"}
         \/ todo'.do = "return" /\ IsFrame(calls[m]) /\ base' > 1 /\ \A u \in openupval' : u < base'
  <2>1. CASE calls[m].k \in {"lua", "c", "cp"}
    BY <2>1, Goes DEF Thrown
  <2>2. CASE calls[m].k \notin {"lua", "c", "cp"}
    BY <2>2, ReturningTyped DEF Thrown, IsFrame, FrameKinds
  <2>. QED BY <2>1, <2>2
<1>. QED BY <1>1, <1>3, <1>4, <1>5, <1>6, <1>7, StepCut

LEMMA ThrowGoes ==
  ASSUME Control, lj_err_throw
  PROVE  NewThread \/ \E m \in 1 .. Len(calls), level \in Nat : Thrown(m, level)
<1>. DEFINE r == err_unwind
<1>0. MayFail /\ todo.do = "throw" /\ Len(calls) \in Nat /\ base \in Nat
  BY Facts DEF NextOther, lj_err_throw
<1>. SUFFICES ASSUME ~NewThread PROVE \E m \in 1 .. Len(calls), level \in Nat : Thrown(m, level)
  OBVIOUS
<1>1. \/ r.how = "cp" /\ Caught(Owner(r.c), r.frame + 1, -cframe[r.c].nres) /\ status' = "ok"
      \/ r.how = "enter" /\ Caught(Owner(r.c), prev(r.frame) + 1, r.frame) /\ status' = "ok"
      \/ /\ r.how = "ff"
         /\ unwindstack(prev(r.frame) + 1, prev(r.frame) + 1)
         /\ cframe' = SubSeq(cframe, 1, r.c)
         /\ calls' = Outer(OwnerFF(prev(r.frame)))
         /\ top' = Unwound(prev(r.frame) + 1) /\ todo' = Returning(2)
         /\ status' = "ok"
  BY Zenon DEF lj_err_throw
<1>. HIDE DEF r
<1>2. PICK i \in 1 .. Len(calls), j \in 1 .. Len(calls) : CaughtBy(i, j)
  <2>1. r.how # "none"
    BY <1>1
  <2>. QED BY <2>1, <1>0, CatchAt DEF r
<1>3. /\ r.frame = calls[j].f /\ r.c = calls[j].c /\ calls[i].prot
      /\ \/ i = j /\ calls[i].k = "cp" /\ r.how = "cp"
         \/ /\ j = i + 1 /\ CalledBy(j, calls[i])
            /\ \/ calls[i].k = "ff" /\ r.how = "ff"
               \/ calls[i].k = "enter" /\ r.how \in {"enter", "resume"}
                  /\ (r.how = "resume" <=> cframe[calls[i].c].yield)
  BY <1>2 DEF CaughtBy, r, Protected
<1>4. /\ Ordered(calls) /\ AboveBottom(cframe, calls) /\ Shape(base, frames, cframe, openupval, calls)
      /\ calls[i].f \in Nat /\ calls[i].c \in Nat /\ calls[j].f \in Nat /\ calls[j].c \in Nat
      /\ openupval \subseteq Nat
  BY Facts DEF Shape, Rest
<1>5. CASE calls[i].k = "cp"
  <2>. DEFINE m == i - 1
              level == Bot(cframe, calls[i])
  <2>1. i = j /\ r.how = "cp" /\ IsEntry(calls[i])
    BY <1>3, <1>5 DEF IsEntry, Entries
  <2>2. i # 1 /\ m \in 1 .. Len(calls) /\ CpLink(cframe, calls[i], calls[m])
    BY <1>5, CpAt
  <2>3. /\ calls[m].k = "c" /\ calls[m].f = calls[i].f /\ calls[m].c = calls[i].c - 1
        /\ calls[i].f < level /\ level <= calls[i].f + 2 /\ calls[i].after = "continue"
        /\ level \in Nat /\ i = m + 1 /\ m < Len(calls)
    <3>1. level \in Int /\ calls[m].c \in Nat
      BY <1>5, <2>2, BotBelow, Facts
    <3>2. level = -cframe[calls[i].c].nres
      BY DEF Bot
    <3>3. /\ calls[m].k = "c" /\ calls[m].f = calls[i].f /\ calls[i].c = calls[m].c + 1
          /\ calls[i].f < level /\ level <= calls[i].f + 2 /\ calls[i].after = "continue"
      BY <2>2, <3>2 DEF CpLink
    <3>. HIDE DEF level
    <3>. QED BY <3>1, <3>3, <2>2, <1>4, <1>0
  <2>4. Caught(i, calls[i].f + 1, level) /\ status' = "ok"
    <3>1. Owner(r.c) = i /\ r.frame = calls[i].f /\ level = -cframe[r.c].nres
      BY <1>3, <2>1, OwnerIs DEF Bot
    <3>. QED BY <1>1, <2>1, <3>1
  <2>. HIDE DEF level
  <2>5. /\ base' = calls[m].f + 1 /\ frames' = Below(calls[m].f + 1)
        /\ stacksize' = relimitstack(Unwound(level)) /\ openupval' = {u \in openupval : u < level}
        /\ cframe' = SubSeq(cframe, 1, calls[m].c) /\ calls' = Outer(m)
        /\ top' = curr_top(base', frames, Unwound(level)) /\ todo' = Go("run")
    BY <2>3, <2>4 DEF Caught, unwindstack
  <2>6. IsCut(frames', frames, base')
    <3>. HIDE DEF m
    <3>. QED BY <2>2, <2>5, CutAbove
  <2>7. openupval' \subseteq openupval /\ \A u \in openupval' : u <= base'
    BY <2>3, <2>5, <1>4
  <2>8. \A q \in 1 .. m : calls[q].k = "cp" => Bot(cframe, calls[q]) <= level
    <3>1. i = m + 1 /\ m \in Nat /\ m < Len(calls) /\ i \in 1 .. Len(calls)
      BY <2>2, <2>3
    <3>. HIDE DEF m
    <3>2. ASSUME NEW q \in 1 .. m, calls[q].k = "cp" PROVE Bot(cframe, calls[q]) <= level
      <4>1. q \in 1 .. Len(calls) /\ q < i
        BY <3>1, <1>0
      <4>2. Bot(cframe, calls[q]) <= Bot(cframe, calls[i])
        BY <4>1, <3>2, <1>4, <1>5 DEF AboveBottom
      <4>. QED BY <4>2 DEF level
    <3>. QED BY <3>2
  <2>9. calls[m].f < level /\ ToCatch(m, level)
    BY <2>3 DEF ToCatch
  <2>. HIDE DEF m
  <2>10. Cuts(m)
    BY <2>2, <2>5, <2>6, <2>7 DEF Cuts
  <2>11. Thrown(m, level)
    BY <2>2, <2>3, <2>4, <2>5, <2>8, <2>9, <2>10 DEF Thrown
  <2>. QED BY <2>2, <2>3, <2>11
<1>6. CASE calls[i].k # "cp"
  <2>. DEFINE level == calls[j].f
  <2>1. /\ j = i + 1 /\ CalledBy(j, calls[i]) /\ prev(level) = calls[i].f /\ calls[j].c = calls[i].c
        /\ calls[i].f < level /\ i < Len(calls) /\ level \in Nat
    BY <1>3, <1>4, <1>6, <1>0 DEF CalledBy
  <2>2. IsFrame(calls[j]) /\ j # 1
    <3>1. j # 1
      BY <2>1
    <3>2. i = j - 1 /\ i \in 1 .. Len(calls)
      BY <2>1
    <3>3. calls[j].k # "enter" /\ calls[j].k # "cp" /\ calls[j] \in CallType
      <4>1. Link(frames, cframe, calls[j], calls[i]) /\ calls[j] \in CallType /\ calls[i].c \in Nat
        BY <3>1, <3>2, LinkAt, Facts
      <4>. DEFINE a == calls[j]
                  b == calls[i]
      <4>2. Link(frames, cframe, a, b) /\ a.c = b.c /\ b.c \in Nat /\ a \in CallType
        BY <4>1, <2>1
      <4>. HIDE DEF a, b
      <4>3. a.k # "enter" /\ a.k # "cp" /\ a \in CallType
        BY <4>2 DEF Link, EnterLink, CpLink
      <4>. QED BY <4>3 DEF a
    <3>. QED BY <3>1, <3>3 DEF IsFrame, FrameKinds, CallType
  <2>3. \A q \in 1 .. i : calls[q].k = "cp" => Bot(cframe, calls[q]) <= level
    BY <1>4, <2>1, <2>2 DEF AboveBottom
  <2>4. \A q \in i + 1 .. Len(calls) : IsFrame(calls[q]) => level <= calls[q].f
    BY <1>4, <2>1, <1>0, Facts DEF Ordered
  <2>5. \A u \in openupval : u < level => u <= calls[i].f + 1
    <3>1. UpsBelow(base, openupval, calls, j) /\ j - 1 = i
      BY <1>4, <2>1, UpBelow
    <3>2. \A u \in openupval : u <= level => u <= calls[i].f + 1
      BY <3>1, <2>2 DEF UpsBelow
    <3>. QED BY <3>2, <2>1, <1>4
  <2>6. CASE calls[i].k = "enter"
    <3>. DEFINE m == i - 1
    <3>1. r.how = "enter" /\ IsEntry(calls[i]) /\ ~cframe[calls[i].c].yield
      BY <1>1, <1>3, <1>6, <2>6 DEF IsEntry, Entries
    <3>2. i # 1 /\ m \in 1 .. Len(calls) /\ EnterLink(cframe, calls[i], calls[m])
      BY <2>6, <3>1, EntryAt DEF Resumed
    <3>3. /\ calls[m].k \in {"lua", "c", "cp"} /\ calls[m].f = calls[i].f /\ calls[m].c = calls[i].c - 1
          /\ i = m + 1 /\ m < Len(calls) /\ calls[i].prot /\ calls[i].after \in {"continue", "finalizer"}
      <4>1. calls[m].c \in Nat
        BY <3>2, Facts
      <4>2. calls[i].after \in {"continue", "finalizer"}
        BY <3>2, <1>3, Zenon DEF EnterLink
      <4>. QED BY <3>2, <4>1, <4>2, <1>3, <1>4, <2>1 DEF EnterLink
    <3>4. Caught(i, calls[i].f + 1, level) /\ status' = "ok"
      <4>1. Owner(r.c) = i /\ r.frame = level /\ prev(r.frame) = calls[i].f
        BY <1>3, <2>1, <3>1, OwnerIs
      <4>. HIDE DEF level
      <4>. QED BY <1>1, <3>1, <4>1
    <3>. HIDE DEF level
    <3>5. /\ base' = calls[m].f + 1 /\ frames' = Below(calls[m].f + 1)
          /\ stacksize' = relimitstack(Unwound(level)) /\ openupval' = {u \in openupval : u < level}
          /\ cframe' = SubSeq(cframe, 1, calls[m].c) /\ calls' = Outer(m)
      BY <3>3, <3>4 DEF Caught, unwindstack
    <3>6. \/ todo' = Go("throw") /\ top' = Unwound(level)
          \/ /\ calls[i].after = "continue"
             /\ todo' = Go("run") /\ top' = curr_top(base', frames, Unwound(level))
      BY <3>3, <3>4, <3>5 DEF Caught
    <3>7. IsCut(frames', frames, base')
      <4>. HIDE DEF m
      <4>. QED BY <3>2, <3>5, CutAbove
    <3>8. openupval' \subseteq openupval /\ \A u \in openupval' : u <= base'
      BY <3>3, <3>5, <2>5
    <3>9. \A q \in 1 .. m : calls[q].k = "cp" => Bot(cframe, calls[q]) <= level
      <4>1. m \in Nat /\ i = m + 1
        BY <3>2, <3>3
      <4>. HIDE DEF m
      <4>2. \A q \in 1 .. m : q \in 1 .. i
        BY <4>1
      <4>. QED BY <4>2, <2>3
    <3>10. calls[i].after = "continue" => ToCatch(m, level)
      <4>1. j \in 2 .. Len(calls) /\ j - 1 = i
        BY <2>1, <2>2, <1>0
      <4>2. level = calls[j].f
        BY DEF level
      <4>. HIDE DEF m
      <4>. QED BY <4>1, <4>2, <2>2, <2>6, <3>3 DEF ToCatch
    <3>. HIDE DEF m
    <3>11. Cuts(m)
      BY <3>2, <3>5, <3>7, <3>8 DEF Cuts
    <3>12. calls[m].f < level
      BY <2>1, <3>3
    <3>13. Thrown(m, level)
      BY <2>1, <3>3, <3>4, <3>5, <3>6, <3>9, <3>10, <3>11, <3>12 DEF Thrown
    <3>. QED BY <2>1, <3>2, <3>13
  <2>7. CASE calls[i].k # "enter"
    <3>. DEFINE l == calls[i].f + 1
    <3>1. calls[i].k = "ff" /\ r.how = "ff"
      BY <1>3, <1>6, <2>7
    <3>2. OwnerFF(calls[i].f) = i /\ prev(r.frame) = calls[i].f /\ r.c = calls[i].c
      BY <1>3, <2>1, <3>1, OwnerIs
    <3>3. /\ base' = l /\ frames' = Below(l)
          /\ stacksize' = relimitstack(Unwound(l)) /\ openupval' = {u \in openupval : u < l}
          /\ cframe' = SubSeq(cframe, 1, calls[i].c) /\ calls' = Outer(i)
          /\ top' = Unwound(l) /\ todo' = Returning(2) /\ status' = "ok"
      BY <1>1, <3>1, <3>2 DEF unwindstack
    <3>4. IsFrame(calls[i]) /\ i # 1 /\ calls[i].f > 0
      <4>1. IsFrame(calls[i])
        BY <3>1 DEF IsFrame, FrameKinds
      <4>2. i # 1
        BY <3>1, FirstIs DEF Host, Resumed
      <4>. QED BY <4>1, <4>2, Deep
    <3>5. l \in Nat /\ calls[i].f < l /\ l <= calls[i].f + 2 /\ l > 1
      BY <3>4, <1>4
    <3>6. IsCut(frames', frames, base')
      BY <3>3, CutAbove
    <3>7. openupval' \subseteq openupval /\ (\A u \in openupval' : u <= base') /\ \A u \in openupval' : u < base'
      BY <3>3, <3>5, <1>4
    <3>8. Cuts(i)
      BY <3>3, <3>6, <3>7 DEF Cuts
    <3>9. \A q \in 1 .. i : calls[q].k = "cp" => Bot(cframe, calls[q]) <= l
      <4>1. ASSUME NEW q \in 1 .. i, calls[q].k = "cp" PROVE Bot(cframe, calls[q]) <= l
        <5>1. q < i /\ q \in 1 .. Len(calls)
          BY <4>1, <3>1
        <5>2. Bot(cframe, calls[q]) <= calls[i].f /\ Bot(cframe, calls[q]) \in Int
          BY <4>1, <5>1, <3>4, <1>4, BotBelow DEF AboveBottom
        <5>. QED BY <5>2, <1>4
      <4>. QED BY <4>1
    <3>. HIDE DEF l
    <3>10. Thrown(i, l)
      BY <2>1, <3>1, <3>3, <3>5, <3>7, <3>8, <3>9 DEF Thrown
    <3>. QED BY <3>5, <3>10
  <2>. QED BY <2>6, <2>7
<1>. QED BY <1>5, <1>6

LEMMA StepThrow ==
  ASSUME Control, lj_err_throw
  PROVE  Control'
<1>1. CASE NewThread
  BY <1>1, StepNewThread
<1>2. CASE \E m \in 1 .. Len(calls), level \in Nat : Thrown(m, level)
  BY <1>2, ThrownTo
<1>. QED BY <1>1, <1>2, ThrowGoes

(***************************************************************************)
(* The walk of finderrfunc finds the handler.                              *)
(***************************************************************************)
NoFinalizer == \A i \in 1 .. Len(calls) : calls[i].after # "finalizer"
Searched == {j \in 1 .. Len(calls) : calls[j].k \in {"lua", "c", "cp"} /\ \A i \in Deciding : i <= j}

LEMMA HandlerAt ==
  ASSUME NEW f \in 0 .. base - 1, NEW c \in 0 .. Len(cframe)
  PROVE  HandlerStep[<<f, c>>] =
           IF f = 0 \/ c = 0 THEN <<f, c>>
           ELSE IF FrameReached(f, c) THEN IF cframe[c].errf >= 0 THEN <<f, c>> ELSE <<f, c - 1>>
           ELSE CASE frames[f].typ \in {"LUA", "CONT"} -> <<prev(f), c>>
                  [] frames[f].typ = "C" -> <<prev(f), c - 1>>
                  [] frames[f].typ = "CP" ->
                       IF cframe[c].yield \/ cframe[c].errf >= 0 THEN <<f, c>> ELSE <<prev(f), c>>
                  [] OTHER -> <<f, c>>
<1>1. <<f, c>> \in Positions
  BY DEF Positions
<1>2. HandlerStep[<<f, c>>] =
        LET p == <<f, c>>
        IN  IF p[1] = 0 \/ p[2] = 0 THEN p
            ELSE IF FrameReached(p[1], p[2])
                   THEN IF cframe[p[2]].errf >= 0 THEN p ELSE <<p[1], p[2] - 1>>
            ELSE CASE frames[p[1]].typ \in {"LUA", "CONT"} -> <<prev(p[1]), p[2]>>
                   [] frames[p[1]].typ = "C" -> <<prev(p[1]), p[2] - 1>>
                   [] frames[p[1]].typ = "CP" ->
                        IF cframe[p[2]].yield \/ cframe[p[2]].errf >= 0 THEN p ELSE <<prev(p[1]), p[2]>>
                   [] OTHER -> p
  BY <1>1, Zenon DEF HandlerStep
<1>3. <<f, c>>[1] = f /\ <<f, c>>[2] = c
  OBVIOUS
<1>. QED BY <1>2, <1>3

\* The slot of the handler, from where the walk has ended.
HandlerOn(f, c) ==
  IF f = 0 \/ c = 0 THEN 0
  ELSE IF FrameReached(f, c) THEN cframe[c].errf
  ELSE IF frames[f].typ = "PCALL" THEN IF frames[prev(f)].xp THEN prev(f) + 1 ELSE 0
  ELSE IF cframe[c].yield THEN 0 ELSE cframe[c].errf

LEMMA HandlerIs ==
  ASSUME Control, NEW i \in Deciding, \A q \in Deciding : q <= i
  PROVE  HandlerOf = calls[i].h
<1>1. Deciding \subseteq Int /\ Deciding # {}
  BY Facts DEF Deciding, Protected
<1>. DEFINE x == CHOOSE x \in Deciding : \A q \in Deciding : q <= x
<1>2. x \in Deciding /\ \A q \in Deciding : q <= x
  <2>1. \E y \in Deciding : \A q \in Deciding : q <= y
    OBVIOUS
  <2>. QED BY <2>1, Zenon
<1>3. HandlerOf = calls[x].h
  BY <1>1, Zenon DEF HandlerOf
<1>. HIDE DEF x
<1>4. x = i
  BY <1>1, <1>2
<1>. QED BY <1>3, <1>4

\* The host, and C code that it has called without a frame, have no handler.
LEMMA HandlerNone ==
  ASSUME Control, NEW j \in Searched, calls[j].f = 0
  PROVE  HandlerOf = 0
<1>1. j \in 1 .. Len(calls) /\ calls[j].k \in {"lua", "c", "cp"} /\ (\A i \in Deciding : i <= j) /\ Len(calls) \in Nat
  BY Facts DEF Searched
<1>2. CASE j = 1
  <2>1. Host
    BY <1>1, <1>2, Deep
  <2>2. Deciding = {}
    <3>1. ASSUME NEW i \in Deciding PROVE FALSE
      <4>1. i \in 1 .. Len(calls) /\ i <= 1 /\ calls[i].prot
        BY <1>1, <1>2 DEF Deciding, Protected
      <4>2. i = 1
        BY <4>1, <1>1
      <4>. QED BY <4>1, <4>2, <2>1 DEF Host
    <3>. QED BY <3>1
  <2>. QED BY <2>2 DEF HandlerOf
<1>3. CASE j # 1
  <2>1. calls[j].k = "cp"
    BY <1>1, <1>3, Deep DEF IsFrame, FrameKinds
  <2>2. j - 1 \in 1 .. Len(calls) /\ CpLink(cframe, calls[j], calls[j - 1])
    BY <1>1, <2>1, CpAt
  <2>3. calls[j - 1].k = "c" /\ calls[j - 1].f = 0 /\ calls[j].h \in {0, -1} /\ calls[j].prot
    BY <2>2 DEF CpLink
  <2>4. j - 1 = 1 /\ Host
    <3>. DEFINE i == j - 1
    <3>1. i \in 1 .. Len(calls) /\ calls[i].k = "c" /\ calls[i].f = 0 /\ IsFrame(calls[i])
      BY <2>2, <2>3 DEF IsFrame, FrameKinds
    <3>. HIDE DEF i
    <3>2. i = 1
      BY <3>1, Deep
    <3>3. Host
      BY <3>1, <3>2, Deep
    <3>. QED BY <3>2, <3>3 DEF i
  <2>5. \A i \in Deciding : i = j
    <3>1. ASSUME NEW i \in Deciding PROVE i = j
      <4>1. i \in 1 .. Len(calls) /\ i <= j /\ calls[i].prot
        BY <1>1 DEF Deciding, Protected
      <4>2. i # 1
        BY <4>1, <2>4 DEF Host
      <4>. QED BY <4>1, <4>2, <2>4, <1>1
    <3>. QED BY <3>1
  <2>6. CASE Deciding = {}
    BY <2>6 DEF HandlerOf
  <2>7. CASE Deciding # {}
    <3>1. j \in Deciding /\ \A q \in Deciding : q <= j
      BY <2>5, <2>7, <1>1
    <3>2. HandlerOf = calls[j].h
      BY <3>1, HandlerIs
    <3>3. calls[j].h # -1
      BY <3>1 DEF Deciding
    <3>. QED BY <3>2, <3>3, <2>3
  <2>. QED BY <2>6, <2>7
<1>. QED BY <1>2, <1>3

\* Where the search is at function j with a frame, and the frame of it tells of the call outside.
LEMMA HandlerGoes ==
  ASSUME Control, NoFinalizer, NEW j \in Searched, calls[j].f # 0, calls[j].k # "cp"
  PROVE  /\ j - 1 \in 1 .. Len(calls)
         /\ \/ /\ HandlerStep[At(j)] = At(j) /\ j - 1 \in Deciding /\ \A i \in Deciding : i <= j - 1
               /\ HandlerOn(calls[j].f, calls[j].c) = calls[j - 1].h
            \/ /\ HandlerStep[At(j)] = At(j - 1) /\ j - 1 \in Searched
               /\ calls[j - 1].f + calls[j - 1].c < calls[j].f + calls[j].c
            \/ /\ HandlerStep[At(j)] = At(j - 2) /\ j - 2 \in Searched
               /\ calls[j - 2].f + calls[j - 2].c < calls[j].f + calls[j].c
<1>. DEFINE f == calls[j].f
            c == calls[j].c
            b == calls[j - 1]
<1>1. /\ j \in 1 .. Len(calls) /\ calls[j].k \in {"lua", "c"} /\ (\A i \in Deciding : i <= j) /\ Len(calls) \in Nat
      /\ f \in Nat /\ c \in Nat /\ Deciding \subseteq 1 .. Len(calls)
  BY Facts DEF Searched, Deciding, Protected
<1>2. /\ j # 1 /\ IsFrame(calls[j]) /\ c > 0 /\ ~FrameReached(f, c) /\ f \in 0 .. base - 1 /\ c \in 0 .. Len(cframe)
  <2>1. j # 1
    BY <1>1, Deep DEF Host
  <2>2. c > 0
    BY <1>1, <2>1, Deep
  <2>. QED BY <1>1, <2>1, <2>2, ReachedAt, AtPosition DEF IsFrame, FrameKinds
<1>3. j - 1 \in 1 .. Len(calls) /\ CalledBy(j, b)
  BY <1>1, <1>2, Caller
<1>4. /\ prev(f) = b.f /\ c = b.c /\ ~calls[j].prot /\ b.f < f /\ b.f \in Nat /\ b.c \in Nat
      /\ \/ b.k = "lua" /\ frames[f].typ \in {"LUA", "CONT"}
         \/ b.k = "ff" /\ b.prot /\ frames[f].typ = "PCALL"
         \/ b.k = "enter" /\ b.prot /\ frames[f].typ = "CP"
         \/ b.k = "enter" /\ ~b.prot /\ frames[f].typ = "C"
  BY <1>3, Facts DEF CalledBy
<1>5. \A i \in Deciding : i <= j - 1
  <2>1. j \notin Deciding
    BY <1>4 DEF Deciding, Protected
  <2>. QED BY <2>1, <1>1
<1>6. HandlerStep[At(j)] = CASE frames[f].typ \in {"LUA", "CONT"} -> <<prev(f), c>>
                             [] frames[f].typ = "C" -> <<prev(f), c - 1>>
                             [] frames[f].typ = "CP" ->
                                  IF cframe[c].yield \/ cframe[c].errf >= 0 THEN <<f, c>> ELSE <<prev(f), c>>
                             [] OTHER -> <<f, c>>
  <2>1. f \in 0 .. base - 1 /\ c \in 0 .. Len(cframe) /\ f # 0 /\ c # 0 /\ ~FrameReached(f, c) /\ At(j) = <<f, c>>
    BY <1>2 DEF At
  <2>. HIDE DEF f, c
  <2>. QED BY <2>1, HandlerAt
<1>7. HandlerOn(f, c) = IF frames[f].typ = "PCALL" THEN IF frames[prev(f)].xp THEN prev(f) + 1 ELSE 0
                        ELSE IF cframe[c].yield THEN 0 ELSE cframe[c].errf
  <2>1. f # 0 /\ c # 0 /\ ~FrameReached(f, c)
    BY <1>2
  <2>. HIDE DEF f, c
  <2>. QED BY <2>1 DEF HandlerOn
<1>0. At(j) = <<f, c>> /\ At(j - 1) = <<b.f, b.c>>
  BY DEF At
<1>8. ASSUME calls[j - 1].k = "enter" \/ calls[j - 1].k = "ff", calls[j - 1].prot, calls[j - 1].h # -1
      PROVE  j - 1 \in Deciding
  BY <1>3, <1>8 DEF Deciding, Protected
<1>9. CASE b.k = "lua"
  <2>1. HandlerStep[At(j)] = At(j - 1)
    <3>1. frames[f].typ \in {"LUA", "CONT"} /\ prev(f) = b.f /\ c = b.c
      BY <1>4, <1>9
    <3>. HIDE DEF f, c, b
    <3>. QED BY <3>1, <1>6, <1>0
  <2>2. j - 1 \in Searched
    BY <1>3, <1>5, <1>9 DEF Searched
  <2>. QED BY <2>1, <2>2, <1>1, <1>3, <1>4
<1>10. CASE b.k = "ff"
  <2>. DEFINE i == j - 1
  <2>1. i \in 1 .. Len(calls) /\ calls[i].k = "ff" /\ frames[f].typ = "PCALL" /\ calls[i].prot
    BY <1>3, <1>4, <1>10
  <2>2. HandlerStep[At(j)] = At(j)
    <3>. HIDE DEF f, c, b, i
    <3>. QED BY <2>1, <1>6, <1>0
  <2>3. calls[i].h = (IF frames[calls[i].f].xp THEN calls[i].f + 1 ELSE 0) /\ calls[i].f \in Nat
    <3>. HIDE DEF i
    <3>1. i # 1
      BY <2>1, FirstIs DEF Host, Resumed
    <3>2. Link(frames, cframe, calls[i], calls[i - 1])
      BY <2>1, <3>1, LinkAt
    <3>. QED BY <2>1, <3>2, Facts DEF Link, FfLink
  <2>4. HandlerOn(f, c) = calls[i].h
    BY <2>1, <2>3, <1>4, <1>7
  <2>5. calls[i].h # -1
    BY <2>3
  <2>. QED BY <2>1, <2>2, <2>4, <2>5, <1>3, <1>5, <1>8
<1>11. CASE b.k = "enter" /\ b.prot
  <2>. DEFINE i == j - 1
  <2>1. i \in 1 .. Len(calls) /\ calls[i].k = "enter" /\ frames[f].typ = "CP" /\ calls[i].prot /\ c = calls[i].c
        /\ calls[i].after # "finalizer"
    BY <1>3, <1>4, <1>11 DEF NoFinalizer
  <2>2. /\ calls[i].h # -1 /\ calls[i].h = (IF cframe[c].yield THEN 0 ELSE cframe[c].errf)
        /\ cframe[c].yield \/ cframe[c].errf >= 0
    <3>. HIDE DEF i
    <3>1. CASE i = 1 /\ Resumed
      BY <3>1, <2>1 DEF Resumed
    <3>2. CASE i # 1 /\ EnterLink(cframe, calls[i], calls[i - 1])
      <4>1. cframe[calls[i].c].errf = calls[i].h /\ ~cframe[calls[i].c].yield /\ calls[i].h # -1
        BY <2>1, <3>2 DEF EnterLink
      <4>2. calls[i].h \in Nat \cup {-1}
        BY <2>1, Facts DEF CallType
      <4>. QED BY <4>1, <4>2, <2>1
    <3>. QED BY <3>1, <3>2, <2>1, EntryAt
  <2>3. HandlerStep[At(j)] = At(j)
    <3>. HIDE DEF f, c, b, i
    <3>. QED BY <2>1, <2>2, <1>6, <1>0
  <2>4. HandlerOn(f, c) = calls[i].h
    <3>. HIDE DEF f, c, b, i
    <3>. QED BY <2>1, <2>2, <1>7
  <2>. QED BY <2>1, <2>2, <2>3, <2>4, <1>3, <1>5, <1>8
<1>12. CASE b.k = "enter" /\ ~b.prot
  <2>. DEFINE i == j - 1
  <2>1. i \in 1 .. Len(calls) /\ calls[i].k = "enter" /\ frames[f].typ = "C" /\ ~calls[i].prot /\ c = calls[i].c
    BY <1>3, <1>4, <1>12
  <2>2. i # 1 /\ i - 1 \in 1 .. Len(calls) /\ EnterLink(cframe, calls[i], calls[i - 1])
    <3>. HIDE DEF i
    <3>. QED BY <2>1, EntryAt DEF Resumed
  <2>3. i - 1 = j - 2
    BY <1>1
  <2>4. /\ j - 2 \in 1 .. Len(calls) /\ calls[j - 2].k \in {"lua", "c", "cp"}
        /\ calls[j - 2].f = b.f /\ b.c = calls[j - 2].c + 1 /\ calls[j - 2].c \in Nat
    <3>1. calls[i - 1].c \in Nat
      BY <2>2, Facts
    <3>. QED BY <2>2, <2>3, <3>1 DEF EnterLink
  <2>5. HandlerStep[At(j)] = At(j - 2)
    <3>. DEFINE d == calls[j - 2]
    <3>1. c - 1 = d.c /\ prev(f) = d.f /\ At(j - 2) = <<d.f, d.c>>
      BY <2>4, <1>4 DEF At
    <3>. HIDE DEF f, c, b, d
    <3>. QED BY <2>1, <3>1, <1>6
  <2>6. j - 2 \in Searched
    <3>1. j - 1 \notin Deciding
      BY <1>12 DEF Deciding, Protected
    <3>2. \A q \in Deciding : q <= j - 2
      BY <3>1, <1>1, <1>5
    <3>. QED BY <3>2, <2>4 DEF Searched
  <2>. QED BY <2>4, <2>5, <2>6, <1>1, <1>3, <1>4
<1>. QED BY <1>4, <1>9, <1>10, <1>11, <1>12

LEMMA HandlerGoesCp ==
  ASSUME Control, NEW j \in Searched, calls[j].f # 0, calls[j].k = "cp"
  PROVE  \/ /\ HandlerStep[At(j)] = At(j) /\ j \in Deciding /\ \A i \in Deciding : i <= j
            /\ HandlerOn(calls[j].f, calls[j].c) = calls[j].h
         \/ /\ HandlerStep[At(j)] = At(j - 1) /\ j - 1 \in Searched
            /\ calls[j - 1].f + calls[j - 1].c < calls[j].f + calls[j].c
<1>. DEFINE f == calls[j].f
            c == calls[j].c
            b == calls[j - 1]
<1>1. /\ j \in 1 .. Len(calls) /\ (\A i \in Deciding : i <= j) /\ Len(calls) \in Nat
      /\ f \in Nat /\ c \in Nat /\ Deciding \subseteq 1 .. Len(calls) /\ calls[j].h \in Nat \cup {-1}
  BY Facts DEF Searched, Deciding, Protected, CallType
<1>2. j - 1 \in 1 .. Len(calls) /\ CpLink(cframe, calls[j], b) /\ b.c \in Nat
  BY <1>1, CpAt, Facts
<1>3. /\ b.k = "c" /\ f = b.f /\ c = b.c + 1 /\ cframe[c].errf = calls[j].h /\ calls[j].prot
  BY <1>2 DEF CpLink
<1>4. c > 0 /\ FrameReached(f, c) /\ f \in 0 .. base - 1 /\ c \in 0 .. Len(cframe)
  BY <1>1, <1>2, <1>3, ReachedAt, AtPosition
<1>5. /\ HandlerStep[At(j)] = IF cframe[c].errf >= 0 THEN <<f, c>> ELSE <<f, c - 1>>
      /\ HandlerOn(f, c) = cframe[c].errf
  <2>1. f \in 0 .. base - 1 /\ c \in 0 .. Len(cframe) /\ f # 0 /\ c # 0 /\ FrameReached(f, c) /\ At(j) = <<f, c>>
    BY <1>4 DEF At
  <2>. HIDE DEF f, c
  <2>. QED BY <2>1, HandlerAt DEF HandlerOn
<1>6. CASE calls[j].h = -1
  <2>1. HandlerStep[At(j)] = At(j - 1)
    <3>1. c - 1 = b.c /\ At(j - 1) = <<b.f, b.c>>
      BY <1>2, <1>3 DEF At
    <3>. HIDE DEF f, c, b
    <3>. QED BY <3>1, <1>3, <1>5, <1>6
  <2>2. j - 1 \in Searched
    <3>1. j \notin Deciding
      BY <1>6 DEF Deciding
    <3>2. \A q \in Deciding : q <= j - 1
      BY <3>1, <1>1
    <3>. QED BY <3>2, <1>2, <1>3 DEF Searched
  <2>. QED BY <2>1, <2>2, <1>1, <1>2, <1>3
<1>7. CASE calls[j].h # -1
  <2>1. cframe[c].errf >= 0 /\ j \in Deciding
    BY <1>1, <1>3, <1>7 DEF Deciding, Protected
  <2>2. HandlerStep[At(j)] = At(j)
    BY <2>1, <1>5 DEF At
  <2>. QED BY <2>1, <2>2, <1>1, <1>3, <1>5
<1>. QED BY <1>6, <1>7

LEMMA HandlerStops ==
  ASSUME Control, NEW j \in Searched, calls[j].f = 0
  PROVE  HandlerStep[At(j)] = At(j) /\ HandlerOn(calls[j].f, calls[j].c) = HandlerOf
<1>1. calls[j].f \in 0 .. base - 1 /\ calls[j].c \in 0 .. Len(cframe)
  BY AtPosition DEF Searched
<1>2. HandlerStep[At(j)] = At(j)
  <2>. DEFINE f == calls[j].f
              c == calls[j].c
  <2>1. f = 0 /\ At(j) = <<f, c>>
    BY DEF At
  <2>. HIDE DEF f, c
  <2>. QED BY <2>1, <1>1, HandlerAt DEF f, c
<1>. QED BY <1>2, HandlerNone DEF HandlerOn

LEMMA HandlerVisits ==
  ASSUME Control, NoFinalizer, NEW j \in Searched
  PROVE  \/ HandlerStep[At(j)] = At(j) /\ HandlerOn(calls[j].f, calls[j].c) = HandlerOf
         \/ \E i \in Searched : /\ HandlerStep[At(j)] = At(i)
                                /\ calls[i].f + calls[i].c < calls[j].f + calls[j].c
<1>1. CASE calls[j].f = 0
  BY <1>1, HandlerStops
<1>2. CASE calls[j].f # 0 /\ calls[j].k = "cp"
  <2>1. CASE /\ HandlerStep[At(j)] = At(j) /\ j \in Deciding /\ \A i \in Deciding : i <= j
             /\ HandlerOn(calls[j].f, calls[j].c) = calls[j].h
    BY <2>1, HandlerIs
  <2>2. CASE /\ HandlerStep[At(j)] = At(j - 1) /\ j - 1 \in Searched
             /\ calls[j - 1].f + calls[j - 1].c < calls[j].f + calls[j].c
    BY <2>2
  <2>. QED BY <2>1, <2>2, <1>2, HandlerGoesCp
<1>3. CASE calls[j].f # 0 /\ calls[j].k # "cp"
  <2>1. CASE /\ HandlerStep[At(j)] = At(j) /\ j - 1 \in Deciding /\ \A i \in Deciding : i <= j - 1
             /\ HandlerOn(calls[j].f, calls[j].c) = calls[j - 1].h
    <3>1. HandlerOf = calls[j - 1].h
      <4>. DEFINE i == j - 1
      <4>1. i \in Deciding /\ \A q \in Deciding : q <= i
        BY <2>1
      <4>. HIDE DEF i
      <4>2. HandlerOf = calls[i].h
        BY <4>1, HandlerIs
      <4>. QED BY <4>2 DEF i
    <3>. QED BY <2>1, <3>1
  <2>2. CASE /\ HandlerStep[At(j)] = At(j - 1) /\ j - 1 \in Searched
             /\ calls[j - 1].f + calls[j - 1].c < calls[j].f + calls[j].c
    BY <2>2
  <2>3. CASE /\ HandlerStep[At(j)] = At(j - 2) /\ j - 2 \in Searched
             /\ calls[j - 2].f + calls[j - 2].c < calls[j].f + calls[j].c
    BY <2>3
  <2>. QED BY <2>1, <2>2, <2>3, <1>3, HandlerGoes
<1>. QED BY <1>1, <1>2, <1>3

LEMMA HandlerWalk ==
  ASSUME Control, MayFail, NoFinalizer
  PROVE  \E j \in Searched : Walk(HandlerStep) = At(j) /\ HandlerStep[At(j)] = At(j)
<1>. DEFINE G == {At(j) : j \in Searched}
<1>1. \A j \in Searched : j \in 1 .. Len(calls)
  BY DEF Searched
<1>2. \A p \in G : p[1] \in Nat /\ p[2] \in Nat
  <2>1. ASSUME NEW j \in Searched PROVE At(j)[1] \in Nat /\ At(j)[2] \in Nat
    BY <1>1, AtPosition, Facts
  <2>. QED BY <2>1
<1>3. <<base - 1, Len(cframe)>> \in G
  <2>1. Len(calls) \in Searched
    BY Facts DEF Searched, Deciding, Protected, MayFail, Innermost
  <2>2. At(Len(calls)) = <<base - 1, Len(cframe)>>
    BY Facts DEF At, Innermost
  <2>. QED BY <2>1, <2>2
<1>4. \A p \in G : HandlerStep[p] \in G /\ (HandlerStep[p] = p \/ HandlerStep[p][1] + HandlerStep[p][2] < p[1] + p[2])
  <2>1. ASSUME NEW j \in Searched
        PROVE  /\ HandlerStep[At(j)] \in G
               /\ \/ HandlerStep[At(j)] = At(j)
                  \/ HandlerStep[At(j)][1] + HandlerStep[At(j)][2] < At(j)[1] + At(j)[2]
    <3>1. CASE HandlerStep[At(j)] = At(j)
      BY <3>1
    <3>2. CASE HandlerStep[At(j)] # At(j)
      <4>1. PICK i \in Searched : HandlerStep[At(j)] = At(i) /\ calls[i].f + calls[i].c < calls[j].f + calls[j].c
        BY <3>2, HandlerVisits
      <4>2. At(i)[1] = calls[i].f /\ At(i)[2] = calls[i].c /\ At(j)[1] = calls[j].f /\ At(j)[2] = calls[j].c
        BY DEF At
      <4>. QED BY <4>1, <4>2
    <3>. QED BY <3>1, <3>2
  <2>. QED BY <2>1
<1>5. base \in Nat \ {0} /\ Len(cframe) \in Nat
  BY Facts
<1>. HIDE DEF G
<1>6. Walk(HandlerStep) \in G /\ HandlerStep[Walk(HandlerStep)] = Walk(HandlerStep)
  BY <1>2, <1>3, <1>4, <1>5, WalkEnds
<1>. QED BY <1>6 DEF G

\* The property HandlerFound.
LEMMA Handles ==
  ASSUME Control
  PROVE  HandlerFound
<1>. SUFFICES ASSUME NoFinalizer, MayFail PROVE finderrfunc = HandlerOf
  BY DEF HandlerFound, HandlerInherited, NoFinalizer
<1>1. PICK j \in Searched : Walk(HandlerStep) = At(j) /\ HandlerStep[At(j)] = At(j)
  BY HandlerWalk
<1>2. HandlerOn(calls[j].f, calls[j].c) = HandlerOf
  <2>1. ASSUME NEW i \in Searched, HandlerStep[At(j)] = At(i) PROVE ~(calls[i].f + calls[i].c < calls[j].f + calls[j].c)
    <3>1. calls[i].f = calls[j].f /\ calls[i].c = calls[j].c
      BY <1>1, <2>1 DEF At
    <3>2. calls[j].f \in Nat /\ calls[j].c \in Nat
      BY Facts DEF Searched
    <3>. QED BY <3>1, <3>2
  <2>. QED BY <2>1, HandlerVisits
<1>3. finderrfunc = HandlerOn(calls[j].f, calls[j].c)
  <2>. DEFINE f == calls[j].f
              c == calls[j].c
  <2>1. Walk(HandlerStep)[1] = f /\ Walk(HandlerStep)[2] = c
    BY <1>1 DEF At
  <2>. HIDE DEF f, c
  <2>2. finderrfunc = HandlerOn(f, c)
    BY <2>1, Zenon DEF finderrfunc, HandlerOn
  <2>. QED BY <2>2 DEF f, c
<1>. QED BY <1>2, <1>3
(***************************************************************************)
(* The stack is large enough.                                              *)
(***************************************************************************)
LEMMA SizeFacts ==
  ASSUME Control, Sizes
  PROVE  /\ stacksize \in Nat /\ top \in Nat /\ base \in Nat \ {0} /\ Len(calls) \in Nat \ {0}
         /\ Room(stacksize) \in Int /\ LJ_STACK_EXTRA \in Nat /\ LJ_STACK_EXTRA >= 5 /\ LUAI_MAXSTACK \in Nat
         /\ Room(stacksize) = stacksize - LJ_STACK_EXTRA - 1 /\ maxstack = Room(stacksize)
         /\ Overdrawn => AtLimit(stacksize)
         /\ \A i \in 1 .. Len(calls) : i # Len(calls) => FitsIn(calls[i], frames, stacksize)
         /\ ~Exempt => FitsIn(Innermost, frames, stacksize) /\ \A i \in 1 .. Len(calls) : FitsIn(calls[i], frames, stacksize)
<1>1. stacksize \in Nat /\ top \in Nat /\ base \in Nat \ {0} /\ Len(calls) \in Nat \ {0}
  BY Facts DEF Rest
<1>2. /\ Room(stacksize) \in Int /\ LJ_STACK_EXTRA \in Nat /\ LJ_STACK_EXTRA >= 5 /\ LUAI_MAXSTACK \in Nat
      /\ Room(stacksize) = stacksize - LJ_STACK_EXTRA - 1 /\ maxstack = Room(stacksize)
      /\ Overdrawn => AtLimit(stacksize)
  BY <1>1, StackConstants DEF Room, maxstack, Overdrawn, LJ_STACK_MAXEX, AtLimit
<1>3. \A i \in 1 .. Len(calls) : i # Len(calls) => FitsIn(calls[i], frames, stacksize)
  BY DEF Sizes, AllFit
<1>4. ASSUME ~Exempt
      PROVE  FitsIn(Innermost, frames, stacksize) /\ \A i \in 1 .. Len(calls) : FitsIn(calls[i], frames, stacksize)
  BY <1>1, <1>4 DEF Sizes, AllFit, Innermost
<1>. QED BY <1>1, <1>2, <1>3, <1>4

\* A larger stack holds what the smaller one did.
LEMMA RoomGrows ==
  ASSUME NEW size \in Nat, NEW larger \in Nat, size <= larger
  PROVE  /\ Room(size) \in Int /\ Room(larger) \in Int /\ Room(size) <= Room(larger)
         /\ Room(larger) <= larger
         /\ AtLimit(size) => AtLimit(larger)
BY StackConstants DEF Room, AtLimit

LEMMA WithinGrows ==
  ASSUME NEW size \in Nat, NEW larger \in Nat, size <= larger, NEW t \in Nat, NEW b \in Nat, Within(t, b, size)
  PROVE  Within(t, b, larger)
BY RoomGrows DEF Within

LEMMA FitsGrows ==
  ASSUME NEW size \in Nat, NEW larger \in Nat, size <= larger, NEW a, a.f \in Nat,
         NEW fr, NEW fr2, IsFrame(a) => framesize(fr, a.f) \in Nat /\ framesize(fr2, a.f) = framesize(fr, a.f),
         FitsIn(a, fr, size)
  PROVE  FitsIn(a, fr2, larger)
<1>. DEFINE f == a.f
            w == framesize(fr, a.f)
            w2 == framesize(fr2, a.f)
<1>1. /\ Room(size) \in Int /\ Room(larger) \in Int /\ Room(size) <= Room(larger)
      /\ AtLimit(size) => AtLimit(larger)
  BY RoomGrows
<1>2. a.k # "ff" => f < Room(size)
  BY DEF FitsIn
<1>3. IsFrame(a) => (f + 1 + w <= Room(size) \/ AtLimit(size)) /\ w \in Nat /\ w2 = w
  BY DEF FitsIn
<1>. f \in Nat
  OBVIOUS
<1>4. (a.k # "ff" => f < Room(larger)) /\ (IsFrame(a) => f + 1 + w2 <= Room(larger) \/ AtLimit(larger))
  <2>. HIDE DEF f, w, w2
  <2>. QED BY <1>1, <1>2, <1>3
<1>. QED BY <1>4 DEF FitsIn

\* What a check has come to, for the sizes.
Grown(o, short, need, t, u, next) ==
  /\ stacksize' \in Nat /\ stacksize <= stacksize' /\ Bounded'
  /\ \/ /\ o.e = "none" /\ top' = u /\ todo' = next
        /\ ~short => stacksize' = stacksize
        /\ short => ~AtLimit(stacksize) /\ stacksize + need <= Room(stacksize') /\ ~Overdrawn
     \/ o.e = "mem" /\ top' = t + 1 /\ todo'.do = "throw" /\ short /\ stacksize' = stacksize /\ Exempt'
     \/ o.e = "msg" /\ top' = t /\ todo'.do = "msg" /\ short /\ AtLimit(stacksize') /\ Exempt'
     \/ o.e = "throw" /\ top' = t /\ todo'.do = "throw" /\ short /\ Overdrawn /\ stacksize' = stacksize /\ Exempt'

LEMMA RequestsNat == Requests \subseteq Nat /\ \A q \in Requests : q \in Nat
BY StackConstants DEF Requests

LEMMA BoundedGrows ==
  ASSUME stacksize \in Nat, NEW short, NEW need \in Int, NEW o, Result(o, short, need), stacksize' = o.size,
         Bounded, short => \E q \in Requests : need <= q
  PROVE  Bounded'
<1>0. LJ_STACK_MAXEX \in Nat /\ LUA_MINSTACK \in Nat /\ LJ_STACK_EXTRA \in Nat
  BY StackConstants DEF LJ_STACK_MAXEX
<1>1. CASE o.size = stacksize
  BY <1>1 DEF Bounded
<1>2. CASE o.size # stacksize
  <2>1. short /\ o.e \in {"none", "msg"} /\ o.size \in Nat
    BY <1>2 DEF Result
  <2>2. PICK q \in Requests : need <= q
    BY <2>1
  <2>3. q \in Nat
    BY RequestsNat
  <2>4. o.size <= LJ_STACK_MAXEX + q + 2 * LUA_MINSTACK + 1 + LJ_STACK_EXTRA
    <3>1. CASE o.e = "none"
      <4>1. o.size <= LJ_STACK_MAXEX
        BY <2>1, <3>1 DEF Result
      <4>. QED BY <4>1, <2>1, <2>3, <1>0
    <3>2. CASE o.e = "msg"
      <4>1. o.size <= LJ_STACK_MAXEX + need + 2 * LUA_MINSTACK + 1 + LJ_STACK_EXTRA
        BY <2>1, <3>2 DEF Result
      <4>. QED BY <4>1, <2>1, <2>2, <2>3, <1>0
    <3>. QED BY <2>1, <3>1, <3>2
  <2>. QED BY <2>4 DEF Bounded
<1>. QED BY <1>1, <1>2

LEMMA GrownBy ==
  ASSUME stacksize \in Nat, NEW short \in BOOLEAN, NEW need \in Int, NEW o, Result(o, short, need),
         NEW t, NEW u, NEW next, Outcome(o, t, u, next),
         Bounded, short => \E q \in Requests : need <= q, short => need >= 0
  PROVE  Grown(o, short, need, t, u, next)
<1>0. LJ_STACK_MAXEX = LUAI_MAXSTACK + 1 + LJ_STACK_EXTRA /\ LUAI_MAXSTACK \in Nat /\ LJ_STACK_EXTRA \in Nat
  BY StackConstants DEF LJ_STACK_MAXEX
<1>1. stacksize' \in Nat /\ stacksize' = o.size /\ stacksize <= stacksize'
  BY DEF Outcome, Result
<1>2. Bounded'
  BY <1>1, BoundedGrows
<1>3. CASE o.e = "none"
  <2>1. top' = u /\ todo' = next
    BY <1>3 DEF Outcome
  <2>2. ~short => stacksize' = stacksize
    BY <1>1 DEF Result
  <2>3. ASSUME short PROVE ~AtLimit(stacksize) /\ stacksize + need <= Room(stacksize') /\ ~Overdrawn
    <3>1. /\ stacksize + need + 1 + LJ_STACK_EXTRA <= stacksize'
          /\ stacksize' <= LJ_STACK_MAXEX /\ stacksize + need <= LUAI_MAXSTACK
      BY <1>1, <1>3, <2>3 DEF Result
    <3>2. need >= 0
      BY <2>3
    <3>. QED BY <1>0, <1>1, <3>1, <3>2 DEF AtLimit, Room, Overdrawn
  <2>. QED BY <1>1, <1>2, <1>3, <2>1, <2>2, <2>3 DEF Grown
<1>4. ASSUME o.e # "none" PROVE short
  BY <1>4 DEF Result
<1>5. CASE o.e = "mem"
  <2>1. top' = t + 1 /\ todo'.do = "throw" /\ stacksize' = stacksize
    BY <1>5 DEF Outcome, Result
  <2>. QED BY <1>1, <1>2, <1>4, <1>5, <2>1 DEF Grown, Exempt
<1>6. CASE o.e = "msg"
  <2>1. top' = t /\ todo'.do = "msg" /\ o.size > LJ_STACK_MAXEX
    BY <1>6 DEF Outcome, Result
  <2>2. AtLimit(stacksize') /\ Overdrawn'
    BY <1>0, <1>1, <2>1 DEF AtLimit, Room, Overdrawn
  <2>. QED BY <1>1, <1>2, <1>4, <1>6, <2>1, <2>2 DEF Grown, Exempt
<1>7. CASE o.e = "throw"
  <2>1. top' = t /\ todo'.do = "throw" /\ stacksize' = stacksize /\ Overdrawn
    BY <1>7 DEF Outcome, Result
  <2>. QED BY <1>1, <1>2, <1>4, <1>7, <2>1 DEF Grown, Exempt
<1>. QED BY <1>3, <1>5, <1>6, <1>7 DEF Outcome

LEMMA GrownRoom ==
  ASSUME stacksize \in Nat, NEW o, NEW short, NEW need, NEW t, NEW u, NEW next, Grown(o, short, need, t, u, next)
  PROVE  /\ stacksize' \in Nat /\ stacksize <= stacksize' /\ Bounded'
         /\ Room(stacksize') \in Int /\ Room(stacksize') <= stacksize'
         /\ AtLimit(stacksize) => AtLimit(stacksize')
<1>1. stacksize' \in Nat /\ stacksize <= stacksize' /\ Bounded'
  BY DEF Grown
<1>. QED BY <1>1, RoomGrows

LEMMA SizesFrom ==
  ASSUME Bounded', AllFit', TopFits', RunTop', CallFits', CatchFits'
  PROVE  Sizes'
BY DEF Sizes

\* The stack grows, and nothing moves.
LEMMA CatchGrows ==
  ASSUME Control, Sizes, MayFail, Still, stacksize' \in Nat, stacksize <= stacksize'
  PROVE  CatchFits'
<1>1. CASE Len(calls) > 1
  <2>. DEFINE a == calls[Len(calls) - 1]
  <2>1. a.f \in Nat /\ base \in Nat /\ stacksize \in Nat /\ a.f + 1 \in Nat
    BY <1>1, Facts, SizeFacts
  <2>2. ASSUME a.k = "enter" /\ a.prot /\ a.after = "continue" PROVE Within(base, a.f + 1, stacksize')
    <3>1. Within(base, a.f + 1, stacksize)
      <4>1. CASE Exempt
        BY <1>1, <2>2, <4>1 DEF Sizes, CatchFits
      <4>2. CASE ~Exempt
        <5>1. FitsIn(Innermost, frames, stacksize) /\ Innermost.k # "ff" /\ Innermost.f = base - 1
          BY <4>2, SizeFacts, Facts DEF MayFail
        <5>2. base - 1 < Room(stacksize) /\ Room(stacksize) \in Int
          BY <5>1, SizeFacts DEF FitsIn
        <5>. QED BY <5>2, <2>1 DEF Within
      <4>. QED BY <4>1, <4>2
    <3>. HIDE DEF a
    <3>. QED BY <3>1, <2>1, WithinGrows
  <2>. QED BY <2>2 DEF CatchFits, Still
<1>2. CASE ~(Len(calls) > 1)
  BY <1>2 DEF CatchFits, Still
<1>. QED BY <1>1, <1>2

LEMMA AllGrow ==
  ASSUME Control, Sizes, Still, stacksize' \in Nat, stacksize <= stacksize',
         ~Exempt' => FitsIn(Innermost, frames, stacksize')
  PROVE  AllFit'
<1>1. ASSUME NEW i \in 1 .. Len(calls), i # Len(calls) PROVE FitsIn(calls[i], frames, stacksize')
  <2>1. FitsIn(calls[i], frames, stacksize) /\ stacksize \in Nat /\ calls[i].f \in Nat
    BY <1>1, SizeFacts, Facts
  <2>2. framesize(frames, calls[i].f) \in Nat
    BY Facts, Sized
  <2>. QED BY <2>1, <2>2, FitsGrows
<1>. QED BY <1>1 DEF AllFit, Still, Innermost

LEMMA SizesGrow ==
  ASSUME Control, Sizes, MayFail, Still, NEW short \in BOOLEAN, NEW need, NEW o, NEW t, NEW u, NEW next \in TodoType,
         Grown(o, short, need, t, u, next), next.do \notin {"call", "return"},
         next.do = "run" => Innermost.k # "lua",
         o.e = "none" => /\ u <= stacksize' \/ AtLimit(stacksize')
                         /\ next.do \in {"run", "line", "err"} =>
                              Within(u, base, stacksize') /\ FitsIn(Innermost, frames, stacksize'),
         next.do # "msg",
         o.e = "mem" => t + 1 <= stacksize \/ AtLimit(stacksize)
  PROVE  Sizes' 
<1>1. stacksize' \in Nat /\ stacksize <= stacksize' /\ Bounded' /\ stacksize \in Nat
  BY SizeFacts DEF Grown
<1>2. CatchFits'
  BY <1>1, CatchGrows
<1>3. TopFits'
  <2>1. CASE o.e = "none"
    BY <2>1 DEF TopFits, Grown
  <2>2. CASE o.e = "mem"
    BY <2>2 DEF TopFits, Grown
  <2>3. CASE o.e = "msg"
    BY <2>3 DEF TopFits, Grown
  <2>4. CASE o.e = "throw"
    BY <2>4, SizeFacts DEF TopFits, Grown
  <2>. QED BY <2>1, <2>2, <2>3, <2>4 DEF Grown
<1>4. CASE o.e # "none"
  <2>1. Exempt' /\ todo'.do \in {"throw", "msg"}
    BY <1>4 DEF Grown
  <2>2. AllFit'
    BY <2>1, <1>1, AllGrow
  <2>3. RunTop' /\ CallFits'
    BY <2>1 DEF RunTop, CallFits
  <2>. QED BY <1>1, <1>2, <1>3, <2>2, <2>3, SizesFrom
<1>5. CASE o.e = "none"
  <2>1. top' = u /\ todo' = next
    BY <1>5 DEF Grown
  <2>2. Innermost' = Innermost /\ base' = base /\ frames' = frames
    BY DEF Still, Innermost
  <2>3. RunTop'
    <3>1. ~Exempt' /\ todo'.do \in {"run", "msg", "line", "err"} => Within(top', base, stacksize')
      BY <1>5, <2>1
    <3>. QED BY <2>1, <2>2, <3>1 DEF RunTop
  <2>4. CallFits'
    BY <2>1 DEF CallFits
  <2>5. AllFit'
    <3>1. ASSUME ~Exempt' PROVE FitsIn(Innermost, frames, stacksize')
      <4>1. todo'.do \in {"run", "throw", "line", "err", "msg", "call", "return"}
        BY <2>1 DEF TodoType
      <4>. QED BY <4>1, <3>1, <2>1, <1>5 DEF Exempt
    <3>. QED BY <3>1, <1>1, AllGrow
  <2>. QED BY <1>1, <1>2, <1>3, <2>3, <2>4, <2>5, SizesFrom
<1>. QED BY <1>4, <1>5
\* While a function goes on, or raises an error, its values are within the stack.
LEMMA TopBound ==
  ASSUME Control, Sizes, ~Exempt, todo.do \in {"run", "msg", "line", "err"}
  PROVE  /\ Within(top, base, stacksize)
         /\ top <= Room(stacksize) + 2 \/ AtLimit(stacksize)
         /\ base <= Room(stacksize)
<1>1. Within(top, base, stacksize)
  BY DEF Sizes, RunTop
<1>2. FitsIn(Innermost, frames, stacksize) /\ Innermost.k # "ff" /\ Innermost.f = base - 1
  BY SizeFacts, Facts DEF NextOther, MayFail
<1>3. base <= Room(stacksize)
  BY <1>2, SizeFacts DEF FitsIn
<1>. QED BY <1>1, <1>3, SizeFacts DEF Within

\* Where a value is pushed.
PushedAt(t) == t \in Nat /\ base <= t /\ (~Exempt => t <= Room(stacksize) + 2 \/ AtLimit(stacksize))

LEMMA SizesIncr ==
  ASSUME Control, Sizes, MayFail, Still, NEW t, PushedAt(t), NEW next \in TodoType,
         next.do \in {"run", "throw", "line", "err"}, next.do = "run" => Innermost.k # "lua",
         incr_top(t, next), todo.do \in {"run", "msg", "line"}
  PROVE  Sizes'
<1>. DEFINE short == t + 1 >= maxstack
            u == t + 1
<1>1. /\ stacksize \in Nat /\ t \in Nat /\ base \in Nat \ {0} /\ base <= t /\ maxstack = Room(stacksize)
      /\ Room(stacksize) \in Int /\ Room(stacksize) = stacksize - LJ_STACK_EXTRA - 1
      /\ LJ_STACK_EXTRA \in Nat /\ LJ_STACK_EXTRA >= 5
  BY SizeFacts DEF PushedAt
<1>2. PICK o : Result(o, short, 1) /\ Outcome(o, u, u, next)
  BY <1>1, Incr
<1>3. Grown(o, short, 1, u, u, next)
  <2>1. 1 \in Requests /\ Bounded /\ short \in BOOLEAN
    BY DEF Requests, Sizes
  <2>. HIDE DEF short, u
  <2>. QED BY <1>1, <1>2, <2>1, GrownBy
<1>4. Exempt => AtLimit(stacksize)
  BY SizeFacts DEF Exempt
<1>5. t <= Room(stacksize) + 2 \/ AtLimit(stacksize)
  BY <1>4 DEF PushedAt
<1>6. ASSUME o.e = "none"
      PROVE  /\ u <= stacksize' \/ AtLimit(stacksize')
             /\ Within(u, base, stacksize') /\ FitsIn(Innermost, frames, stacksize')
  <2>1. /\ stacksize' \in Nat /\ Room(stacksize') \in Int /\ Room(stacksize') <= stacksize'
        /\ AtLimit(stacksize) => AtLimit(stacksize')
    BY <1>1, <1>3, GrownRoom
  <2>2. CASE short
    <3>1. ~AtLimit(stacksize) /\ stacksize + 1 <= Room(stacksize') /\ stacksize <= stacksize' /\ ~Overdrawn
      BY <1>3, <1>6, <2>2 DEF Grown
    <3>2. ~Exempt
      BY <3>1 DEF Exempt
    <3>3. FitsIn(Innermost, frames, stacksize) /\ Innermost.f \in Nat /\ framesize(frames, Innermost.f) \in Nat
      BY <3>2, SizeFacts, Facts, InnermostSized
    <3>4. FitsIn(Innermost, frames, stacksize')
      BY <1>1, <2>1, <3>1, <3>3, FitsGrows
    <3>5. u <= Room(stacksize')
      BY <1>1, <1>5, <2>1, <3>1
    <3>. QED BY <1>1, <2>1, <3>4, <3>5 DEF Within
  <2>3. CASE ~short
    <3>1. stacksize' = stacksize /\ u < Room(stacksize)
      BY <1>1, <1>3, <1>6, <2>3 DEF Grown
    <3>2. FitsIn(Innermost, frames, stacksize)
      <4>1. CASE Exempt
        <5>1. base - 1 < Room(stacksize) /\ Innermost.f = base - 1
          BY <1>1, <3>1, Facts
        <5>. QED BY <5>1, <1>4, <4>1 DEF FitsIn
      <4>2. CASE ~Exempt
        BY <4>2, SizeFacts
      <4>. QED BY <4>1, <4>2
    <3>. QED BY <1>1, <3>1, <3>2 DEF Within
  <2>. QED BY <2>2, <2>3
<1>7. u + 1 <= stacksize \/ AtLimit(stacksize)
  BY <1>1, <1>5
<1>8. short \in BOOLEAN
  OBVIOUS
<1>. HIDE DEF short, u
<1>. QED BY <1>3, <1>6, <1>7, <1>8, SizesGrow

LEMMA SizesIncrTop ==
  ASSUME Control, Sizes, Still, NEW next \in TodoType,
         next.do \in {"run", "throw", "line", "err"}, next.do = "run" => Innermost.k # "lua",
         incr_top(top, next), todo.do \in {"run", "line"}
  PROVE  Sizes'
<1>1. ~Exempt /\ MayFail /\ top \in Nat /\ base <= top
  BY Facts DEF Exempt, NextOther, Rest, TopAbove
<1>2. PushedAt(top)
  BY <1>1, TopBound DEF PushedAt
<1>. QED BY <1>1, <1>2, SizesIncr

LEMMA SizesPush ==
  ASSUME Control, Sizes, Push
  PROVE  Sizes'
<1>1. todo \in TodoType /\ todo.do = "run" /\ Innermost.k # "lua"
  BY Facts DEF Push, Running, Rest
<1>2. Still /\ incr_top(top, todo)
  BY DEF Push, Still
<1>. QED BY <1>1, <1>2, SizesIncrTop

LEMMA SizesErrorCp ==
  ASSUME Control, Sizes, ErrorCp
  PROVE  Sizes'
<1>. DEFINE next == Go("throw")
<1>1. todo.do = "run" /\ next \in TodoType /\ next.do = "throw"
  BY Goes DEF ErrorCp, Running
<1>2. Still /\ incr_top(top, next)
  BY DEF ErrorCp, Still
<1>. HIDE DEF next
<1>. QED BY <1>1, <1>2, SizesIncrTop

LEMMA SizesLine ==
  ASSUME Control, Sizes, lj_debug_addloc
  PROVE  Sizes'
<1>. DEFINE next == Go("err")
<1>1. todo.do = "line" /\ next \in TodoType /\ next.do = "err"
  BY Goes DEF lj_debug_addloc
<1>2. Still /\ incr_top(top, next)
  BY DEF lj_debug_addloc, Still
<1>. HIDE DEF next
<1>. QED BY <1>1, <1>2, SizesIncrTop

LEMMA SizesMsg ==
  ASSUME Control, Sizes, err_msgv
  PROVE  Sizes'
<1>. DEFINE t == curr_top(base, frames, top)
            next == Go("line")
<1>1. /\ MayFail /\ todo.do = "msg" /\ top \in Nat /\ base \in Nat \ {0} /\ base <= top
      /\ next \in TodoType /\ next.do = "line"
  BY Facts, Goes DEF err_msgv, NextOther, Rest, TopAbove
<1>2. Still /\ incr_top(t, next)
  BY DEF err_msgv, Still
<1>3. PushedAt(t)
  <2>1. CASE Innermost.k = "lua"
    <3>1. t = base + framesize(frames, base - 1) /\ framesize(frames, base - 1) \in Nat
      BY <2>1, InnermostSized DEF curr_top
    <3>2. ASSUME ~Exempt PROVE t <= Room(stacksize) + 2 \/ AtLimit(stacksize)
      <4>1. FitsIn(Innermost, frames, stacksize) /\ Innermost.f = base - 1 /\ IsFrame(Innermost)
        BY <2>1, <3>2, SizeFacts, Facts DEF IsFrame, FrameKinds
      <4>2. base - 1 + 1 + framesize(frames, base - 1) <= Room(stacksize) \/ AtLimit(stacksize)
        BY <4>1 DEF FitsIn
      <4>. QED BY <1>1, <3>1, <4>2, SizeFacts
    <3>3. t \in Nat /\ base <= t
      BY <1>1, <3>1
    <3>. QED BY <3>2, <3>3 DEF PushedAt
  <2>2. CASE Innermost.k # "lua"
    <3>1. t = top
      BY <2>2, <1>1, InnermostSized DEF curr_top, MayFail
    <3>. QED BY <3>1, <1>1, TopBound DEF PushedAt
  <2>. QED BY <2>1, <2>2
<1>. HIDE DEF t, next
<1>. QED BY <1>1, <1>2, <1>3, SizesIncr

LEMMA SizesSettop ==
  ASSUME Control, Sizes, NEW n \in CSlots \cup {0}, lua_settop(n)
  PROVE  Sizes'
<1>. DEFINE short == base + n > top /\ Grows(n)
            need == n - (top - base)
            u == base + n
<1>1. /\ MayFail /\ todo \in TodoType /\ todo.do = "run" /\ Innermost.k = "c" /\ ~Exempt
      /\ top \in Nat /\ base \in Nat \ {0} /\ stacksize \in Nat /\ n \in Nat /\ base <= top
      /\ maxstack = Room(stacksize) /\ Room(stacksize) \in Int /\ Room(stacksize) = stacksize - LJ_STACK_EXTRA - 1
      /\ LJ_STACK_EXTRA \in Nat /\ LJ_STACK_EXTRA >= 5
  BY Facts, SizeFacts, StackConstants DEF lua_settop, Running, Rest, MayFail, TopAbove, Exempt
<1>2. Still
  BY DEF lua_settop, Still
<1>3. PICK o \in Checked(short, need) : GoOn(o, top, u, todo)
  BY DEF lua_settop
<1>4. /\ short => need \in Nat /\ (\E q \in Requests : need <= q) /\ need >= 0
      /\ short \in BOOLEAN /\ need \in Int /\ u \in Nat
  <2>1. ASSUME short PROVE need \in Nat /\ need <= n /\ n \in CSlots
    BY <1>1, <2>1
  <2>2. short => need \in Nat /\ (\E q \in Requests : need <= q) /\ need >= 0
    BY <2>1 DEF Requests
  <2>. QED BY <2>2, <1>1
<1>5. Within(top, base, stacksize) /\ (top <= Room(stacksize) + 2 \/ AtLimit(stacksize)) /\ base <= Room(stacksize)
  BY <1>1, TopBound
<1>6. (short => u = top + need /\ top < u) /\ (~short => u <= top \/ u < Room(stacksize))
  BY <1>1 DEF Grows
<1>7. Result(o, short, need) /\ Outcome(o, top, u, todo) /\ Grown(o, short, need, top, u, todo)
  <2>. HIDE DEF short, need, u
  <2>1. Result(o, short, need)
    BY <1>1, <1>3, <1>4, Checks
  <2>2. Outcome(o, top, u, todo)
    BY <1>1, <1>3, <1>4, <2>1, GoesOn
  <2>3. Bounded
    BY DEF Sizes
  <2>. QED BY <1>1, <1>4, <2>1, <2>2, <2>3, GrownBy
<1>8. ASSUME o.e = "none"
      PROVE  /\ u <= stacksize' \/ AtLimit(stacksize')
             /\ Within(u, base, stacksize') /\ FitsIn(Innermost, frames, stacksize')
  <2>. HIDE DEF short, need, u
  <2>0. FitsIn(Innermost, frames, stacksize) /\ Innermost.f \in Nat /\ framesize(frames, Innermost.f) \in Nat
    BY <1>1, SizeFacts, Facts, InnermostSized
  <2>1. /\ stacksize' \in Nat /\ Room(stacksize') \in Int /\ Room(stacksize') <= stacksize' /\ stacksize <= stacksize'
        /\ AtLimit(stacksize) => AtLimit(stacksize')
    BY <1>1, <1>7, GrownRoom
  <2>2. CASE short
    <3>1. ~AtLimit(stacksize) /\ stacksize + need <= Room(stacksize')
      BY <1>7, <1>8, <2>2 DEF Grown
    <3>2. u <= Room(stacksize')
      BY <1>1, <1>4, <1>5, <1>6, <2>1, <2>2, <3>1
    <3>3. FitsIn(Innermost, frames, stacksize')
      BY <1>1, <2>0, <2>1, FitsGrows
    <3>. QED BY <1>4, <2>1, <3>2, <3>3 DEF Within
  <2>3. CASE ~short
    <3>1. stacksize' = stacksize
      BY <1>7, <1>8, <2>3 DEF Grown
    <3>2. u <= stacksize \/ AtLimit(stacksize)
      BY <1>1, <1>4, <1>5, <1>6, <2>3
    <3>3. Within(u, base, stacksize)
      BY <1>1, <1>4, <1>5, <1>6, <2>3 DEF Within
    <3>. QED BY <2>0, <3>1, <3>2, <3>3
  <2>. QED BY <2>2, <2>3
<1>9. top + 1 <= stacksize \/ AtLimit(stacksize)
  BY <1>1, <1>5
<1>. HIDE DEF short, need, u
<1>. QED BY <1>1, <1>2, <1>4, <1>7, <1>8, <1>9, SizesGrow

LEMMA SizesCheckstack ==
  ASSUME Control, Sizes, NEW n \in CSlots, lua_checkstack(n)
  PROVE  Sizes'
<1>1. /\ MayFail /\ todo \in TodoType /\ todo.do = "run" /\ Innermost.k = "c" /\ ~Exempt
      /\ top \in Nat /\ base \in Nat \ {0} /\ stacksize \in Nat /\ n \in Nat /\ base <= top
      /\ Room(stacksize) \in Int /\ Room(stacksize) = stacksize - LJ_STACK_EXTRA - 1
      /\ LJ_STACK_EXTRA \in Nat /\ LJ_STACK_EXTRA >= 5
  BY Facts, SizeFacts, StackConstants DEF lua_checkstack, Running, Rest, MayFail, TopAbove, Exempt
<1>2. Still
  BY DEF lua_checkstack, Still
<1>3. PICK o \in growstack(n) : GoOn(o, top, top, todo)
  BY DEF lua_checkstack
<1>4. o \in Checked(TRUE, n)
  BY <1>3 DEF Checked
<1>5. Result(o, TRUE, n)
  BY <1>1, <1>4, Checks
<1>6. Outcome(o, top, top, todo)
  BY <1>1, <1>3, <1>5, GoesOn
<1>7. Grown(o, TRUE, n, top, top, todo)
  <2>1. n \in Requests /\ Bounded /\ n >= 0 /\ n <= n /\ n \in Int
    BY <1>1 DEF Requests, Sizes
  <2>. QED BY <1>1, <1>5, <1>6, <2>1, GrownBy
<1>8. (top <= Room(stacksize) + 2 \/ AtLimit(stacksize)) /\ base <= Room(stacksize)
  BY <1>1, TopBound
<1>9. ASSUME o.e = "none"
      PROVE  /\ top <= stacksize' \/ AtLimit(stacksize')
             /\ Within(top, base, stacksize') /\ FitsIn(Innermost, frames, stacksize')
  <2>0. FitsIn(Innermost, frames, stacksize) /\ Innermost.f \in Nat /\ framesize(frames, Innermost.f) \in Nat
    BY <1>1, SizeFacts, Facts, InnermostSized
  <2>1. /\ stacksize' \in Nat /\ Room(stacksize') \in Int /\ Room(stacksize') <= stacksize' /\ stacksize <= stacksize'
    BY <1>1, <1>7, GrownRoom
  <2>2. ~AtLimit(stacksize) /\ stacksize + n <= Room(stacksize')
    BY <1>7, <1>9 DEF Grown
  <2>3. top <= Room(stacksize')
    BY <1>1, <1>8, <2>1, <2>2
  <2>4. FitsIn(Innermost, frames, stacksize')
    BY <1>1, <2>0, <2>1, FitsGrows
  <2>. QED BY <1>1, <2>1, <2>3, <2>4 DEF Within
<1>10. top + 1 <= stacksize \/ AtLimit(stacksize)
  BY <1>1, <1>8
<1>. QED BY <1>1, <1>2, <1>7, <1>9, <1>10, SizesGrow

\* The active function is about to call, to return, or to raise an error.
LEMMA SizesStay ==
  ASSUME Control, Sizes, Stays, ~Exempt, MayFail, todo.do \in {"run", "err"},
         todo'.do \in {"run", "call", "return", "msg", "err", "throw"}, todo'.do = "run" => todo.do = "run",
         todo'.do = "call" => todo'.f + todo'.n + 2 <= stacksize \/ AtLimit(stacksize)
  PROVE  Sizes'
<1>1. /\ base' = base /\ frames' = frames /\ calls' = calls /\ top' = top /\ stacksize' = stacksize
      /\ Innermost' = Innermost /\ Still
  BY DEF Stays, Still, Innermost
<1>2. Bounded' /\ TopFits'
  BY <1>1 DEF Sizes, Bounded, TopFits
<1>3. AllFit'
  BY <1>1 DEF Sizes, AllFit
<1>4. RunTop'
  BY <1>1 DEF Sizes, RunTop
<1>5. CallFits'
  BY <1>1 DEF CallFits, MayFail
<1>6. CatchFits'
  <2>1. stacksize' \in Nat /\ stacksize <= stacksize'
    BY <1>1, SizeFacts
  <2>. QED BY <1>1, <2>1, CatchGrows
<1>. QED BY <1>2, <1>3, <1>4, <1>5, <1>6, SizesFrom

LEMMA LuaTop ==
  ASSUME Control, Sizes, todo.do = "run", Innermost.k = "lua"
  PROVE  /\ top = base + framesize(frames, base - 1) /\ framesize(frames, base - 1) \in Nat
         /\ top <= Room(stacksize) \/ AtLimit(stacksize)
<1>1. top = base + framesize(frames, base - 1) /\ framesize(frames, base - 1) \in Nat
  BY InnermostSized DEF Sizes, RunTop
<1>2. FitsIn(Innermost, frames, stacksize) /\ Innermost.f = base - 1 /\ IsFrame(Innermost)
  BY SizeFacts, Facts DEF Exempt, IsFrame, FrameKinds
<1>3. base - 1 + 1 + framesize(frames, base - 1) <= Room(stacksize) \/ AtLimit(stacksize)
  BY <1>2 DEF FitsIn
<1>. QED BY <1>1, <1>3, SizeFacts

\* A function calls.
LEMMA SizesCalls ==
  ASSUME Control, Sizes, Running({"lua"}), Stays, NEW f \in Nat, NEW typ \in {"LUA", "CONT"}, NEW n \in Nat,
         NEW fs \in Kinds, todo' = Calling(f, typ, n, fs), f + n <= top + 3
  PROVE  Sizes'
<1>1. todo.do = "run" /\ Innermost.k = "lua" /\ ~Exempt /\ MayFail
  BY DEF Running, Exempt, MayFail
<1>2. todo'.do = "call" /\ todo'.f = f /\ todo'.n = n
  BY CallingTyped
<1>3. f + n + 2 <= stacksize \/ AtLimit(stacksize)
  BY <1>1, SizeFacts, LuaTop
<1>. QED BY <1>1, <1>2, <1>3, SizesStay

LEMMA SizesCallLua ==
  ASSUME Control, Sizes, CallLua
  PROVE  Sizes'
<1>1. PICK f \in {base + 1, top - 1} \cap base + 1 .. top - 1, fs \in Kinds : todo' = Calling(f, "LUA", 0, fs)
  BY DEF CallLua
<1>2. Running({"lua"}) /\ Stays
  BY DEF CallLua, Stays, Still
<1>3. f \in Nat /\ f + 0 <= top + 3
  BY <1>1, SizeFacts
<1>. QED BY <1>1, <1>2, <1>3, SizesCalls

LEMMA SizesCallMeta ==
  ASSUME Control, Sizes, CallMeta
  PROVE  Sizes'
<1>1. PICK fs \in Kinds : todo' = Calling(top + 1, "CONT", 2, fs)
  BY DEF CallMeta
<1>2. Running({"lua"}) /\ Stays
  BY DEF CallMeta, Stays, Still
<1>3. top + 1 \in Nat /\ top + 1 + 2 <= top + 3
  BY SizeFacts
<1>. QED BY <1>1, <1>2, <1>3, SizesCalls

LEMMA SizesOpenUpvalue ==
  ASSUME Control, Sizes, OpenUpvalue
  PROVE  Sizes'
<1>1. Stays /\ todo.do = "run" /\ todo' = todo /\ MayFail /\ ~Exempt
  BY DEF OpenUpvalue, Running, MayFail, Exempt, Stays, Still
<1>. QED BY <1>1, SizesStay

LEMMA SizesReturnLua ==
  ASSUME Control, Sizes, ReturnLua
  PROVE  Sizes'
<1>1. Stays /\ todo.do = "run" /\ todo' = Returning(0) /\ MayFail /\ ~Exempt
  BY DEF ReturnLua, Running, MayFail, Exempt, Stays, Still
<1>2. todo'.do = "return"
  BY <1>1, ReturningTyped
<1>. QED BY <1>1, <1>2, SizesStay

LEMMA SizesReturnC ==
  ASSUME Control, Sizes, ReturnC
  PROVE  Sizes'
<1>1. PICK n \in {0, 1} : todo' = Returning(n)
  BY DEF ReturnC
<1>2. Stays /\ todo.do = "run" /\ MayFail /\ ~Exempt
  BY DEF ReturnC, Running, MayFail, Exempt, Stays, Still
<1>3. todo'.do = "return"
  BY <1>1, ReturningTyped
<1>. QED BY <1>2, <1>3, SizesStay

LEMMA SizesErrorLua ==
  ASSUME Control, Sizes, ErrorLua
  PROVE  Sizes'
<1>1. Stays /\ todo.do = "run" /\ todo' = Go("msg") /\ MayFail /\ ~Exempt
  BY DEF ErrorLua, Running, MayFail, Exempt, Stays, Still
<1>2. todo'.do = "msg"
  BY <1>1, Goes
<1>. QED BY <1>1, <1>2, SizesStay

LEMMA SizesLuaError ==
  ASSUME Control, Sizes, lua_error
  PROVE  Sizes'
<1>1. Stays /\ todo.do = "run" /\ todo' = Go("err") /\ MayFail /\ ~Exempt
  BY DEF lua_error, Running, MayFail, Exempt, Stays, Still
<1>2. todo'.do = "err"
  BY <1>1, Goes
<1>. QED BY <1>1, <1>2, SizesStay

\* C code enters the interpreter, or is called without a frame: call a is one more.
LEMMA SizesMore ==
  ASSUME Control, Sizes, MayFail, ~Exempt, todo.do \in {"run", "err"}, UNCHANGED <<base, stacksize, frames>>,
         NEW a \in CallType, a.k \in Entries, a.f = base - 1, calls' = Append(calls, a)
  PROVE  /\ Bounded' /\ AllFit'
         /\ Len(calls') = Len(calls) + 1 /\ Len(calls) \in Nat \ {0} /\ calls'[Len(calls')] = a
         /\ calls'[Len(calls') - 1] = Innermost /\ Innermost' = a
<1>1. calls \in Seq(CallType) /\ Len(calls) \in Nat \ {0} /\ base \in Nat \ {0}
  BY Facts
<1>2. /\ Len(calls') = Len(calls) + 1 /\ calls'[Len(calls) + 1] = a
      /\ \A i \in 1 .. Len(calls) : calls'[i] = calls[i]
  BY <1>1, Pushed
<1>3. FitsIn(a, frames, stacksize)
  <2>1. base <= Room(stacksize) /\ Room(stacksize) \in Int
    BY TopBound, SizeFacts
  <2>2. a.f < Room(stacksize) /\ ~IsFrame(a)
    BY <2>1, <1>1 DEF Entries, IsFrame, FrameKinds
  <2>. QED BY <2>2 DEF FitsIn
<1>4. AllFit'
  <2>1. \A i \in 1 .. Len(calls) : FitsIn(calls[i], frames, stacksize)
    BY SizeFacts
  <2>2. \A i \in 1 .. Len(calls) + 1 : FitsIn(calls'[i], frames, stacksize)
    BY <2>1, <1>1, <1>2, <1>3
  <2>. QED BY <2>2, <1>2 DEF AllFit
<1>5. Bounded'
  BY DEF Sizes, Bounded
<1>6. Len(calls') - 1 = Len(calls) /\ Len(calls) \in 1 .. Len(calls)
  BY <1>1, <1>2
<1>. QED BY <1>1, <1>2, <1>4, <1>5, <1>6 DEF Innermost

LEMMA SizesEnter ==
  ASSUME Control, Sizes, NEW f \in Nat, NEW typ \in {"C", "CP"}, NEW h \in Nat \cup {-1}, NEW nres,
         NEW after \in {"continue", "errhandler", "finalizer"}, NEW nargs \in {0, 1}, NEW fs \in Kinds,
         Enter(f, typ, h, nres, after, nargs, fs),
         UNCHANGED <<base, top, stacksize, frames>>, MayFail, todo.do \in {"run", "err"},
         f <= top, typ = "CP" /\ after = "continue" => Within(f + 1, base, stacksize)
  PROVE  Sizes'
<1>. DEFINE a == [Active("enter", base - 1, Len(cframe) + 1) EXCEPT !.prot = typ = "CP", !.h = h, !.after = after]
<1>0. ~Exempt /\ base \in Nat \ {0} /\ Len(cframe) \in Nat
  BY Facts DEF Exempt
<1>1. /\ a \in CallType /\ a.k = "enter" /\ a.f = base - 1 /\ a.after = after
      /\ a.prot <=> typ = "CP"
  <2>1. base - 1 \in Nat /\ Len(cframe) + 1 \in Nat /\ a = EnterActive(base - 1, Len(cframe) + 1, typ, h, after)
    BY <1>0 DEF EnterActive
  <2>. HIDE DEF a
  <2>. QED BY <2>1, EnterTyped
<1>2. calls' = Append(calls, a) /\ todo' = Calling(f, typ, nargs, fs)
  BY DEF Enter
<1>. HIDE DEF a
<1>3. Bounded' /\ AllFit' /\ Innermost' = a
  <2>1. a.k \in Entries
    BY <1>1 DEF Entries
  <2>. QED BY <1>0, <1>1, <1>2, <2>1, SizesMore
<1>4. todo'.do = "call" /\ todo'.f = f /\ todo'.n = nargs
  BY <1>2, CallingTyped
<1>5. TopFits' /\ RunTop' /\ CatchFits'
  BY <1>4 DEF Sizes, TopFits, RunTop, CatchFits, Exempt
<1>6. CallFits'
  <2>1. f + nargs + 2 <= stacksize \/ AtLimit(stacksize)
    BY <1>0, TopBound, SizeFacts
  <2>2. a.prot /\ a.k = "enter" /\ a.after = "continue" => Within(f + 1, base, stacksize)
    BY <1>1
  <2>. QED BY <1>3, <1>4, <2>1, <2>2 DEF CallFits
<1>. QED BY <1>3, <1>5, <1>6, SizesFrom

LEMMA SizesLuaCall ==
  ASSUME Control, Sizes, lua_call
  PROVE  Sizes'
<1>1. PICK fs \in Kinds, w \in NRes : Enter(top - 1, "C", 0, w, "continue", 0, fs)
  BY DEF lua_call
<1>2. /\ UNCHANGED <<base, top, stacksize, frames>> /\ MayFail /\ todo.do = "run"
      /\ top \in Nat /\ Bottom \in Nat /\ top > Bottom
  BY Facts, BottomAt DEF lua_call, Running, MayFail, Rest
<1>3. top - 1 \in Nat /\ top - 1 <= top
  BY <1>2
<1>. QED BY <1>1, <1>2, <1>3, SizesEnter

LEMMA SizesLuaPcall ==
  ASSUME Control, Sizes, lua_pcall
  PROVE  Sizes'
<1>1. PICK fs \in Kinds, w \in NRes, h \in {0} \cup (IF top - 1 > base THEN {base} ELSE {}) :
        Enter(top - 1, "CP", h, w, "continue", 0, fs)
  BY DEF lua_pcall
<1>2. /\ UNCHANGED <<base, top, stacksize, frames>> /\ MayFail /\ todo.do = "run"
      /\ top \in Nat /\ base \in Nat \ {0} /\ top > base
  BY Facts DEF lua_pcall, Running, MayFail, Rest
<1>3. top - 1 \in Nat /\ top - 1 <= top /\ h \in Nat \cup {-1} /\ top - 1 + 1 = top
  BY <1>2
<1>4. Within(top, base, stacksize)
  BY <1>2, TopBound DEF Exempt
<1>. QED BY <1>1, <1>2, <1>3, <1>4, SizesEnter

LEMMA SizesFinalizer ==
  ASSUME Control, Sizes, gc_call_finalizer
  PROVE  Sizes'
<1>1. PICK fs \in Kinds : Enter(top, "CP", -1, 0, "finalizer", 1, fs)
  BY DEF gc_call_finalizer
<1>2. /\ UNCHANGED <<base, top, stacksize, frames>> /\ MayFail /\ todo.do = "run" /\ top \in Nat
  BY Facts DEF gc_call_finalizer, NextOther, Rest
<1>3. top <= top
  BY <1>2
<1>. QED BY <1>1, <1>2, <1>3, SizesEnter

LEMMA SizesErrRun ==
  ASSUME Control, Sizes, lj_err_run
  PROVE  Sizes'
<1>1. todo.do = "err" /\ MayFail /\ top \in Nat /\ base \in Nat /\ base < top /\ ~Exempt
  BY Facts DEF lj_err_run, NextOther, TopAbove, Rest, Exempt
<1>2. CASE RunsHandler
  <2>1. PICK fs \in Kinds : Enter(top - 1, "C", 0, 1, "errhandler", 1, fs)
    BY <1>2 DEF lj_err_run, Kinds
  <2>2. UNCHANGED <<base, top, stacksize, frames>>
    BY <1>2 DEF lj_err_run
  <2>3. top - 1 \in Nat /\ top - 1 <= top
    BY <1>1
  <2>. QED BY <2>1, <2>2, <2>3, <1>1, SizesEnter
<1>3. CASE ~RunsHandler
  <2>1. todo' = Go("throw") /\ Stays
    BY <1>3 DEF lj_err_run, Stays, Still
  <2>2. todo'.do = "throw"
    BY <2>1, Goes
  <2>. QED BY <2>1, <2>2, <1>1, SizesStay
<1>. QED BY <1>2, <1>3

LEMMA SizesEnterCp ==
  ASSUME Control, Sizes, NEW h \in {0, -1}, EnterCp(h), Innermost.k = "c", todo.do = "run",
         UNCHANGED <<base, stacksize, frames>>,
         \/ top' = top /\ todo' = todo
         \/ top' = top + 1 /\ todo'.do = "throw"
  PROVE  Sizes'
<1>. DEFINE a == [Active("cp", base - 1, Len(cframe) + 1) EXCEPT !.prot = TRUE, !.h = h]
<1>0. ~Exempt /\ MayFail /\ base \in Nat \ {0} /\ Len(cframe) \in Nat
  BY Facts DEF Exempt, MayFail
<1>1. a \in CallType /\ a.k = "cp" /\ a.f = base - 1
  <2>1. base - 1 \in Nat /\ Len(cframe) + 1 \in Nat /\ a = CpActive(base - 1, Len(cframe) + 1, h)
    BY <1>0 DEF CpActive
  <2>. HIDE DEF a
  <2>. QED BY <2>1, CpTyped
<1>2. calls' = Append(calls, a)
  BY DEF EnterCp
<1>. HIDE DEF a
<1>3. /\ Bounded' /\ AllFit' /\ Innermost' = a /\ calls'[Len(calls') - 1] = Innermost
  <2>1. a.k \in Entries
    BY <1>1 DEF Entries
  <2>. QED BY <1>0, <1>1, <1>2, <2>1, SizesMore
<1>4. CatchFits'
  BY <1>3 DEF CatchFits
<1>5. CASE top' = top /\ todo' = todo
  <2>1. todo'.do = "run"
    BY <1>5
  <2>2. Within(top, base, stacksize)
    BY <1>0, TopBound
  <2>. QED BY <1>1, <1>3, <1>4, <1>5, <2>1, <2>2, SizesFrom DEF Sizes, TopFits, RunTop, CallFits
<1>6. CASE top' = top + 1 /\ todo'.do = "throw"
  <2>1. top + 1 <= stacksize \/ AtLimit(stacksize)
    BY <1>0, TopBound, SizeFacts
  <2>2. TopFits' /\ RunTop' /\ CallFits'
    BY <1>6, <2>1 DEF TopFits, RunTop, CallFits, Exempt
  <2>. QED BY <1>3, <1>4, <2>2, SizesFrom
<1>. QED BY <1>5, <1>6

LEMMA SizesCpcall ==
  ASSUME Control, Sizes, lua_cpcall
  PROVE  Sizes'
<1>1. /\ Innermost.k = "c" /\ UNCHANGED <<base, stacksize, frames>> /\ MayFail /\ todo.do = "run"
      /\ top \in Nat /\ base \in Nat /\ top <= base + 1 /\ top <= top
  BY Facts DEF lua_cpcall, Running, MayFail, Rest, Bottom
<1>2. CASE Enter(top, "CP", 0, 0, "continue", 1, 0) /\ UNCHANGED top
  <2>1. Within(top + 1, base, stacksize)
    BY <1>1 DEF Within
  <2>. QED BY <1>1, <1>2, <2>1, SizesEnter DEF Kinds
<1>3. CASE MemFails /\ EnterCp(0) /\ top' = top + 1 /\ todo' = Go("throw")
  BY <1>1, <1>3, Goes, SizesEnterCp
<1>. QED BY <1>2, <1>3 DEF lua_cpcall

LEMMA SizesLoad ==
  ASSUME Control, Sizes, lua_load
  PROVE  Sizes'
<1>1. /\ Innermost.k = "c" /\ UNCHANGED <<base, stacksize, frames>> /\ top' = top /\ todo' = todo
      /\ EnterCp(-1) /\ todo.do = "run"
  BY DEF lua_load, Running
<1>. QED BY <1>1, SizesEnterCp

\* The frames below a new one stay.
LEMMA LinkedSize ==
  ASSUME Control, NEW f \in Nat, base <= f, NEW typ, NEW fs \in Nat, NEW xp, frames' = Linked(f, typ, fs, xp)
  PROVE  /\ framesize(frames', f) = fs
         /\ \A i \in 1 .. Len(calls) : /\ framesize(frames, calls[i].f) \in Nat
                                       /\ framesize(frames', calls[i].f) = framesize(frames, calls[i].f)
<1>. DEFINE rec == [typ |-> typ, delta |-> f - (base - 1), fs |-> fs, xp |-> xp]
<1>1. /\ Shape(base, frames, cframe, openupval, calls) /\ base \in Nat \ {0} /\ Len(calls) \in Nat \ {0}
      /\ Innermost.f = base - 1
  BY Facts
<1>2. frames' = [g \in DOMAIN frames \cup {f} |-> IF g = f THEN rec ELSE frames[g]]
  BY DEF Linked
<1>3. rec.fs = fs
  OBVIOUS
<1>. HIDE DEF rec
<1>4. framesize(frames', f) = fs
  BY <1>1, <1>2, <1>3 DEF framesize
<1>5. ASSUME NEW i \in 1 .. Len(calls)
      PROVE  /\ framesize(frames, calls[i].f) \in Nat
             /\ framesize(frames', calls[i].f) = framesize(frames, calls[i].f)
  <2>1. calls[i].f \in {0} \cup DOMAIN frames /\ framesize(frames, calls[i].f) \in Nat
    BY <1>1, Sized
  <2>2. calls[i].f \in Nat /\ calls[i].f <= base - 1
    <3>1. i = Len(calls) \/ i < Len(calls)
      BY <1>1
    <3>2. CASE i = Len(calls)
      BY <3>2, <1>1, Facts DEF Innermost
    <3>3. CASE i < Len(calls)
      <4>1. calls[i].f <= calls[Len(calls)].f
        BY <3>3, <1>1 DEF Shape, Ordered
      <4>. QED BY <4>1, <1>1, Facts DEF Innermost
    <3>. QED BY <3>1, <3>2, <3>3
  <2>3. calls[i].f # f
    BY <2>2, <1>1
  <2>. QED BY <1>2, <2>1, <2>3 DEF framesize
<1>. QED BY <1>4, <1>5

\* A function is called, or fails to get its stack.
LEMMA FrameAllFit ==
  ASSUME Control, Sizes, ~Exempt, NEW a \in CallType, base <= a.f, NEW typ, NEW fs \in Nat, NEW xp,
         frames' = Linked(a.f, typ, fs, xp), calls' = Append(calls, a),
         stacksize' \in Nat, stacksize <= stacksize', Exempt' \/ FitsIn(a, frames', stacksize')
  PROVE  AllFit' /\ framesize(frames', a.f) = fs
<1>1. calls \in Seq(CallType) /\ Len(calls) \in Nat \ {0} /\ base \in Nat \ {0} /\ stacksize \in Nat /\ a.f \in Nat
  BY Facts, SizeFacts DEF CallType
<1>2. /\ Len(calls') = Len(calls) + 1 /\ calls'[Len(calls) + 1] = a
      /\ \A i \in 1 .. Len(calls) : calls'[i] = calls[i]
  BY <1>1, Pushed
<1>3. /\ framesize(frames', a.f) = fs
      /\ \A i \in 1 .. Len(calls) : /\ framesize(frames, calls[i].f) \in Nat
                                    /\ framesize(frames', calls[i].f) = framesize(frames, calls[i].f)
  <2>. DEFINE f == a.f
  <2>1. f \in Nat /\ base <= f /\ frames' = Linked(f, typ, fs, xp)
    BY <1>1
  <2>. HIDE DEF f
  <2>2. /\ framesize(frames', f) = fs
        /\ \A i \in 1 .. Len(calls) : /\ framesize(frames, calls[i].f) \in Nat
                                      /\ framesize(frames', calls[i].f) = framesize(frames, calls[i].f)
    BY <2>1, LinkedSize
  <2>. QED BY <2>2 DEF f
<1>4. ASSUME NEW i \in 1 .. Len(calls) PROVE FitsIn(calls'[i], frames', stacksize')
  <2>1. FitsIn(calls[i], frames, stacksize) /\ calls[i].f \in Nat /\ calls'[i] = calls[i]
    BY <1>2, SizeFacts, Facts
  <2>2. FitsIn(calls[i], frames', stacksize')
    <3>. DEFINE c == calls[i]
    <3>1. /\ FitsIn(c, frames, stacksize) /\ c.f \in Nat
          /\ framesize(frames, c.f) \in Nat /\ framesize(frames', c.f) = framesize(frames, c.f)
      BY <1>3, <2>1
    <3>. HIDE DEF c
    <3>2. FitsIn(c, frames', stacksize')
      BY <1>1, <3>1, FitsGrows
    <3>. QED BY <3>2 DEF c
  <2>. QED BY <2>1, <2>2
<1>5. \A i \in 1 .. Len(calls) + 1 : i = Len(calls) + 1 \/ i \in 1 .. Len(calls)
  BY <1>1
<1>6. AllFit'
  <2>1. \A i \in 1 .. Len(calls) + 1 : (i = Len(calls) + 1 /\ Exempt') \/ FitsIn(calls'[i], frames', stacksize')
    BY <1>2, <1>4, <1>5
  <2>. QED BY <2>1, <1>2 DEF AllFit
<1>. QED BY <1>3, <1>6

LEMMA SizesPcall ==
  ASSUME Control, Sizes, Pcall
  PROVE  Sizes'
<1>1. PICK xp \in BOOLEAN, fs \in Kinds :
        LET skip == IF xp THEN 2 ELSE 1
        IN  \E p \in {base + 1, top - 1 - skip} :
              /\ p > base /\ p + skip < top
              /\ base' = p + 1
              /\ frames' = Linked(p, "LUA", 0, xp)
              /\ calls' = Append(calls, [Active("ff", p, Len(cframe)) EXCEPT
                                           !.prot = TRUE, !.h = IF xp THEN p + 1 ELSE 0])
              /\ todo' = Calling(p + skip, "PCALL", 0, fs)
  BY DEF Pcall
<1>. DEFINE skip == IF xp THEN 2 ELSE 1
<1>2. PICK p \in {base + 1, top - 1 - skip} :
              /\ p > base /\ p + skip < top
              /\ base' = p + 1
              /\ frames' = Linked(p, "LUA", 0, xp)
              /\ calls' = Append(calls, [Active("ff", p, Len(cframe)) EXCEPT
                                           !.prot = TRUE, !.h = IF xp THEN p + 1 ELSE 0])
              /\ todo' = Calling(p + skip, "PCALL", 0, fs)
  BY <1>1
<1>3. /\ Innermost.k = "lua" /\ todo.do = "run" /\ ~Exempt /\ UNCHANGED <<top, stacksize>>
      /\ base \in Nat /\ base > 0 /\ top \in Nat /\ skip \in {1, 2} /\ Len(cframe) \in Nat /\ Len(calls) \in Nat
      /\ stacksize \in Nat
  BY Facts DEF Pcall, Running, Rest, Exempt
<1>4. p \in Nat /\ base < p /\ p + skip \in Nat /\ p < p + skip /\ p + skip < top
  BY <1>2, <1>3
<1>. DEFINE h == IF xp THEN p + 1 ELSE 0
            a == [Active("ff", p, Len(cframe)) EXCEPT !.prot = TRUE, !.h = h]
<1>5. a \in CallType /\ a.k = "ff" /\ a.f = p
  <2>. DEFINE x == Active("ff", p, Len(cframe))
  <2>1. x \in CallType /\ x.k = "ff" /\ x.f = p
    BY <1>3, <1>4 DEF Active, CallType
  <2>2. h \in Nat
    BY <1>4
  <2>. HIDE DEF x, h
  <2>3. [x EXCEPT !.prot = TRUE, !.h = h] \in CallType
    BY <2>1, <2>2 DEF CallType
  <2>4. a.k = x.k /\ a.f = x.f
    BY <2>1 DEF x, CallType
  <2>. QED BY <2>1, <2>3, <2>4 DEF x
<1>6. calls' = Append(calls, a) /\ frames' = Linked(p, "LUA", 0, xp) /\ todo' = Calling(p + skip, "PCALL", 0, fs)
  BY <1>2
<1>. HIDE DEF a, h
<1>7. todo'.do = "call" /\ todo'.f = p + skip /\ todo'.n = 0
  <2>. DEFINE f == p + skip
  <2>1. f \in Nat
    BY <1>4
  <2>. HIDE DEF f, skip
  <2>2. todo' = Calling(f, "PCALL", 0, fs)
    BY <1>6 DEF f
  <2>3. todo'.do = "call" /\ todo'.f = f /\ todo'.n = 0
    BY <2>1, <2>2, CallingTyped
  <2>. QED BY <2>3 DEF f
<1>. HIDE DEF skip
<1>8. top <= Room(stacksize) \/ AtLimit(stacksize)
  BY <1>3, LuaTop
<1>9. framesize(frames', p) = 0
  <2>1. base <= p /\ p \in Nat /\ 0 \in Nat
    BY <1>3, <1>4
  <2>2. frames' = Linked(p, "LUA", 0, xp)
    BY <1>6
  <2>. QED BY <2>1, <2>2, LinkedSize, Zenon
<1>10. FitsIn(a, frames', stacksize')
  <2>1. p + 1 + framesize(frames', p) <= Room(stacksize) \/ AtLimit(stacksize)
    BY <1>3, <1>4, <1>8, <1>9, SizeFacts
  <2>. QED BY <2>1, <1>3, <1>5 DEF FitsIn
<1>11. AllFit'
  <2>1. frames' = Linked(a.f, "LUA", 0, xp) /\ stacksize' \in Nat /\ stacksize <= stacksize' /\ base <= a.f
    BY <1>3, <1>4, <1>5, <1>6
  <2>. QED BY <2>1, <1>3, <1>5, <1>6, <1>10, FrameAllFit
<1>12. Innermost' = a
  <2>1. calls \in Seq(CallType)
    BY Facts
  <2>. QED BY <2>1, <1>5, <1>6, Pushed DEF Innermost
<1>13. CallFits'
  <2>1. p + skip + 0 + 2 <= stacksize \/ AtLimit(stacksize)
    BY <1>3, <1>4, <1>8, SizeFacts
  <2>. QED BY <2>1, <1>3, <1>5, <1>7, <1>12 DEF CallFits
<1>14. Bounded' /\ TopFits' /\ RunTop' /\ CatchFits'
  BY <1>3, <1>7 DEF Sizes, Bounded, TopFits, RunTop, CatchFits, Exempt
<1>. QED BY <1>11, <1>13, <1>14, SizesFrom

LEMMA SizesCall ==
  ASSUME Control, Sizes, Call
  PROVE  Sizes'
<1>. DEFINE f == todo.f
            fs == todo.fs
            typ == todo.typ
            n == todo.n
            t == f + 1 + n
            a == Active(IF fs > 0 THEN "lua" ELSE "c", f, Len(cframe))
            short == \/ fs > 0 /\ f + 1 + fs > maxstack
                     \/ ~(fs > 0) /\ t + LUA_MINSTACK > maxstack
            need == IF fs > 0 THEN fs ELSE LUA_MINSTACK
            u == IF fs > 0 THEN f + 1 + fs ELSE t
            go == Go("run")
            b == calls[Len(calls)]
<1>1. /\ todo.do = "call" /\ f \in Nat /\ fs \in Kinds /\ fs \in Nat /\ n \in Nat /\ t \in Nat
      /\ typ \in {"LUA", "C", "CP", "CONT", "PCALL"} /\ stacksize \in Nat /\ base \in Nat \ {0}
      /\ Len(calls) \in Nat \ {0} /\ Len(cframe) \in Nat
  <2>1. todo \in TodoType /\ todo.do = "call" /\ stacksize \in Nat /\ base \in Nat \ {0} /\ Len(calls) \in Nat \ {0}
        /\ Len(cframe) \in Nat
    BY Facts DEF Rest, Call
  <2>2. f \in Nat /\ fs \in Kinds /\ n \in Nat /\ typ \in {"LUA", "C", "CP", "CONT", "PCALL"}
    BY <2>1 DEF TodoType
  <2>3. fs \in Nat
    BY <2>2, KindsNat
  <2>. QED BY <2>1, <2>2, <2>3
<1>2. a \in CallType /\ a.f = f /\ a.k = (IF fs > 0 THEN "lua" ELSE "c")
  BY <1>1 DEF Active, CallType
<1>3. /\ base' = f + 1 /\ frames' = Linked(f, typ, fs, FALSE) /\ calls' = Append(calls, a)
  BY DEF Call
<1>4. PICK o \in Checked(short, need) : GoOn(o, t, u, go)
  <2>1. CASE fs > 0
    <3>1. (short <=> f + 1 + fs > maxstack) /\ need = fs /\ u = f + 1 + fs
      BY <2>1
    <3>2. \E o \in Checked(f + 1 + fs > maxstack, fs) : GoOn(o, t, f + 1 + fs, go)
      BY <2>1 DEF Call
    <3>3. Checked(f + 1 + fs > maxstack, fs) = Checked(short, need)
      BY <3>1 DEF Checked
    <3>. HIDE DEF f, fs, t, short, need, u, go
    <3>. QED BY <3>1, <3>2, <3>3
  <2>2. CASE ~(fs > 0)
    <3>1. (short <=> t + LUA_MINSTACK > maxstack) /\ need = LUA_MINSTACK /\ u = t
      BY <2>2
    <3>2. \E o \in Checked(t + LUA_MINSTACK > maxstack, LUA_MINSTACK) : GoOn(o, t, t, go)
      BY <2>2 DEF Call
    <3>3. Checked(t + LUA_MINSTACK > maxstack, LUA_MINSTACK) = Checked(short, need)
      BY <3>1 DEF Checked
    <3>. HIDE DEF f, fs, t, short, need, u, go
    <3>. QED BY <3>1, <3>2, <3>3
  <2>. QED BY <2>1, <2>2
<1>5. /\ need \in Nat /\ need \in Requests /\ need >= 0 /\ need <= need /\ u \in Nat /\ short \in BOOLEAN
      /\ go \in TodoType /\ go.do = "run"
  <2>1. fs > 0 => fs \in Requests
    BY <1>1 DEF Kinds, Requests
  <2>2. LUA_MINSTACK \in Requests /\ LUA_MINSTACK \in Nat /\ go \in TodoType /\ go.do = "run"
    BY Goes, StackConstants DEF Requests
  <2>3. need \in Nat /\ need \in Requests /\ u \in Nat
    <3>. HIDE DEF f, n
    <3>. QED BY <1>1, <2>1, <2>2
  <2>4. need >= 0 /\ need <= need
    <3>. HIDE DEF need
    <3>. QED BY <2>3
  <2>5. short \in BOOLEAN
    OBVIOUS
  <2>. QED BY <2>2, <2>3, <2>4, <2>5
<1>6. (f + n + 2 <= stacksize \/ AtLimit(stacksize)) /\ base <= f /\ ~Exempt
  BY <1>1, Facts DEF Sizes, CallFits, NextCall, Exempt
<1>7. fs > 0 => u = f + 1 + fs /\ need = fs /\ (short <=> u > Room(stacksize))
  BY SizeFacts
<1>8. ~(fs > 0) => u = t /\ need = LUA_MINSTACK /\ (short <=> t + LUA_MINSTACK > Room(stacksize)) /\ fs = 0
  BY <1>1, SizeFacts
<1>9. t = f + 1 + n /\ b = Innermost
  BY DEF Innermost
<1>. HIDE DEF f, fs, typ, n, t, a, short, need, u, go, b
<1>10. Grown(o, short, need, t, u, go)
  <2>1. Result(o, short, need)
    BY <1>1, <1>4, <1>5, Checks
  <2>2. Outcome(o, t, u, go)
    BY <1>1, <1>4, <1>5, <2>1, GoesOn
  <2>3. Bounded
    BY DEF Sizes
  <2>. QED BY <1>1, <1>5, <2>1, <2>2, <2>3, GrownBy
<1>11. /\ stacksize' \in Nat /\ stacksize <= stacksize' /\ Bounded'
       /\ Room(stacksize') \in Int /\ Room(stacksize') <= stacksize'
       /\ AtLimit(stacksize) => AtLimit(stacksize')
  BY <1>1, <1>10, GrownRoom
<1>12. ASSUME o.e = "none" PROVE u <= Room(stacksize') /\ f + 1 + fs <= Room(stacksize')
  <2>1. CASE short
    <3>1. ~AtLimit(stacksize) /\ stacksize + need <= Room(stacksize')
      BY <1>10, <1>12, <2>1 DEF Grown
    <3>2. f + n + 2 <= stacksize
      BY <3>1, <1>6
    <3>3. CASE fs > 0
      BY <1>1, <1>5, <1>7, <1>11, <3>1, <3>2, <3>3
    <3>4. CASE ~(fs > 0)
      BY <1>1, <1>5, <1>8, <1>9, <1>11, <3>1, <3>2, <3>4
    <3>. QED BY <3>3, <3>4
  <2>2. CASE ~short
    <3>1. stacksize' = stacksize
      BY <1>10, <1>12, <2>2 DEF Grown
    <3>2. CASE fs > 0
      BY <1>1, <1>7, <1>11, <2>2, <3>1, <3>2
    <3>3. CASE ~(fs > 0)
      BY <1>1, <1>8, <1>9, <1>11, <2>2, <3>1, <3>3, StackConstants
    <3>. QED BY <3>2, <3>3
  <2>. QED BY <1>5, <2>1, <2>2
<1>13. framesize(frames', f) = fs
  BY <1>1, <1>3, <1>6, LinkedSize
<1>14. AllFit'
  <2>1. Exempt' \/ FitsIn(a, frames', stacksize')
    <3>1. ASSUME o.e = "none" PROVE FitsIn(a, frames', stacksize')
      <4>1. f < Room(stacksize') /\ f + 1 + framesize(frames', f) <= Room(stacksize')
        BY <3>1, <1>1, <1>11, <1>12, <1>13
      <4>. QED BY <4>1, <1>2 DEF FitsIn
    <3>2. ASSUME o.e # "none" PROVE Exempt'
      BY <3>2, <1>10 DEF Grown
    <3>. QED BY <3>1, <3>2
  <2>2. frames' = Linked(a.f, typ, fs, FALSE) /\ base <= a.f
    BY <1>2, <1>3, <1>6
  <2>. QED BY <2>1, <2>2, <1>1, <1>2, <1>3, <1>6, <1>11, FrameAllFit
<1>15. TopFits'
  <2>1. CASE o.e = "none"
    BY <2>1, <1>5, <1>10, <1>11, <1>12 DEF TopFits, Grown
  <2>2. CASE o.e = "mem"
    BY <2>2, <1>1, <1>6, <1>9, <1>10 DEF TopFits, Grown
  <2>3. CASE o.e = "msg"
    BY <2>3, <1>10 DEF TopFits, Grown
  <2>4. CASE o.e = "throw"
    BY <2>4, <1>10, SizeFacts DEF TopFits, Grown
  <2>. QED BY <1>10, <2>1, <2>2, <2>3, <2>4 DEF Grown
<1>16. /\ Innermost' = a /\ Len(calls') - 1 = Len(calls) /\ calls'[Len(calls)] = Innermost
  <2>1. calls \in Seq(CallType) /\ Len(calls) \in 1 .. Len(calls)
    BY <1>1, Facts
  <2>2. Len(calls') = Len(calls) + 1 /\ calls'[Len(calls) + 1] = a /\ calls'[Len(calls)] = b
    BY <2>1, <1>2, <1>3, Pushed DEF b
  <2>. QED BY <2>2, <1>1, <1>9 DEF Innermost
<1>17. RunTop' /\ CallFits'
  <2>1. CASE o.e = "none"
    <3>1. top' = u /\ todo'.do = "run"
      BY <2>1, <1>5, <1>10 DEF Grown
    <3>2. Within(u, base', stacksize')
      BY <2>1, <1>12 DEF Within
    <3>3. ASSUME a.k = "lua" PROVE u = base' + framesize(frames', base' - 1)
      <4>1. fs > 0
        BY <3>3, <1>2
      <4>2. base' = f + 1 /\ base' - 1 = f
        BY <1>1, <1>3
      <4>. QED BY <4>1, <4>2, <1>7, <1>13
    <3>. QED BY <3>1, <3>2, <3>3, <1>16 DEF RunTop, CallFits
  <2>2. CASE o.e # "none"
    <3>1. Exempt' /\ todo'.do \in {"throw", "msg"}
      BY <2>2, <1>10 DEF Grown
    <3>. QED BY <3>1 DEF RunTop, CallFits
  <2>. QED BY <2>1, <2>2
<1>18. CatchFits'
  <2>1. ASSUME Innermost.k = "enter", Innermost.prot, Innermost.after = "continue"
        PROVE  Within(base', Innermost.f + 1, stacksize')
    <3>1. Within(f + 1, base, stacksize)
      BY <2>1, <1>1 DEF Sizes, CallFits, f
    <3>2. Within(f + 1, base, stacksize')
      <4>1. f + 1 \in Nat
        BY <1>1
      <4>. QED BY <4>1, <3>1, <1>1, <1>11, WithinGrows
    <3>3. Innermost.f + 1 = base
      BY <1>1, Facts
    <3>. QED BY <3>2, <3>3, <1>3
  <2>. QED BY <2>1, <1>16 DEF CatchFits
<1>. QED BY <1>11, <1>14, <1>15, <1>17, <1>18, SizesFrom

\* The frames of the calls that are left are as they were.
SameSizes(m) ==
  \A i \in 1 .. m : /\ framesize(frames, calls[i].f) \in Nat
                    /\ framesize(frames', calls[i].f) = framesize(frames, calls[i].f)

LEMMA NotAbove ==
  ASSUME Control, NEW m \in 1 .. Len(calls), NEW i \in 1 .. m
  PROVE  /\ i \in 1 .. Len(calls) /\ calls[i].f \in Nat /\ calls[m].f \in Nat /\ calls[i].f <= calls[m].f
         /\ calls[i].f \in {0} \cup DOMAIN frames /\ framesize(frames, calls[i].f) \in Nat
<1>1. Shape(base, frames, cframe, openupval, calls) /\ Len(calls) \in Nat
  BY Facts
<1>2. i \in 1 .. Len(calls)
  BY <1>1
<1>3. calls[i].f \in Nat /\ calls[m].f \in Nat
  BY <1>2, Facts
<1>4. calls[i].f \in {0} \cup DOMAIN frames /\ framesize(frames, calls[i].f) \in Nat
  BY <1>1, <1>2, Sized
<1>5. calls[i].f <= calls[m].f
  <2>1. CASE i = m
    BY <2>1, <1>3
  <2>2. CASE i # m
    <3>1. i < m
      BY <2>2, <1>1
    <3>. QED BY <3>1, <1>1, <1>2 DEF Shape, Ordered
  <2>. QED BY <2>1, <2>2
<1>. QED BY <1>2, <1>3, <1>4, <1>5

LEMMA BelowSizes ==
  ASSUME Control, NEW m \in 1 .. Len(calls), NEW b \in Nat, calls[m].f < b, frames' = Below(b)
  PROVE  SameSizes(m)
<1>1. ASSUME NEW i \in 1 .. m
      PROVE  /\ framesize(frames, calls[i].f) \in Nat
             /\ framesize(frames', calls[i].f) = framesize(frames, calls[i].f)
  <2>1. calls[i].f \in {0} \cup DOMAIN frames /\ framesize(frames, calls[i].f) \in Nat /\ calls[i].f < b
    BY NotAbove
  <2>. QED BY <2>1 DEF framesize, Below
<1>. QED BY <1>1 DEF SameSizes

LEMMA CutSizes ==
  ASSUME Control, NEW m, Cuts(m)
  PROVE  SameSizes(m)
<1>1. m \in 1 .. Len(calls) /\ base' = calls[m].f + 1 /\ IsCut(frames', frames, base')
  BY DEF Cuts
<1>2. ASSUME NEW i \in 1 .. m
      PROVE  /\ framesize(frames, calls[i].f) \in Nat
             /\ framesize(frames', calls[i].f) = framesize(frames, calls[i].f)
  <2>1. calls[i].f \in {0} \cup DOMAIN frames /\ framesize(frames, calls[i].f) \in Nat /\ calls[i].f < base'
    BY <1>1, NotAbove
  <2>. QED BY <2>1, <1>1 DEF framesize, IsCut
<1>. QED BY <1>2 DEF SameSizes

\* The calls above the m-th are over, and slot t is the top.
Keeps(m) ==
  /\ m \in 1 .. Len(calls) /\ base' = calls[m].f + 1 /\ calls' = Outer(m) /\ SameSizes(m)
  /\ stacksize' \in Nat /\ Bounded' /\ \A i \in 1 .. m : FitsIn(calls[i], frames, stacksize')
GoesTo(m, t) ==
  \/ todo'.do \in {"return", "throw"} /\ top' = t /\ (t <= stacksize' \/ AtLimit(stacksize'))
  \/ /\ todo'.do = "run" /\ calls[m].k \in {"lua", "c", "cp"}
     /\ calls[m].k = "lua" => top' = curr_top(base', frames', t) \/ top' = curr_top(base', frames, t)
     /\ calls[m].k # "lua" => /\ top' = t \/ top' = curr_top(base', frames', t) \/ top' = curr_top(base', frames, t)
                              /\ Within(t, base', stacksize')

LEMMA SizesCut ==
  ASSUME Control, NEW m, Keeps(m), NEW t \in Nat, GoesTo(m, t),
         todo'.do = "throw" => calls[m].k \in {"lua", "c", "cp"}
  PROVE  Sizes'
<1>1. /\ m \in 1 .. Len(calls) /\ calls \in Seq(CallType) /\ m \in 1 .. m /\ calls[m].f \in Nat
      /\ base' = calls[m].f + 1 /\ base' - 1 = calls[m].f /\ stacksize' \in Nat /\ m \in Nat
  BY Facts DEF Keeps
<1>2. /\ Len(calls') = m /\ Innermost' = calls[m] /\ \A i \in 1 .. m : calls'[i] = calls[i]
  <2>1. m \in 0 .. Len(calls) /\ calls' = SubSeq(calls, 1, m)
    BY <1>1, Facts DEF Keeps, Outer
  <2>2. Len(calls') = m /\ \A i \in 1 .. m : calls'[i] = calls[i]
    BY <2>1, <1>1, CutOff
  <2>. QED BY <2>2, <1>1 DEF Innermost
<1>3. /\ Room(stacksize') \in Int /\ Room(stacksize') = stacksize' - LJ_STACK_EXTRA - 1
      /\ LJ_STACK_EXTRA \in Nat /\ LJ_STACK_EXTRA >= 5
  BY <1>1, StackConstants DEF Room
<1>4. AllFit'
  <2>1. ASSUME NEW i \in 1 .. m PROVE FitsIn(calls'[i], frames', stacksize')
    <3>. DEFINE c == calls[i]
    <3>1. /\ FitsIn(c, frames, stacksize') /\ c.f \in Nat /\ framesize(frames, c.f) \in Nat
          /\ framesize(frames', c.f) = framesize(frames, c.f) /\ calls'[i] = c
      BY <1>1, <1>2, NotAbove DEF Keeps, SameSizes
    <3>. HIDE DEF c
    <3>. QED BY <3>1, <1>1, FitsGrows
  <2>. QED BY <2>1, <1>2 DEF AllFit
<1>5. Bounded'
  BY DEF Keeps
<1>6. ASSUME calls[m].k \in {"lua", "c", "cp"} PROVE base' <= Room(stacksize')
  <2>1. calls[m].f < Room(stacksize')
    BY <1>1, <1>6 DEF Keeps, FitsIn
  <2>. QED BY <2>1, <1>1, <1>3
<1>7. CASE todo'.do \in {"return", "throw"}
  <2>1. TopFits'
    BY <1>7 DEF GoesTo, TopFits
  <2>2. RunTop' /\ CallFits'
    BY <1>7 DEF RunTop, CallFits, Exempt
  <2>3. CatchFits'
    <3>1. Exempt' => calls[m].k \in {"lua", "c", "cp"}
      BY <1>7 DEF Exempt
    <3>2. Exempt' => \A a : Within(base', a.f + 1, stacksize')
      BY <3>1, <1>6 DEF Within
    <3>. QED BY <3>2 DEF CatchFits
  <2>. QED BY <1>4, <1>5, <2>1, <2>2, <2>3, SizesFrom
<1>8. CASE todo'.do = "run"
  <2>. DEFINE fs == framesize(frames', calls[m].f)
              b == calls[m].f + 1
  <2>1. /\ framesize(frames', base' - 1) = fs /\ framesize(frames, base' - 1) = fs /\ fs \in Nat
        /\ calls[m].k = "lua" => fs > 0
        /\ calls[m].k \in {"c", "cp"} => fs = 0
    <3>1. fs \in Nat /\ framesize(frames, calls[m].f) = fs
      BY <1>1 DEF Keeps, SameSizes
    <3>2. /\ calls[m].k = "lua" => framesize(frames, calls[m].f) > 0
          /\ calls[m].k \in {"c", "cp"} => framesize(frames, calls[m].f) = 0
      BY <1>1, Sized, Facts
    <3>. QED BY <3>1, <3>2, <1>1
  <2>2. calls[m].k \in {"lua", "c", "cp"}
    BY <1>8 DEF GoesTo
  <2>3. CallFits' /\ CatchFits'
    BY <1>8 DEF CallFits, CatchFits, Exempt
  <2>4. CASE calls[m].k = "lua"
    <3>1. top' = base' + fs
      BY <1>8, <2>1, <2>4 DEF GoesTo, curr_top
    <3>2. calls[m].f + 1 + framesize(frames, calls[m].f) <= Room(stacksize') \/ AtLimit(stacksize')
      BY <1>1, <2>4 DEF Keeps, FitsIn, IsFrame, FrameKinds
    <3>3. top' <= Room(stacksize') \/ AtLimit(stacksize')
      BY <3>1, <3>2, <1>1, <2>1
    <3>4. top' <= stacksize' \/ AtLimit(stacksize')
      <4>1. top' \in Nat
        BY <3>1, <1>1, <2>1
      <4>. QED BY <4>1, <3>3, <1>1, <1>3
    <3>. QED BY <1>2, <1>4, <1>5, <2>1, <2>3, <3>1, <3>3, <3>4, SizesFrom DEF RunTop, TopFits, Within
  <2>5. CASE calls[m].k # "lua"
    <3>1. top' = t /\ Within(t, base', stacksize')
      BY <1>8, <2>1, <2>2, <2>5 DEF GoesTo, curr_top
    <3>2. t <= stacksize' \/ AtLimit(stacksize')
      BY <3>1, <1>1, <1>3, <1>6, <2>2 DEF Within
    <3>. QED BY <1>2, <1>4, <1>5, <2>3, <2>5, <3>1, <3>2, SizesFrom DEF RunTop, TopFits
  <2>. QED BY <2>4, <2>5
<1>. QED BY <1>7, <1>8 DEF GoesTo

LEMMA SizesReturnToLua ==
  ASSUME Control, Sizes, ReturnToLua
  PROVE  Sizes'
<1>. DEFINE m == Len(calls) - 1
<1>1. /\ m \in 1 .. Len(calls) /\ Len(calls) \in Nat /\ prev(base - 1) = calls[m].f /\ calls[m].f < base - 1
      /\ calls[m].k = "lua" /\ base - 1 \in Nat /\ top \in Nat /\ stacksize \in Nat /\ todo.do = "return"
  BY Returns, Facts DEF ReturnToLua, Rest
<1>2. /\ base' = calls[m].f + 1 /\ frames' = Below(base - 1) /\ calls' = Outer(m)
      /\ top' = curr_top(base', frames', top) /\ todo' = Go("run") /\ stacksize' = stacksize
  BY <1>1 DEF ReturnToLua, Unlinked
<1>3. \A i \in 1 .. m : FitsIn(calls[i], frames, stacksize)
  BY <1>1, SizeFacts DEF Exempt
<1>. HIDE DEF m
<1>4. SameSizes(m)
  BY <1>1, <1>2, BelowSizes
<1>5. Keeps(m)
  BY <1>1, <1>2, <1>3, <1>4 DEF Keeps, Sizes, Bounded
<1>6. todo'.do = "run"
  BY <1>2, Goes
<1>7. GoesTo(m, top)
  BY <1>1, <1>2, <1>6 DEF GoesTo
<1>. QED BY <1>1, <1>5, <1>6, <1>7, SizesCut

LEMMA SizesReturnToPcall ==
  ASSUME Control, Sizes, ReturnToPcall
  PROVE  Sizes'
<1>. DEFINE m == Len(calls) - 1
<1>1. /\ m \in 1 .. Len(calls) /\ Len(calls) \in Nat /\ prev(base - 1) = calls[m].f /\ calls[m].f < base - 1
      /\ base - 1 \in Nat /\ top \in Nat /\ stacksize \in Nat /\ todo.do = "return" /\ todo.n + 1 \in Nat
  BY Returns, Facts DEF ReturnToPcall, Rest
<1>2. /\ base' = calls[m].f + 1 /\ frames' = Below(base - 1) /\ calls' = Outer(m)
      /\ top' = top /\ todo' = Returning(todo.n + 1) /\ stacksize' = stacksize
  BY <1>1 DEF ReturnToPcall, Unlinked
<1>3. \A i \in 1 .. m : FitsIn(calls[i], frames, stacksize)
  BY <1>1, SizeFacts DEF Exempt
<1>. HIDE DEF m
<1>4. SameSizes(m)
  BY <1>1, <1>2, BelowSizes
<1>5. Keeps(m)
  BY <1>1, <1>2, <1>3, <1>4 DEF Keeps, Sizes, Bounded
<1>6. todo'.do = "return"
  BY <1>1, <1>2, ReturningTyped
<1>7. GoesTo(m, top)
  BY <1>1, <1>2, <1>6 DEF GoesTo, Sizes, TopFits
<1>. QED BY <1>1, <1>5, <1>6, <1>7, SizesCut

LEMMA SizesLeaveCp ==
  ASSUME Control, Sizes, LeaveCp
  PROVE  Sizes'
<1>. DEFINE m == Len(calls) - 1
<1>1. /\ Innermost.k = "cp" /\ calls' = Outer(m)
      /\ top' = Bottom + 1 /\ UNCHANGED <<base, stacksize, frames, todo>>
      /\ todo.do = "run" /\ base \in Nat \ {0} /\ Len(calls) \in Nat /\ stacksize \in Nat
  BY Facts DEF LeaveCp, Running, Rest
<1>2. m \in 1 .. Len(calls) /\ CpLink(cframe, Innermost, calls[m])
  BY <1>1, InnermostLink DEF Active, Link
<1>3. calls[m].k = "c" /\ calls[m].f = base - 1
  BY <1>2, Facts DEF CpLink
<1>4. \A i \in 1 .. m : FitsIn(calls[i], frames, stacksize)
  BY <1>1, SizeFacts DEF Exempt
<1>5. Bottom \in Nat /\ Bottom <= base + 1
  <2>1. Bottom \in Nat /\ Bottom = Bot(cframe, Innermost)
    BY <1>1, BottomAt
  <2>2. Len(calls) \in 1 .. Len(calls)
    BY <1>1, <1>2
  <2>3. Bot(cframe, calls[Len(calls)]) <= base + 1
    BY <1>1, <2>2, BotBelow DEF Innermost
  <2>. QED BY <2>1, <2>3 DEF Innermost
<1>. DEFINE t == Bottom + 1
<1>6. t \in Nat /\ t <= base + 2 /\ top' = t
  BY <1>1, <1>5
<1>. HIDE DEF m, t
<1>7. SameSizes(m)
  BY <1>1, <1>2, NotAbove DEF SameSizes
<1>8. Keeps(m)
  BY <1>1, <1>2, <1>3, <1>4, <1>7 DEF Keeps, Sizes, Bounded
<1>9. GoesTo(m, t)
  BY <1>1, <1>3, <1>6 DEF GoesTo, Within
<1>. QED BY <1>1, <1>6, <1>8, <1>9, SizesCut

LEMMA SizesNewThread ==
  ASSUME NewThread
  PROVE  Sizes'
<1>. DEFINE size == LJ_STACK_START + LJ_STACK_EXTRA
            a == Active("c", 0, 0)
<1>1. base' = 1 /\ top' = 1 /\ stacksize' = size /\ frames' = << >> /\ calls' = <<a>> /\ todo' = Go("run")
  BY DEF NewThread
<1>2. todo'.do = "run" /\ a.k = "c" /\ a.f = 0
  BY <1>1, Goes DEF Active
<1>3. size \in Nat /\ Room(size) \in Int /\ Room(size) >= 1 /\ size >= 1
  BY StackConstants DEF LJ_STACK_START, Room
<1>4. Bounded'
  <2>1. 1 \in Requests
    BY DEF Requests
  <2>2. size <= LJ_STACK_MAXEX + 1 + 2 * LUA_MINSTACK + 1 + LJ_STACK_EXTRA
    BY StackConstants DEF LJ_STACK_START, LJ_STACK_MAXEX
  <2>. QED BY <1>1, <2>1, <2>2 DEF Bounded
<1>. HIDE DEF size, a
<1>5. Len(calls') = 1 /\ calls'[1] = a /\ Innermost' = a
  BY <1>1 DEF Innermost
<1>6. AllFit'
  <2>1. framesize(frames', 0) = 0
    BY DEF framesize
  <2>2. FitsIn(a, frames', size)
    BY <1>2, <1>3, <2>1 DEF FitsIn, IsFrame
  <2>3. \A i \in 1 .. 1 : i = 1
    OBVIOUS
  <2>. QED BY <1>1, <1>5, <2>2, <2>3 DEF AllFit
<1>7. TopFits' /\ RunTop' /\ CallFits' /\ CatchFits'
  BY <1>1, <1>2, <1>3, <1>5 DEF TopFits, RunTop, CallFits, CatchFits, Exempt, Within
<1>. QED BY <1>4, <1>6, <1>7, SizesFrom

LEMMA SizesStart ==
  ASSUME Init
  PROVE  Sizes
<1>1. base = 1 /\ top = 1 /\ stacksize = LJ_STACK_START + LJ_STACK_EXTRA /\ frames = << >>
  BY DEF Init
<1>2. /\ stacksize \in Nat /\ Room(stacksize) \in Int /\ Room(stacksize) >= 1 /\ stacksize >= 3
  BY <1>1, StackConstants DEF LJ_STACK_START, Room
<1>3. Bounded
  <2>1. 1 \in Requests
    BY DEF Requests
  <2>2. stacksize <= LJ_STACK_MAXEX + 1 + 2 * LUA_MINSTACK + 1 + LJ_STACK_EXTRA
    BY <1>1, StackConstants DEF LJ_STACK_START, LJ_STACK_MAXEX
  <2>. QED BY <2>1, <2>2 DEF Bounded
<1>4. PICK a : calls = <<a>> /\ a.f = 0 /\ a.k \in {"c", "enter"} /\ (todo.do = "run" => a.k # "lua")
  BY DEF Init, Active
<1>5. Len(calls) = 1 /\ calls[1] = a /\ Innermost = a
  BY <1>4 DEF Innermost
<1>6. AllFit
  <2>1. framesize(frames, 0) = 0
    BY DEF framesize
  <2>2. FitsIn(a, frames, stacksize)
    BY <1>2, <1>4, <2>1 DEF FitsIn, IsFrame
  <2>3. \A i \in 1 .. 1 : i = 1
    OBVIOUS
  <2>. QED BY <1>5, <2>2, <2>3 DEF AllFit
<1>7. todo.do = "run" \/ (todo.do = "call" /\ todo.f = 1 /\ todo.n = 0)
  <2>1. CASE todo = Go("run")
    BY <2>1, Goes
  <2>2. CASE \E fs \in Kinds : todo = Calling(1, "CP", 0, fs)
    BY <2>2, CallingTyped
  <2>. QED BY <2>1, <2>2 DEF Init
<1>8. TopFits /\ RunTop /\ CallFits /\ CatchFits
  <2>1. TopFits /\ CatchFits
    BY <1>1, <1>2, <1>5 DEF TopFits, CatchFits
  <2>2. RunTop
    BY <1>1, <1>4, <1>5, <1>7 DEF RunTop, Within
  <2>3. CallFits
    BY <1>1, <1>2, <1>7 DEF CallFits, Within
  <2>. QED BY <2>1, <2>2, <2>3
<1>. QED BY <1>3, <1>6, <1>8 DEF Sizes

LEMMA SizesReturnToC ==
  ASSUME Control, Sizes, ReturnToC
  PROVE  Sizes'
<1>0. AllFit
  BY DEF Sizes
<1>1. CASE cframe[Len(cframe)].yield
  BY <1>1, SizesNewThread DEF ReturnToC
<1>2. CASE ~cframe[Len(cframe)].yield
  <2>1. PICK m, w : ReturnedToC(m, w)
    BY <1>0, <1>2, ReturnToCGoes
  <2>. DEFINE b == base - 1
              t == b + w
  <2>2. /\ m \in 1 .. Len(calls) /\ w \in {0, 1} /\ calls[m].k \in {"lua", "c", "cp"} /\ calls[m].f < b
        /\ base' = calls[m].f + 1 /\ frames' = Below(b) /\ calls' = Outer(m) /\ stacksize' = stacksize
        /\ base <= maxstack
        /\ \/ todo' = Go("run") /\ top' = curr_top(base', frames', t)
           \/ todo' = Go("throw") /\ top' = t
    BY <2>1 DEF ReturnedToC
  <2>0. todo.do = "return"
    BY DEF ReturnToC
  <2>3. /\ base \in Nat \ {0} /\ b \in Nat /\ calls[m].f \in Nat /\ Len(calls) \in Nat
        /\ stacksize \in Nat /\ ~Exempt
        /\ maxstack = Room(stacksize) /\ Room(stacksize) \in Int /\ Room(stacksize) <= stacksize
    <3>1. base \in Nat \ {0} /\ calls[m].f \in Nat
      BY <2>2, Facts
    <3>2. ~Exempt
      BY <2>0 DEF Exempt
    <3>3. /\ stacksize \in Nat /\ Len(calls) \in Nat
          /\ maxstack = Room(stacksize) /\ Room(stacksize) \in Int
      BY SizeFacts
    <3>4. Room(stacksize) <= stacksize
      BY <3>3, RoomGrows
    <3>. QED BY <3>1, <3>2, <3>3, <3>4
  <2>4. t \in Nat /\ t <= Room(stacksize')
    BY <2>2, <2>3
  <2>5. \A i \in 1 .. m : FitsIn(calls[i], frames, stacksize)
    <3>1. \A i \in 1 .. m : i \in 1 .. Len(calls)
      BY <2>2, <2>3
    <3>. QED BY <3>1, <2>3, SizeFacts
  <2>6. \/ todo'.do = "run" /\ top' = curr_top(base', frames', t)
        \/ todo'.do = "throw" /\ top' = t
    BY <2>2, Goes
  <2>7. stacksize' \in Nat /\ Room(stacksize') <= stacksize' /\ Room(stacksize') \in Int
    BY <2>2, <2>3
  <2>. HIDE DEF b, t
  <2>8. SameSizes(m)
    BY <2>2, <2>3, BelowSizes
  <2>9. Keeps(m)
    BY <2>2, <2>3, <2>5, <2>7, <2>8 DEF Keeps, Sizes, Bounded
  <2>10. GoesTo(m, t)
    <3>1. t <= stacksize'
      BY <2>4, <2>7
    <3>. QED BY <3>1, <2>2, <2>4, <2>6 DEF GoesTo, Within
  <2>. QED BY <2>2, <2>4, <2>9, <2>10, SizesCut
<1>. QED BY <1>1, <1>2

\* An error is thrown: its message is within the stack, in a place that was checked before.
LEMMA UnwoundAt ==
  ASSUME Control, NEW m, NEW level, Thrown(m, level)
  PROVE  /\ Unwound(level) \in Nat /\ calls[m].f + 1 <= Unwound(level) /\ Unwound(level) <= level + 1
         /\ Unwound(level) <= top /\ calls[m].f \in Nat /\ level \in Nat /\ m \in 1 .. Len(calls) /\ m < Len(calls)
<1>. DEFINE f == calls[m].f
<1>1. /\ m \in 1 .. Len(calls) /\ m < Len(calls) /\ f < level /\ level \in Nat
      /\ top \in Nat /\ base \in Nat /\ base <= top /\ f \in Nat
  BY Facts DEF Thrown, Cuts, Rest, TopAbove
<1>2. f <= base - 1
  BY <1>1, AtPosition
<1>. HIDE DEF f
<1>3. /\ Unwound(level) \in Nat /\ f + 1 <= Unwound(level) /\ Unwound(level) <= level + 1
      /\ Unwound(level) <= top
  BY <1>1, <1>2 DEF Unwound
<1>. QED BY <1>1, <1>3 DEF f

LEMMA RelimitFits ==
  ASSUME stacksize \in Nat, NEW t \in Nat, NEW size, size = relimitstack(t)
  PROVE  \/ size = stacksize
         \/ /\ size \in Nat /\ size = LJ_STACK_MAXEX /\ Room(size) = LUAI_MAXSTACK /\ AtLimit(size)
            /\ t < LUAI_MAXSTACK - 1
BY StackConstants DEF relimitstack, resizestack, LJ_STACK_MAXEX, Room, AtLimit

\* The calls outside the one that fails fit in the stack that is left.
LEMMA ThrownKeeps ==
  ASSUME Control, Sizes, NEW m, NEW level, Thrown(m, level)
  PROVE  Keeps(m) /\ (stacksize' = stacksize \/ (stacksize' \in Nat /\ AtLimit(stacksize')))
<1>. DEFINE t == Unwound(level)
<1>1. /\ t \in Nat /\ calls[m].f + 1 <= t /\ calls[m].f \in Nat /\ m \in 1 .. Len(calls) /\ m < Len(calls)
      /\ stacksize \in Nat /\ Len(calls) \in Nat
  BY UnwoundAt, SizeFacts
<1>2. Cuts(m) /\ stacksize' = relimitstack(t)
  BY DEF Thrown
<1>3. ASSUME NEW i \in 1 .. m PROVE FitsIn(calls[i], frames, stacksize)
  <2>1. i \in 1 .. Len(calls) /\ i # Len(calls)
    BY <1>1
  <2>. QED BY <2>1, SizeFacts
<1>4. base' = calls[m].f + 1 /\ calls' = Outer(m) /\ SameSizes(m)
  BY <1>2, CutSizes DEF Cuts
<1>. HIDE DEF t
<1>5. \/ stacksize' = stacksize
      \/ /\ stacksize' \in Nat /\ stacksize' = LJ_STACK_MAXEX /\ Room(stacksize') = LUAI_MAXSTACK
         /\ AtLimit(stacksize') /\ t < LUAI_MAXSTACK - 1
  BY <1>1, <1>2, RelimitFits
<1>6. CASE stacksize' = stacksize
  BY <1>1, <1>3, <1>4, <1>6 DEF Keeps, Sizes, Bounded
<1>7. CASE /\ stacksize' \in Nat /\ stacksize' = LJ_STACK_MAXEX /\ Room(stacksize') = LUAI_MAXSTACK
           /\ AtLimit(stacksize') /\ t < LUAI_MAXSTACK - 1
  <2>1. ASSUME NEW i \in 1 .. m PROVE FitsIn(calls[i], frames, stacksize')
    <3>1. calls[i].f <= calls[m].f /\ calls[i].f \in Nat
      BY <1>1, NotAbove
    <3>2. calls[i].f < Room(stacksize')
      <4>. DEFINE f == calls[i].f
                  g == calls[m].f
      <4>1. f <= g /\ f \in Nat /\ g \in Nat /\ g + 1 <= t
        BY <1>1, <3>1
      <4>. HIDE DEF f, g
      <4>2. f < Room(stacksize')
        BY <4>1, <1>1, <1>7, StackConstants
      <4>. QED BY <4>2 DEF f
    <3>. QED BY <3>2, <1>7 DEF FitsIn
  <2>2. Bounded'
    <3>1. 1 \in Requests
      BY DEF Requests
    <3>2. stacksize' <= LJ_STACK_MAXEX + 1 + 2 * LUA_MINSTACK + 1 + LJ_STACK_EXTRA
      BY <1>7, StackConstants DEF LJ_STACK_MAXEX
    <3>. QED BY <3>1, <3>2 DEF Bounded
  <2>. QED BY <1>1, <1>4, <1>7, <2>1, <2>2 DEF Keeps
<1>. QED BY <1>5, <1>6, <1>7

\* Where the error is caught there is room for its message.
LEMMA CatchRoom ==
  ASSUME Control, Sizes, todo.do = "throw", NEW m \in 1 .. Len(calls), m < Len(calls), NEW level \in Nat, ToCatch(m, level)
  PROVE  Within(level + 1, calls[m].f + 1, stacksize)
<1>1. /\ stacksize \in Nat /\ Room(stacksize) \in Int /\ Len(calls) \in Nat /\ Exempt /\ base \in Nat \ {0}
      /\ calls[m].f \in Nat
  BY SizeFacts, Facts DEF Exempt
<1>2. CASE level <= calls[m].f + 2
  BY <1>1, <1>2 DEF Within
<1>3. CASE \E j \in 2 .. Len(calls) :
       /\ level = calls[j].f /\ IsFrame(calls[j])
       /\ calls[j - 1].k = "enter" /\ calls[j - 1].prot /\ calls[j - 1].after = "continue"
       /\ calls[j - 1].f = calls[m].f
  <2>1. PICK j \in 2 .. Len(calls) :
       /\ level = calls[j].f /\ IsFrame(calls[j])
       /\ calls[j - 1].k = "enter" /\ calls[j - 1].prot /\ calls[j - 1].after = "continue"
       /\ calls[j - 1].f = calls[m].f
    BY <1>3
  <2>2. CASE j = Len(calls)
    <3>1. Within(base, calls[m].f + 1, stacksize)
      <4>1. Len(calls) > 1 /\ calls[Len(calls) - 1].f + 1 = calls[m].f + 1
        BY <2>1, <2>2, <1>1
      <4>2. Within(base, calls[Len(calls) - 1].f + 1, stacksize)
        BY <2>1, <2>2, <4>1, <1>1 DEF Sizes, CatchFits
      <4>. QED BY <4>1, <4>2
    <3>2. level + 1 = base
      <4>1. calls[j].f = base - 1
        BY <2>2, Facts DEF Innermost
      <4>. QED BY <4>1, <2>1, <1>1
    <3>. QED BY <3>1, <3>2
  <2>3. CASE j # Len(calls)
    <3>1. j \in 1 .. Len(calls)
      BY <2>1, <1>1
    <3>2. FitsIn(calls[j], frames, stacksize)
      BY <2>3, <3>1, SizeFacts
    <3>3. framesize(frames, calls[j].f) \in Nat
      BY <3>1, Facts, Sized
    <3>4. level + 1 <= Room(stacksize) \/ AtLimit(stacksize)
      <4>. DEFINE w == framesize(frames, calls[j].f)
      <4>1. level + 1 + w <= Room(stacksize) \/ AtLimit(stacksize)
        BY <2>1, <3>2 DEF FitsIn
      <4>2. w \in Nat
        BY <3>3
      <4>. HIDE DEF w
      <4>. QED BY <4>1, <4>2, <1>1
    <3>. QED BY <3>4 DEF Within
  <2>. QED BY <2>2, <2>3
<1>. QED BY <1>2, <1>3 DEF ToCatch

LEMMA SizesThrow ==
  ASSUME Control, Sizes, lj_err_throw
  PROVE  Sizes'
<1>1. CASE NewThread
  BY <1>1, SizesNewThread
<1>2. CASE \E m \in 1 .. Len(calls), level \in Nat : Thrown(m, level)
  <2>1. PICK m \in 1 .. Len(calls), level \in Nat : Thrown(m, level)
    BY <1>2
  <2>. DEFINE t == Unwound(level)
  <2>2. /\ t \in Nat /\ calls[m].f + 1 <= t /\ t <= level + 1 /\ t <= top /\ calls[m].f \in Nat
        /\ m < Len(calls) /\ base' = calls[m].f + 1 /\ todo.do = "throw" /\ stacksize \in Nat /\ top \in Nat
        /\ Room(stacksize) \in Int
    BY <2>1, UnwoundAt, SizeFacts DEF Thrown, Cuts, lj_err_throw
  <2>3. Keeps(m) /\ (stacksize' = stacksize \/ (stacksize' \in Nat /\ AtLimit(stacksize')))
    BY <2>1, ThrownKeeps
  <2>4. t <= stacksize' \/ AtLimit(stacksize')
    <3>1. top <= stacksize \/ AtLimit(stacksize)
      BY DEF Sizes, TopFits
    <3>. HIDE DEF t
    <3>. QED BY <3>1, <2>2, <2>3
  <2>5. ASSUME ToCatch(m, level) PROVE Within(t, base', stacksize')
    <3>1. Within(level + 1, calls[m].f + 1, stacksize)
      BY <2>1, <2>2, <2>5, CatchRoom
    <3>. HIDE DEF t
    <3>. QED BY <3>1, <2>2, <2>3 DEF Within
  <2>6. \/ calls[m].k \in {"lua", "c", "cp"} /\ todo'.do = "throw" /\ top' = t
        \/ /\ calls[m].k \in {"lua", "c", "cp"} /\ ToCatch(m, level)
           /\ todo'.do = "run" /\ top' = curr_top(base', frames, t)
        \/ todo'.do = "return" /\ top' = t
    BY <2>1, Goes, ReturningTyped DEF Thrown
  <2>. HIDE DEF t
  <2>7. GoesTo(m, t)
    BY <2>4, <2>5, <2>6 DEF GoesTo
  <2>8. todo'.do = "throw" => calls[m].k \in {"lua", "c", "cp"}
    BY <2>6
  <2>. QED BY <2>2, <2>3, <2>7, <2>8, SizesCut
<1>. QED BY <1>1, <1>2, ThrowGoes

\* The collector shrinks the stack, but keeps the slots that are in use.
LEMMA FramesEnd ==
  ASSUME Control
  PROVE  \E n \in Nat : /\ top - 1 \in 0 .. n
                        /\ \A f \in DOMAIN frames : f + framesize(frames, f) \in 0 .. n
<1>. DEFINE v(i) == calls[i].f + framesize(frames, calls[i].f)
            S == {j \in Nat : \E n \in Nat : \A i \in 1 .. j : v(i) <= n}
<1>1. /\ Len(calls) \in Nat /\ \A i \in 1 .. Len(calls) : v(i) \in Nat
      /\ top - 1 \in Nat /\ FramesAre(frames, calls)
  <2>1. /\ Len(calls) \in Nat /\ Len(calls) \in 1 .. Len(calls) /\ top \in Nat /\ base \in Nat \ {0}
        /\ base <= top /\ FramesAre(frames, calls)
    BY Facts DEF Rest, TopAbove, Shape
  <2>2. ASSUME NEW i \in 1 .. Len(calls) PROVE v(i) \in Nat
    <3>1. calls[i].f \in Nat /\ framesize(frames, calls[i].f) \in Nat
      BY <2>1, NotAbove
    <3>. QED BY <3>1
  <2>. HIDE DEF v
  <2>. QED BY <2>1, <2>2
<1>. HIDE DEF v
<1>2. 0 \in S
  OBVIOUS
<1>3. ASSUME NEW j \in 1 .. Len(calls), j - 1 \in S PROVE j \in S
  <2>1. PICK n \in Nat : \A i \in 1 .. j - 1 : v(i) <= n
    BY <1>3
  <2>2. v(j) \in Nat /\ j \in Nat
    BY <1>1
  <2>3. \A i \in 1 .. j : v(i) <= n + v(j)
    <3>1. ASSUME NEW i \in 1 .. j PROVE v(i) <= n + v(j)
      <4>1. CASE i = j
        BY <4>1, <2>2
      <4>2. CASE i # j
        <5>1. i \in 1 .. j - 1 /\ i \in 1 .. Len(calls)
          BY <4>2, <2>2, <1>1
        <5>2. v(i) \in Nat /\ v(i) <= n
          BY <5>1, <2>1, <1>1
        <5>. QED BY <5>2, <2>2
      <4>. QED BY <4>1, <4>2
    <3>. QED BY <3>1
  <2>. QED BY <2>2, <2>3
<1>4. Len(calls) \in S
  <2>. HIDE DEF S
  <2>1. \A j \in 0 .. Len(calls) : j \in S
    BY <1>1, <1>2, <1>3, UpTo
  <2>. QED BY <2>1, <1>1
<1>5. PICK n \in Nat : \A i \in 1 .. Len(calls) : v(i) <= n
  BY <1>4
<1>6. n + (top - 1) \in Nat /\ top - 1 \in 0 .. n + (top - 1)
  BY <1>1
<1>7. ASSUME NEW f \in DOMAIN frames PROVE f + framesize(frames, f) \in 0 .. n + (top - 1)
  <2>1. PICK i \in 1 .. Len(calls) : calls[i].f = f
    BY <1>1 DEF FramesAre
  <2>2. v(i) \in Nat /\ v(i) <= n /\ v(i) = f + framesize(frames, f)
    BY <2>1, <1>1, <1>5 DEF v
  <2>3. v(i) \in 0 .. n + (top - 1)
    BY <2>2, <1>1
  <2>. QED BY <2>2, <2>3
<1>. QED BY <1>6, <1>7

\* The slots that are in use are below it, unless it is cut at the limit.
InUse(u) ==
  /\ u \in Nat /\ top <= u
  /\ \A i \in 1 .. Len(calls) : calls[i].f + 1 + framesize(frames, calls[i].f) <= u

LEMMA UsedIs ==
  ASSUME Control, used # maxstack
  PROVE  InUse(used)
<1>. DEFINE S == {top - 1} \cup {f + framesize(frames, f) : f \in DOMAIN frames}
<1>1. PICK n \in Nat : /\ top - 1 \in 0 .. n
                       /\ \A f \in DOMAIN frames : f + framesize(frames, f) \in 0 .. n
  BY FramesEnd
<1>2. S \in SUBSET (0 .. n) /\ S # {}
  BY <1>1
<1>3. top - 1 \in S /\ \A f \in DOMAIN frames : f + framesize(frames, f) \in S
  OBVIOUS
<1>4. used = Least(Max(S) + 1, maxstack)
  BY DEF used
<1>. HIDE DEF S
<1>5. Max(S) \in S /\ \A m \in S : m <= Max(S)
  BY <1>2, GreatestOf
<1>6. Max(S) \in Nat /\ used = Max(S) + 1
  <2>1. Max(S) \in 0 .. n
    BY <1>2, <1>5
  <2>2. used \in {Max(S) + 1, maxstack}
    <3>. DEFINE m == Max(S) + 1
    <3>1. used = Least(m, maxstack)
      BY <1>4
    <3>. HIDE DEF m
    <3>2. used \in {m, maxstack}
      BY <3>1 DEF Least
    <3>. QED BY <3>2 DEF m
  <2>. QED BY <2>1, <2>2
<1>7. /\ top \in Nat /\ Len(calls) \in Nat /\ Len(calls) \in 1 .. Len(calls) /\ top - 1 \in Nat
  BY <1>1, Facts DEF Rest
<1>8. top - 1 <= Max(S)
  BY <1>3, <1>5
<1>9. ASSUME NEW i \in 1 .. Len(calls) PROVE calls[i].f + 1 + framesize(frames, calls[i].f) <= used
  <2>. DEFINE f == calls[i].f
              w == framesize(frames, f)
  <2>1. f \in {0} \cup DOMAIN frames /\ w \in Nat /\ f \in Nat
    BY <1>7, NotAbove
  <2>2. f + w <= Max(S)
    <3>1. CASE f = 0
      BY <3>1, <1>6 DEF framesize
    <3>2. CASE f \in DOMAIN frames
      <4>1. f + w \in S
        BY <1>3, <3>2
      <4>. HIDE DEF f, w
      <4>. QED BY <4>1, <1>5
    <3>. QED BY <2>1, <3>1, <3>2
  <2>3. f + 1 + w <= Max(S) + 1
    <3>. HIDE DEF f, w
    <3>. QED BY <2>1, <2>2, <1>6
  <2>. QED BY <2>3, <1>6
<1>. QED BY <1>6, <1>7, <1>8, <1>9 DEF InUse

LEMMA ShrinkRoom ==
  ASSUME Control, Shrinks, NEW size, size = resizestack(stacksize \div 2)
  PROVE  /\ size \in Nat /\ size <= stacksize /\ InUse(used) /\ used < Room(size) /\ Room(size) \in Int
         /\ Room(size) <= size
<1>. DEFINE h == stacksize \div 2
            r == LJ_STACK_EXTRA
            u == used
<1>1. stacksize \in Nat
  BY Facts DEF Rest
<1>2. /\ 4 * u < stacksize /\ 2 * (2 * LUA_MINSTACK + r) < stacksize
  BY DEF Shrinks, LJ_STACK_START
<1>3. r \in Nat /\ LUA_MINSTACK \in Nat /\ LUA_MINSTACK >= 1 /\ maxstack = stacksize - r - 1
  BY StackConstants DEF maxstack
<1>4. size = h + 1 + r /\ Room(size) = size - r - 1
  BY DEF resizestack, Room
<1>5. h \in Nat /\ 2 * h <= stacksize /\ stacksize <= 2 * h + 1
  BY <1>1
<1>6. u # maxstack
  <2>. HIDE DEF u, r
  <2>1. 3 * stacksize > 4 * r + 4
    BY <1>1, <1>2, <1>3
  <2>2. ASSUME u = maxstack PROVE FALSE
    <3>1. 4 * (stacksize - r - 1) < stacksize
      BY <2>2, <1>2, <1>3
    <3>. QED BY <3>1, <2>1, <1>1, <1>3
  <2>. QED BY <2>2
<1>7. InUse(u) /\ u \in Nat
  <2>1. InUse(used)
    BY <1>6, UsedIs
  <2>. HIDE DEF u
  <2>. QED BY <2>1 DEF u, InUse
<1>8. /\ size \in Nat /\ size <= stacksize /\ u < Room(size) /\ Room(size) \in Int /\ Room(size) <= size
  <2>. HIDE DEF u, h, r
  <2>1. Room(size) = h /\ size \in Nat
    BY <1>3, <1>4, <1>5
  <2>2. size <= stacksize
    BY <1>1, <1>2, <1>3, <1>4, <1>5
  <2>3. u < h
    BY <1>1, <1>2, <1>3, <1>5, <1>7
  <2>. QED BY <2>1, <2>2, <2>3, <1>3, <1>4
<1>. QED BY <1>7, <1>8

LEMMA SizesTraverse ==
  ASSUME Control, Sizes, gc_traverse_thread
  PROVE  Sizes'
<1>1. /\ todo.do = "run" /\ todo' = todo /\ base' = base /\ top' = top /\ frames' = frames /\ calls' = calls
      /\ UNCHANGED <<base, top, frames, cframe, status, openupval, calls>>
      /\ stacksize' = IF Shrinks THEN resizestack(stacksize \div 2) ELSE stacksize
  BY DEF gc_traverse_thread
<1>2. CASE ~Shrinks
  <2>1. stacksize' = stacksize
    BY <1>1, <1>2
  <2>2. Innermost' = Innermost
    BY <1>1 DEF Innermost
  <2>. QED BY <1>1, <2>1, <2>2 DEF Sizes, Bounded, AllFit, TopFits, RunTop, CallFits, CatchFits, Exempt, Overdrawn
<1>3. CASE Shrinks
  <2>0. stacksize' = resizestack(stacksize \div 2)
    BY <1>1, <1>3
  <2>1. /\ stacksize' \in Nat /\ stacksize' <= stacksize /\ InUse(used) /\ used < Room(stacksize')
        /\ Room(stacksize') \in Int /\ Room(stacksize') <= stacksize'
    BY <2>0, <1>3, ShrinkRoom
  <2>2. /\ Len(calls) \in Nat /\ stacksize \in Nat /\ top \in Nat /\ top <= used /\ used \in Nat
        /\ Innermost' = Innermost
    BY <1>1, <2>1, SizeFacts DEF InUse, Innermost
  <2>3. AllFit'
    <3>1. ASSUME NEW i \in 1 .. Len(calls) PROVE FitsIn(calls'[i], frames', stacksize')
      <4>. DEFINE f == calls[i].f
                  w == framesize(frames, f)
      <4>1. f + 1 + w <= used /\ f \in Nat /\ w \in Nat
        <5>1. Len(calls) \in 1 .. Len(calls)
          BY <2>2
        <5>. QED BY <5>1, <2>1, NotAbove DEF InUse
      <4>2. f < Room(stacksize') /\ f + 1 + w <= Room(stacksize')
        <5>. HIDE DEF f, w
        <5>. QED BY <4>1, <2>1, <2>2
      <4>. QED BY <4>2, <1>1 DEF FitsIn
    <3>. QED BY <3>1, <1>1 DEF AllFit
  <2>4. Bounded'
    <3>1. PICK need \in Requests : stacksize <= LJ_STACK_MAXEX + need + 2 * LUA_MINSTACK + 1 + LJ_STACK_EXTRA
      BY DEF Sizes, Bounded
    <3>2. need \in Nat /\ LJ_STACK_MAXEX \in Nat /\ LUA_MINSTACK \in Nat /\ LJ_STACK_EXTRA \in Nat
      BY RequestsNat, StackConstants DEF LJ_STACK_MAXEX
    <3>3. stacksize' <= LJ_STACK_MAXEX + need + 2 * LUA_MINSTACK + 1 + LJ_STACK_EXTRA
      BY <3>1, <3>2, <2>1, <2>2
    <3>. QED BY <3>3 DEF Bounded
  <2>5. top' <= Room(stacksize') /\ top' <= stacksize'
    BY <1>1, <2>1, <2>2
  <2>6. TopFits' /\ CallFits' /\ CatchFits'
    BY <1>1, <2>5 DEF TopFits, CallFits, CatchFits, Exempt
  <2>7. RunTop'
    BY <1>1, <2>2, <2>5 DEF Sizes, RunTop, Within
  <2>. QED BY <2>3, <2>4, <2>6, <2>7, SizesFrom
<1>. QED BY <1>2, <1>3

(***************************************************************************)
(* The properties.                                                         *)
(***************************************************************************)
LEMMA Agrees ==
  ASSUME Control
  PROVE  Agree
<1>1. /\ TypeOK /\ Shape(base, frames, cframe, openupval, calls) /\ base \in Nat \ {0}
      /\ Len(calls) \in Nat /\ Len(calls) \in 1 .. Len(calls) /\ Len(cframe) \in Nat
      /\ cframe \in Seq(CframeType) /\ Innermost.f = base - 1 /\ \A i \in 1 .. Len(calls) : calls[i].f \in Nat
  BY Facts DEF Control
<1>2. /\ FramesAre(frames, calls) /\ CframesAre(cframe, calls) /\ UpLive(openupval, calls)
      /\ DOMAIN frames \subseteq Nat \ {0}
  BY <1>1 DEF Shape, TypeOK
<1>3. \A f : f \in FramesOf <=> \E i \in 1 .. Len(calls) : IsFrame(calls[i]) /\ calls[i].f = f
  BY DEF FramesOf, IsFrame, FrameKinds
<1>4. DOMAIN frames = FramesOf \ {0}
  <2>1. ASSUME NEW f \in DOMAIN frames PROVE f \in FramesOf \ {0}
    <3>1. f # 0 /\ \E i \in 1 .. Len(calls) : IsFrame(calls[i]) /\ calls[i].f = f
      BY <1>2 DEF FramesAre
    <3>. QED BY <3>1, <1>3
  <2>2. ASSUME NEW f \in FramesOf, f # 0 PROVE f \in DOMAIN frames
    <3>1. PICK i \in 1 .. Len(calls) : IsFrame(calls[i]) /\ calls[i].f = f
      BY <1>3
    <3>. QED BY <3>1, <2>2, <1>2 DEF FramesAre
  <2>. QED BY <2>1, <2>2
<1>5. base - 1 \in FramesOf \cup {0}
  <2>1. calls[Len(calls)].f \in {0} \cup DOMAIN frames
    BY <1>1, Sized
  <2>. QED BY <2>1, <1>1, <1>4 DEF Innermost
<1>6. ASSUME NEW f \in FramesOf PROVE f < base
  <2>1. PICK i \in 1 .. Len(calls) : calls[i].f = f
    BY <1>3
  <2>2. i \in 1 .. Len(calls) /\ calls[i].f \in Nat /\ calls[i].f <= calls[Len(calls)].f
    BY <1>1, NotAbove
  <2>3. calls[Len(calls)].f = base - 1
    BY <1>1 DEF Innermost
  <2>. QED BY <2>1, <2>2, <2>3, <1>1
<1>7. {calls[i].c : i \in {j \in 1 .. Len(calls) : calls[j].k \in Entries}} = DOMAIN cframe
  <2>1. DOMAIN cframe = 1 .. Len(cframe)
    BY <1>1, LenProperties
  <2>. QED BY <2>1, <1>2 DEF CframesAre, IsEntry
<1>8. UpvaluesLive
  <2>1. ASSUME NEW u \in openupval PROVE \E f \in FramesOf : framesize(frames, f) > 0 /\ u = f + 1
    <3>1. PICK i \in 1 .. Len(calls) : calls[i].k = "lua" /\ u = calls[i].f + 1
      BY <1>2 DEF UpLive
    <3>2. framesize(frames, calls[i].f) > 0
      BY <3>1, <1>1, Sized
    <3>3. calls[i].f \in FramesOf
      BY <3>1, <1>3 DEF IsFrame, FrameKinds
    <3>. QED BY <3>1, <3>2, <3>3
  <2>. QED BY <2>1 DEF UpvaluesLive
<1>. QED BY <1>1, <1>4, <1>5, <1>6, <1>7, <1>8 DEF Agree

LEMMA Fits ==
  ASSUME Control, Sizes
  PROVE  StackFits
<1>1. /\ stacksize \in Nat /\ top \in Nat /\ base \in Nat /\ Len(calls) \in Nat \ {0}
      /\ Room(stacksize) \in Int /\ LJ_STACK_EXTRA \in Nat /\ LUAI_MAXSTACK \in Nat
      /\ Room(stacksize) = stacksize - LJ_STACK_EXTRA - 1 /\ maxstack = Room(stacksize)
  BY SizeFacts
<1>2. AtLimit(stacksize) => LUAI_MAXSTACK <= Room(stacksize)
  BY <1>1 DEF AtLimit
<1>3. ASSUME NEW f \in FramesOf
      PROVE  \/ f = base - 1 /\ Failing
             \/ FrameEnd(f) <= maxstack \/ FrameEnd(f) > LUAI_MAXSTACK
  <2>1. PICK i \in 1 .. Len(calls) : IsFrame(calls[i]) /\ calls[i].f = f
    BY DEF FramesOf, IsFrame, FrameKinds
  <2>2. CASE i = Len(calls) /\ Exempt
    <3>1. f = base - 1
      BY <2>1, <2>2, Facts DEF Innermost
    <3>. QED BY <3>1, <2>2 DEF Exempt, Failing
  <2>3. CASE FitsIn(calls[i], frames, stacksize)
    <3>. DEFINE w == framesize(frames, f)
    <3>1. (f + 1 + w <= Room(stacksize) \/ AtLimit(stacksize)) /\ FrameEnd(f) = f + 1 + w
      BY <2>1, <2>3 DEF FitsIn, FrameEnd
    <3>2. f \in Nat /\ w \in Nat
      <4>1. Shape(base, frames, cframe, openupval, calls) /\ calls[i].f \in Nat
        BY Facts
      <4>2. framesize(frames, calls[i].f) \in Nat
        BY <4>1, Sized
      <4>. QED BY <4>1, <4>2, <2>1
    <3>. HIDE DEF w
    <3>. QED BY <3>1, <3>2, <1>1, <1>2
  <2>4. (i = Len(calls) /\ Exempt) \/ FitsIn(calls[i], frames, stacksize)
    BY DEF Sizes, AllFit
  <2>. QED BY <2>2, <2>3, <2>4
<1>4. top <= stacksize \/ top > LUAI_MAXSTACK
  BY <1>1, <1>2 DEF Sizes, TopFits
<1>5. Bounded
  BY DEF Sizes
<1>. QED BY <1>3, <1>4, <1>5 DEF StackFits, Bounded

(***************************************************************************)
(* The theorems.                                                           *)
(***************************************************************************)
Inv == Control /\ Sizes

LEMMA Unchanged ==
  ASSUME Inv, UNCHANGED vars
  PROVE  Inv'
<1>1. /\ base' = base /\ top' = top /\ stacksize' = stacksize /\ frames' = frames /\ cframe' = cframe
      /\ status' = status /\ openupval' = openupval /\ calls' = calls /\ todo' = todo
  BY DEF vars
<1>2. Innermost' = Innermost
  BY <1>1 DEF Innermost
<1>3. Control'
  BY <1>1, <1>2 DEF Inv, Control, TypeOK, NextCall, NextOther, TopAbove, MayFail
<1>4. Sizes'
  BY <1>1, <1>2 DEF Inv, Sizes, Bounded, AllFit, TopFits, RunTop, CallFits, CatchFits, Exempt, Overdrawn
<1>. QED BY <1>3, <1>4 DEF Inv

LEMMA StepInv ==
  ASSUME OneResult, Inv, [Next]_vars
  PROVE  Inv'
<1>0. /\ Control /\ Sizes /\ AllFit
  BY DEF Inv, Sizes
<1>1. CASE Call
  BY <1>0, <1>1, StepCall, SizesCall DEF Inv
<1>2. CASE ReturnToLua
  BY <1>0, <1>2, StepReturnToLua, SizesReturnToLua DEF Inv
<1>3. CASE ReturnToPcall
  BY <1>0, <1>3, StepReturnToPcall, SizesReturnToPcall DEF Inv
<1>4. CASE ReturnToC
  BY <1>0, <1>4, StepReturnToC, SizesReturnToC DEF Inv
<1>5. CASE lj_err_throw
  BY <1>0, <1>5, StepThrow, SizesThrow DEF Inv
<1>6. CASE err_msgv
  BY <1>0, <1>6, StepMsg, SizesMsg DEF Inv
<1>7. CASE lj_debug_addloc
  BY <1>0, <1>7, StepLine, SizesLine DEF Inv
<1>8. CASE lj_err_run
  BY <1>0, <1>8, StepErrRun, SizesErrRun DEF Inv
<1>9. CASE CallLua
  BY <1>0, <1>9, StepCallLua, SizesCallLua DEF Inv
<1>10. CASE Pcall
  BY <1>0, <1>10, StepPcall, SizesPcall DEF Inv
<1>11. CASE CallMeta
  BY <1>0, <1>11, StepCallMeta, SizesCallMeta DEF Inv
<1>12. CASE OpenUpvalue
  BY <1>0, <1>12, StepOpenUpvalue, SizesOpenUpvalue DEF Inv
<1>13. CASE ReturnLua
  BY <1>0, <1>13, StepReturnLua, SizesReturnLua DEF Inv
<1>14. CASE ErrorLua
  BY <1>0, <1>14, StepErrorLua, SizesErrorLua DEF Inv
<1>15. CASE Push
  BY <1>0, <1>15, StepPush, SizesPush DEF Inv
<1>16. CASE \E n \in CSlots \cup {0} : lua_settop(n)
  <2>1. PICK n \in CSlots \cup {0} : lua_settop(n)
    BY <1>16
  <2>2. n \in Nat
    BY StackConstants
  <2>3. Control'
    BY <1>0, <2>1, <2>2, StepSettop
  <2>4. Sizes'
    BY <1>0, <2>1, SizesSettop
  <2>. QED BY <2>3, <2>4 DEF Inv
<1>17. CASE \E n \in CSlots : lua_checkstack(n)
  <2>1. PICK n \in CSlots : lua_checkstack(n)
    BY <1>17
  <2>2. n \in Nat
    BY StackConstants
  <2>3. Control'
    BY <1>0, <2>1, <2>2, StepCheckstack
  <2>4. Sizes'
    BY <1>0, <2>1, SizesCheckstack
  <2>. QED BY <2>3, <2>4 DEF Inv
<1>18. CASE lua_call
  BY <1>0, <1>18, StepLuaCall, SizesLuaCall DEF Inv
<1>19. CASE lua_pcall
  BY <1>0, <1>19, StepLuaPcall, SizesLuaPcall DEF Inv
<1>20. CASE lua_cpcall
  BY <1>0, <1>20, StepCpcall, SizesCpcall DEF Inv
<1>21. CASE lua_load
  BY <1>0, <1>21, StepLoad, SizesLoad DEF Inv
<1>22. CASE ErrorCp
  BY <1>0, <1>22, StepErrorCp, SizesErrorCp DEF Inv
<1>23. CASE LeaveCp
  BY <1>0, <1>23, StepLeaveCp, SizesLeaveCp DEF Inv
<1>24. CASE lua_error
  BY <1>0, <1>24, StepLuaError, SizesLuaError DEF Inv
<1>25. CASE ReturnC
  BY <1>0, <1>25, StepReturnC, SizesReturnC DEF Inv
<1>26. CASE gc_traverse_thread
  BY <1>0, <1>26, StepTraverse, SizesTraverse DEF Inv
<1>27. CASE gc_call_finalizer
  BY <1>0, <1>27, StepFinalizer, SizesFinalizer DEF Inv
<1>28. CASE UNCHANGED vars
  BY <1>28, Unchanged
<1>. QED
  BY <1>1, <1>2, <1>3, <1>4, <1>5, <1>6, <1>7, <1>8, <1>9, <1>10, <1>11, <1>12, <1>13, <1>14,
     <1>15, <1>16, <1>17, <1>18, <1>19, <1>20, <1>21, <1>22, <1>23, <1>24, <1>25, <1>26, <1>27, <1>28 DEF Next

LEMMA Invariance ==
  ASSUME OneResult
  PROVE  Spec => []Inv
<1>1. Init => Inv
  BY Start, SizesStart DEF Inv
<1>2. Inv /\ [Next]_vars => Inv'
  BY StepInv
<1>. QED BY <1>1, <1>2, PTL DEF Spec

\* After any mixture of calls, metamethods, protected calls, returns and errors the frames and
\* cframes are those of the calls that are active, and no upvalue of a function that an error has
\* ended is open: for all sizes of frames and stacks and any depth of calls, if C code asks for at
\* most one result (vm_x86.dasc, lj_err.c).
THEOREM ControlAgrees ==
  ASSUME OneResult
  PROVE  Spec => []Agree
<1>1. Inv => Agree
  BY Agrees DEF Inv
<1>. QED BY <1>1, Invariance, PTL

\* The functions that are active have their slots below the limit that is checked, whatever the
\* collector shrinks, and an overflow overdraws the stack once (lj_state.c).
THEOREM StackSuffices ==
  ASSUME OneResult
  PROVE  Spec => []StackFits
<1>1. Inv => StackFits
  BY Fits DEF Inv
<1>. QED BY <1>1, Invariance, PTL

\* err_unwind, which only sees frames and cframes, finds the innermost call that is protected, and
\* none when there is none (lj_err.c).
THEOREM ErrorsAreCaught ==
  ASSUME OneResult
  PROVE  Spec => []CatchFound
<1>1. Inv => CatchFound
  BY Catches DEF Inv
<1>. QED BY <1>1, Invariance, PTL

\* finderrfunc finds the handler of the innermost protected call that does not inherit one, if no
\* finalizer is active (lj_err.c).
THEOREM HandlersAreFound ==
  ASSUME OneResult
  PROVE  Spec => []HandlerFound
<1>1. Inv => HandlerFound
  BY Handles DEF Inv
<1>. QED BY <1>1, Invariance, PTL
====
