-------------------------------- MODULE LJFold ---------------------------------
(***************************************************************************)
(* The FOLD engine of the trace compiler (lj_opt_fold.c): its rules for    *)
(* 32 bit integers, comparisons and bounds checks, tried from the most     *)
(* specific to the least, retried until none applies, and the elimination  *)
(* of common subexpressions.  The recorder emits any instructions; what    *)
(* they compute at run time is the reference.  Integers have W bits; no    *)
(* instruction is a PHI (a trace before its loop is unrolled).             *)
(***************************************************************************)
EXTENDS Integers, Sequences, FiniteSets

CONSTANTS
  W,             \* bits of an integer, a power of 2 (32)
  Konst,         \* constants in the program
  Inputs,        \* values of the two inputs for which results are compared
  FirstOps,      \* what the program's first instruction may be,
  SecondOps,     \* its second, which uses the result of the first,
  ThirdOps,      \* and its third, which uses those of both
  SumOps,        \* if both are among these (its second may then use the inputs alone)
  MaxRetries     \* bound on the retries of the engine

VARIABLES
  ir,            \* J->cur.ir: instructions; 1 and 2 load the inputs
  last,          \* what was emitted last: the instruction before FOLD, and what FOLD returned
  todo,          \* what lj_opt_narrow_mod emits next
  made           \* where the instructions of the program's operations are

vars == <<ir, last, todo, made>>

(***************************************************************************)
(* Integers of W bits.                                                     *)
(***************************************************************************)
Modulus == 2 ^ W
Wrap(n) == ((n + Modulus \div 2) % Modulus) - Modulus \div 2
U(n) == n % Modulus
mask == W - 1
BitsAnd[a \in 0 .. Modulus - 1, b \in 0 .. Modulus - 1] ==
  IF a = 0 THEN 0 ELSE ((a % 2) * (b % 2)) + 2 * BitsAnd[a \div 2, b \div 2]
And(a, b) == Wrap(BitsAnd[U(a), U(b)])
Or(a, b) == Wrap(a + b - And(a, b))
Xor(a, b) == Wrap(a + b - 2 * And(a, b))
Rol(a, k) == Wrap(U(a) * 2 ^ k + U(a) \div 2 ^ (W - k))
ModI(a, b) == IF b > 0 THEN a % b ELSE -((-a) % (-b))

Arith == {"ADD", "SUB", "MUL", "MOD", "NEG", "BAND", "BOR", "BXOR", "BSHL", "BSHR", "BSAR",
          "BROL", "BROR", "MIN", "MAX"}
Checked == {"ADDOV", "SUBOV", "MULOV"}
Compare == <<"LT", "GE", "LE", "GT", "ULT", "UGE", "ULE", "UGT">>  \* by number
Comparisons == {Compare[i] : i \in 1 .. 8}
Number(o) == (CHOOSE i \in 1 .. 8 : Compare[i] = o) - 1

\* kfold_intop, and what the instruction computes
kfold_intop(a, b, o) ==
  CASE o = "ADD" -> Wrap(a + b)
    [] o = "SUB" -> Wrap(a - b)
    [] o = "MUL" -> Wrap(a * b)
    [] o = "MOD" -> Wrap(ModI(a, b))
    [] o = "NEG" -> Wrap(-a)
    [] o = "BAND" -> And(a, b)
    [] o = "BOR" -> Or(a, b)
    [] o = "BXOR" -> Xor(a, b)
    [] o = "BSHL" -> Wrap(U(a) * 2 ^ (b % W))
    [] o = "BSHR" -> Wrap(U(a) \div 2 ^ (b % W))
    [] o = "BSAR" -> a \div 2 ^ (b % W)
    [] o = "BROL" -> Rol(a, b % W)
    [] o = "BROR" -> Rol(a, (-b) % W)
    [] o = "MIN" -> IF a < b THEN a ELSE b
    [] o = "MAX" -> IF a > b THEN a ELSE b
Exact(a, b, o) == CASE o = "ADDOV" -> a + b [] o = "SUBOV" -> a - b [] o = "MULOV" -> a * b
Holds(a, b, o) ==
  CASE o = "LT" -> a < b [] o = "GE" -> a >= b [] o = "LE" -> a <= b [] o = "GT" -> a > b
    [] o = "ULT" -> U(a) < U(b) [] o = "UGE" -> U(a) >= U(b) [] o = "ULE" -> U(a) <= U(b)
    [] o \in {"UGT", "ABC"} -> U(a) > U(b)
    [] o = "EQ" -> a = b [] o = "NE" -> a # b
Guards == Comparisons \cup {"EQ", "NE", "ABC"}

(***************************************************************************)
(* References: instructions from 1, no operand is 0, constants are lower.  *)
(***************************************************************************)
lj_ir_kint(k) == k - 2 * Modulus
irref_isk(r) == r < 0
kint(r) == r + 2 * Modulus
Opcode(I, r) == IF r = 0 THEN "none" ELSE IF irref_isk(r) THEN "KINT" ELSE I[r].o
Ins(o, a, b) == [o |-> o, op1 |-> a, op2 |-> b]

\* What fold functions return.
NEXTFOLD == [k |-> "next"]
RETRYFOLD(f) == [k |-> "retry", f |-> f]
Ref(r) == [k |-> "ref", r |-> r]
INTFOLD(v) == Ref(lj_ir_kint(v))
FAILFOLD == [k |-> "fail"]
DROPFOLD == [k |-> "drop"]
EMITFOLD == [k |-> "emit"]
CONDFOLD(c) == IF c THEN DROPFOLD ELSE FAILFOLD

(***************************************************************************)
(* Fold functions: I is the IR, f the instruction, L and R are those of    *)
(* its operands where the rule matches on them.                            *)
(***************************************************************************)
kfold_intarith(f) == INTFOLD(kfold_intop(kint(f.op1), kint(f.op2), f.o))
kfold_intovarith(f) ==
  LET n == Exact(kint(f.op1), kint(f.op2), f.o) IN IF n # Wrap(n) THEN FAILFOLD ELSE INTFOLD(n)
kfold_bnot(f) == INTFOLD(-1 - kint(f.op1))
kfold_intcomp(f) == CONDFOLD(Holds(kint(f.op1), kint(f.op2), f.o))
kfold_intcomp0(f) == IF kint(f.op2) = 0 THEN DROPFOLD ELSE NEXTFOLD
kfold_kref(f) == CONDFOLD((f.op1 = f.op2) # (f.o = "NE"))
shortcut_leftleft(L) == Ref(L.op1)

simplify_intadd_k(f) == IF kint(f.op2) = 0 THEN Ref(f.op1) ELSE NEXTFOLD
simplify_intmul_k(f) ==
  CASE kint(f.op2) = 0 -> Ref(f.op2)
    [] kint(f.op2) = 1 -> Ref(f.op1)
    [] kint(f.op2) = 2 -> RETRYFOLD(Ins("ADDOV", f.op1, f.op1))
    [] OTHER -> NEXTFOLD
simplify_intsub_k(f) ==
  IF kint(f.op2) = 0 THEN Ref(f.op1)
  ELSE RETRYFOLD(Ins("ADD", f.op1, lj_ir_kint(Wrap(-kint(f.op2)))))
simplify_intsub_kleft(f) == IF kint(f.op1) = 0 THEN RETRYFOLD(Ins("NEG", f.op2, f.op2)) ELSE NEXTFOLD
lj_fls(k) == CHOOSE i \in 0 .. mask : U(k) = 2 ^ i
PowerOf2(k) == \E i \in 0 .. mask : U(k) = 2 ^ i
simplify_intmul_k32(f) ==
  LET k == kint(f.op2)
  IN  CASE k = 0 -> Ref(f.op2)
        [] k = 1 -> Ref(f.op1)
        [] k > 1 /\ PowerOf2(k) -> RETRYFOLD(Ins("BSHL", f.op1, lj_ir_kint(lj_fls(k))))
        [] OTHER -> NEXTFOLD
simplify_intmod_k(f) ==
  LET k == kint(f.op2)
  IN  IF k > 0 /\ PowerOf2(k) THEN RETRYFOLD(Ins("BAND", f.op1, lj_ir_kint(k - 1))) ELSE NEXTFOLD
simplify_intmod_kleft(f) == IF kint(f.op1) = 0 THEN INTFOLD(0) ELSE NEXTFOLD
simplify_intsub(f) == IF f.op1 = f.op2 THEN INTFOLD(0) ELSE NEXTFOLD
simplify_intsubadd_leftcancel(f, L) ==
  CASE f.op2 = L.op1 -> Ref(L.op2)
    [] f.op2 # L.op1 /\ f.op2 = L.op2 -> Ref(L.op1)
    [] OTHER -> NEXTFOLD
simplify_intsubsub_leftcancel(f, L) ==
  IF f.op2 = L.op1 THEN RETRYFOLD(Ins("SUB", lj_ir_kint(0), L.op2)) ELSE NEXTFOLD
simplify_intsubsub_rightcancel(f, R) == IF f.op1 = R.op1 THEN Ref(R.op2) ELSE NEXTFOLD
simplify_intsubadd_rightcancel(f, R) ==
  CASE f.op1 = R.op1 -> RETRYFOLD(Ins("SUB", lj_ir_kint(0), R.op2))
    [] f.op1 # R.op1 /\ f.op1 = R.op2 -> RETRYFOLD(Ins("SUB", lj_ir_kint(0), R.op1))
    [] OTHER -> NEXTFOLD
simplify_intsubaddadd_cancel(L, R) ==
  CASE L.op1 = R.op1 -> RETRYFOLD(Ins("SUB", L.op2, R.op2))
    [] L.op1 # R.op1 /\ L.op1 = R.op2 -> RETRYFOLD(Ins("SUB", L.op2, R.op1))
    [] L.op1 \notin {R.op1, R.op2} /\ L.op2 = R.op1 -> RETRYFOLD(Ins("SUB", L.op1, R.op2))
    [] L.op1 \notin {R.op1, R.op2} /\ L.op2 # R.op1 /\ L.op2 = R.op2 ->
         RETRYFOLD(Ins("SUB", L.op1, R.op1))
    [] OTHER -> NEXTFOLD
simplify_band_k(f) ==
  CASE kint(f.op2) = 0 -> Ref(f.op2) [] kint(f.op2) = -1 -> Ref(f.op1) [] OTHER -> NEXTFOLD
simplify_bor_k(f) ==
  CASE kint(f.op2) = 0 -> Ref(f.op1) [] kint(f.op2) = -1 -> Ref(f.op2) [] OTHER -> NEXTFOLD
simplify_bxor_k(f) ==
  CASE kint(f.op2) = 0 -> Ref(f.op1) [] kint(f.op2) = -1 -> RETRYFOLD(Ins("BNOT", f.op1, 0))
    [] OTHER -> NEXTFOLD
simplify_shift_ik(f) ==
  LET k == kint(f.op2) % W
  IN  IF k = 0 THEN Ref(f.op1)
      ELSE IF k = 1 /\ f.o = "BSHL" THEN RETRYFOLD(Ins("ADD", f.op1, f.op1))
      ELSE IF k # kint(f.op2) THEN RETRYFOLD(Ins(f.o, f.op1, lj_ir_kint(k)))
      ELSE IF f.o = "BROR" THEN RETRYFOLD(Ins("BROL", f.op1, lj_ir_kint((-k) % W)))
      ELSE NEXTFOLD
\* shifts and rotates mask their counts (LJ_TARGET_MASKSHIFT, LJ_TARGET_MASKROT)
simplify_shift_andk(f, R) ==
  IF irref_isk(R.op2) /\ kint(R.op2) % W = mask THEN RETRYFOLD(Ins(f.o, f.op1, R.op1)) ELSE NEXTFOLD
simplify_shift1_ki(f) == IF kint(f.op1) = 0 THEN Ref(f.op1) ELSE NEXTFOLD
simplify_shift2_ki(f) == IF kint(f.op1) \in {0, -1} THEN Ref(f.op1) ELSE NEXTFOLD
\* (i & k1) o k2 ==> (i o k2) & (k1 o k2); the engine folds i o k2 first
simplify_shiftk_andk(f, L) ==
  IF irref_isk(L.op2)
    THEN [k |-> "nested", f |-> Ins(f.o, L.op1, f.op2),
          r |-> lj_ir_kint(kfold_intop(kint(L.op2), kint(f.op2), f.o))]
    ELSE NEXTFOLD
simplify_andk_shiftk(f, L) ==
  IF irref_isk(L.op2) /\ kfold_intop(-1, kint(L.op2), L.o) = kint(f.op2) THEN Ref(f.op1) ELSE NEXTFOLD

reassoc_intarith_k(f, L) ==
  IF ~irref_isk(L.op2) THEN NEXTFOLD
  ELSE LET k == kfold_intop(kint(L.op2), kint(f.op2), f.o)
       IN  IF k = kint(L.op2) THEN Ref(f.op1) ELSE RETRYFOLD(Ins(f.o, L.op1, lj_ir_kint(k)))
reassoc_dup(f, L) == IF f.op2 \in {L.op1, L.op2} THEN Ref(f.op1) ELSE NEXTFOLD
reassoc_bxor(f, L) ==
  CASE f.op2 = L.op1 -> Ref(L.op2)
    [] f.op2 # L.op1 /\ f.op2 = L.op2 -> Ref(L.op1)
    [] OTHER -> NEXTFOLD
reassoc_shift(f, L) ==
  IF ~irref_isk(L.op2) THEN NEXTFOLD
  ELSE LET k == (kint(L.op2) % W) + (kint(f.op2) % W)
           to(n) == RETRYFOLD(Ins(f.o, L.op1, lj_ir_kint(n)))
       IN  IF k <= mask THEN to(k)
           ELSE IF f.o \in {"BSHL", "BSHR"} THEN INTFOLD(0)
           ELSE IF f.o = "BSAR" THEN to(mask) ELSE to(k % W)
reassoc_minmax_k(f, L) == reassoc_intarith_k(f, L)
reassoc_minmax_left(f, L) == IF f.op2 \in {L.op1, L.op2} THEN Ref(f.op2) ELSE NEXTFOLD
reassoc_minmax_right(f, R) == IF f.op1 \in {R.op1, R.op2} THEN Ref(f.op1) ELSE NEXTFOLD

\* the last check of the same size against a constant, if there is one
Checks(I, f) ==
  {r \in DOMAIN I : I[r].o = "ABC" /\ r > f.op1 /\ I[r].op1 = f.op1 /\ irref_isk(I[r].op2)}
LastCheck(I, f) == CHOOSE c \in Checks(I, f) : \A d \in Checks(I, f) : d <= c
\* Wrong: it stays as it is.
abc_k_drops(I, f) == IF Checks(I, f) = {} THEN EMITFOLD ELSE DROPFOLD
\* It is kept, for the larger of the two.
abc_k(I, f) ==
  IF Checks(I, f) = {} THEN EMITFOLD
  ELSE LET r == LastCheck(I, f)
       IN  IF kint(f.op2) > kint(I[r].op2)
             THEN [k |-> "patch", ir |-> [I EXCEPT ![r].op2 = f.op2]] ELSE DROPFOLD

\* Wrong: the operands are always swapped.
comm_swap_always(f) == RETRYFOLD(Ins(f.o, f.op2, f.op1))
\* lower references go to the right
comm_swap(f) == IF f.op1 < f.op2 THEN RETRYFOLD(Ins(f.o, f.op2, f.op1)) ELSE NEXTFOLD
comm_equal(f) == IF f.op1 = f.op2 THEN CONDFOLD(f.o = "EQ") ELSE comm_swap(f)
comm_comp(f) ==
  IF f.op1 = f.op2 THEN CONDFOLD(Number(f.o) % 4 \in {1, 2})
  ELSE IF f.op1 < f.op2  \* o ^ 3
         THEN LET n == Number(f.o)
              IN  RETRYFOLD(Ins(Compare[(n \div 4) * 4 + 4 - (n % 4)], f.op2, f.op1))
         ELSE NEXTFOLD
comm_dup(f) == IF f.op1 = f.op2 THEN Ref(f.op1) ELSE comm_swap(f)
comm_bxor(f) == IF f.op1 = f.op2 THEN INTFOLD(0) ELSE comm_swap(f)

(***************************************************************************)
(* The rules (LJFOLD): instruction f matches one if its operands have the  *)
(* opcodes l and r, or "any"; no two rules match the same.  Not modelled:  *)
(* the rules for BSWAP (of the bytes of an integer), abc_fwd and abc_invar *)
(* (which need PHIs and a loop), and those for other types than integers   *)
(* of 32 bits.                                                             *)
(***************************************************************************)
kfold(f, l, r) ==
  LET o == f.o IN
  CASE o = "BNOT" /\ l = "KINT" /\ r = "none" -> kfold_bnot(f)
    [] o = "UGE" /\ l = "any" /\ r = "KINT" -> kfold_intcomp0(f)
    [] l = "KINT" /\ r = "KINT" ->
         (CASE o \in Arith -> kfold_intarith(f)
            [] o \in Checked -> kfold_intovarith(f)
            [] o \in Comparisons \cup {"ABC"} -> kfold_intcomp(f)
            [] o \in {"EQ", "NE"} -> kfold_kref(f))
    [] OTHER -> NEXTFOLD

shortcut(f, l, r, L) ==
  IF <<f.o, l, r>> \in {<<"NEG", "NEG", "any">>, <<"BNOT", "BNOT", "none">>}
  THEN shortcut_leftleft(L) ELSE NEXTFOLD

simplify_int(f, l, r, L, R) ==
  LET o == f.o IN
  CASE l = "any" /\ r = "KINT" ->
         (CASE o \in {"ADD", "ADDOV", "SUBOV"} -> simplify_intadd_k(f)
            [] o = "MULOV" -> simplify_intmul_k(f)
            [] o = "SUB" -> simplify_intsub_k(f)
            [] o = "MUL" -> simplify_intmul_k32(f)
            [] o = "MOD" -> simplify_intmod_k(f)
            [] OTHER -> NEXTFOLD)
    [] o = "SUB" /\ l = "KINT" /\ r = "any" -> simplify_intsub_kleft(f)
    [] o = "MOD" /\ l = "KINT" /\ r = "any" -> simplify_intmod_kleft(f)
    [] o \in {"SUB", "SUBOV"} /\ l = "any" /\ r = "any" -> simplify_intsub(f)
    [] o = "SUB" /\ l = "ADD" /\ r = "any" -> simplify_intsubadd_leftcancel(f, L)
    [] o = "SUB" /\ l = "SUB" /\ r = "any" -> simplify_intsubsub_leftcancel(f, L)
    [] o = "SUB" /\ l = "any" /\ r = "SUB" -> simplify_intsubsub_rightcancel(f, R)
    [] o = "SUB" /\ l = "any" /\ r = "ADD" -> simplify_intsubadd_rightcancel(f, R)
    [] o = "SUB" /\ l = "ADD" /\ r = "ADD" -> simplify_intsubaddadd_cancel(L, R)
    [] OTHER -> NEXTFOLD

Shifts == {"BSHL", "BSHR", "BSAR", "BROL", "BROR"}
simplify_bit(f, l, r, L, R) ==
  LET o == f.o IN
  CASE l = "any" /\ r = "KINT" ->
         (CASE o = "BAND" -> simplify_band_k(f)
            [] o = "BOR" -> simplify_bor_k(f)
            [] o = "BXOR" -> simplify_bxor_k(f)
            [] o \in Shifts -> simplify_shift_ik(f)
            [] OTHER -> NEXTFOLD)
    [] o \in Shifts /\ l = "any" /\ r = "BAND" -> simplify_shift_andk(f, R)
    [] o \in {"BSHL", "BSHR"} /\ l = "KINT" /\ r = "any" -> simplify_shift1_ki(f)
    [] o \in {"BSAR", "BROL", "BROR"} /\ l = "KINT" /\ r = "any" -> simplify_shift2_ki(f)
    [] o \in Shifts \ {"BSAR"} /\ l = "BAND" /\ r = "KINT" -> simplify_shiftk_andk(f, L)
    [] o = "BAND" /\ l \in {"BSHL", "BSHR"} /\ r = "KINT" -> simplify_andk_shiftk(f, L)
    [] OTHER -> NEXTFOLD

reassoc(f, l, r, L, R) ==
  LET o == f.o
      minmax(x) == <<o, x>> \in {<<"MIN", "MAX">>, <<"MAX", "MIN">>}
  IN
  CASE l = o /\ r = "KINT" ->
         (CASE o \in {"ADD", "MUL", "BAND", "BOR", "BXOR"} -> reassoc_intarith_k(f, L)
            [] o \in Shifts -> reassoc_shift(f, L)
            [] o \in {"MIN", "MAX"} -> reassoc_minmax_k(f, L)
            [] OTHER -> NEXTFOLD)
    [] o \in {"MIN", "MAX", "BAND", "BOR"} /\ l = o /\ r = "any" -> reassoc_dup(f, L)
    [] o = "BXOR" /\ l = o /\ r = "any" -> reassoc_bxor(f, L)
    [] minmax(l) /\ r = "any" -> reassoc_minmax_left(f, L)
    [] minmax(r) /\ l = "any" -> reassoc_minmax_right(f, R)
    [] OTHER -> NEXTFOLD

abc(I, f, l, r) == IF f.o = "ABC" /\ l = "any" /\ r = "KINT" THEN abc_k(I, f) ELSE NEXTFOLD

comm(f, l, r) ==
  LET o == f.o IN
  CASE l # "any" \/ r # "any" -> NEXTFOLD
    [] l = "any" /\ r = "any" ->
         (CASE o \in {"ADD", "MUL", "ADDOV", "MULOV"} -> comm_swap(f)
            [] o \in {"EQ", "NE"} -> comm_equal(f)
            [] o \in Comparisons -> comm_comp(f)
            [] o \in {"BAND", "BOR", "MIN", "MAX"} -> comm_dup(f)
            [] o = "BXOR" -> comm_bxor(f)
            [] OTHER -> NEXTFOLD)

(***************************************************************************)
(* The engine.                                                             *)
(***************************************************************************)
Emitted(I, f) == [k |-> "ref", ir |-> Append(I, f), r |-> Len(I) + 1]
\* lj_opt_cse: the last instruction that is the same, above both operands
lj_opt_cse(I, f) ==
  LET C == {r \in DOMAIN I : I[r] = f /\ r > f.op1 /\ r > f.op2}
  IN  IF C = {} THEN Emitted(I, f)
      ELSE [k |-> "ref", ir |-> I, r |-> CHOOSE c \in C : \A d \in C : d <= c]

OrElse(a, b) == IF a.k = "next" THEN b ELSE a
\* what the rule that matches returns
Rule(I, f, l, r) ==
  LET L == I[f.op1]
      R == I[f.op2]
  IN  OrElse(kfold(f, l, r),
      OrElse(shortcut(f, l, r, L),
      OrElse(simplify_int(f, l, r, L, R),
      OrElse(simplify_bit(f, l, r, L, R),
      OrElse(reassoc(f, l, r, L, R),
      OrElse(abc(I, f, l, r), comm(f, l, r)))))))
\* The rule that is tried first and does not pass: both operands, the right one, the left
\* one, none.
Matched(I, f, l, r) ==
  OrElse(Rule(I, f, l, r),
         OrElse(Rule(I, f, "any", r), OrElse(Rule(I, f, l, "any"), Rule(I, f, "any", "any"))))

\* lj_opt_fold, with n retries left: a reference, or "drop", "fail", or "loop"
RECURSIVE lj_opt_fold(_, _, _), Applied(_, _, _, _)
\* a rule has returned x
Applied(I, f, n, x) ==
  CASE x.k = "next" -> lj_opt_cse(I, f)
    [] x.k = "retry" -> lj_opt_fold(I, x.f, n - 1)
    [] x.k = "nested" ->  \* i o k2 has been folded
         LET y == lj_opt_fold(I, x.f, n - 1)
         IN  IF y.k = "ref" THEN lj_opt_fold(y.ir, Ins("BAND", y.r, x.r), n - 1) ELSE y
    [] x.k = "ref" -> [k |-> "ref", ir |-> I, r |-> x.r]
    [] x.k = "emit" -> Emitted(I, f)
    [] x.k = "patch" -> [k |-> "drop", ir |-> x.ir, r |-> 0]
    [] x.k \in {"drop", "fail"} -> [k |-> x.k, ir |-> I, r |-> 0]
lj_opt_fold(I, f, n) ==
  IF n = 0 THEN [k |-> "loop", ir |-> I, r |-> 0]
  ELSE Applied(I, f, n, Matched(I, f, Opcode(I, f.op1), Opcode(I, f.op2)))

(***************************************************************************)
(* The recorder emits the instructions of a program (emitir).  After       *)
(* FAILFOLD the trace is aborted.                                          *)
(***************************************************************************)
Init ==
  /\ ir = <<Ins("SLOAD", 0, 0), Ins("SLOAD", 0, 0)>> /\ last = [k |-> "none", new |-> TRUE]
  /\ todo = <<>> /\ made = <<>>

emitir(f) ==
  LET x == lj_opt_fold(ir, f, MaxRetries)
  IN  /\ ir' = x.ir
      /\ last' = [k |-> x.k, f |-> f, r |-> x.r, new |-> Len(x.ir) > Len(ir)]
Operation(o, a, b) ==
  /\ emitir(CASE o = "BNOT" -> Ins(o, a, 0) [] o = "NEG" -> Ins(o, a, a) [] OTHER -> Ins(o, a, b))
  /\ todo' = <<>> /\ made' = Append(made, Len(ir'))

\* An index that is a constant was inside the array when the trace was recorded, and so
\* was the constant bound of a loop.
rec_idx_abc(a, b) == (irref_isk(b) => kint(b) >= 0) /\ Operation("ABC", a, b)

\* The divisor, which was not zero when the trace was recorded, is guarded before the
\* MOD is emitted.
lj_opt_narrow_mod(a, b) ==
  /\ irref_isk(b) => kint(b) # 0
  /\ emitir(Ins("NE", b, lj_ir_kint(0)))
  /\ todo' = <<Ins("MOD", a, b)>> /\ UNCHANGED made
narrow_mod_guarded ==
  /\ todo # <<>> /\ last.k # "fail"
  /\ Operation("MOD", todo[1].op1, todo[1].op2)

\* The program's next operation is o on a and b.
Step(o, a, b) ==
  CASE o = "ABC" -> rec_idx_abc(a, b) [] o = "MOD" -> lj_opt_narrow_mod(a, b)
    [] OTHER -> Operation(o, a, b)

Sources == {1, 2} \cup {lj_ir_kint(v) : v \in Konst}
\* what the program's instructions have become, and the values among them
Made == {ir[made[i]].o : i \in 1 .. Len(made)}
Values == {made[i] : i \in {j \in 1 .. Len(made) : ir[made[j]].o \notin Guards}}
\* The program has n operations and goes on, unless the last one was folded away.
Emits(n) == Len(made) = n /\ todo = <<>> /\ last.new
Next ==
  \/ Emits(0) /\ \E o \in FirstOps, a \in Sources, b \in Sources : Step(o, a, b)
  \/ /\ Emits(1)
     /\ \E o \in SecondOps, a \in Sources \cup Values, b \in Sources \cup Values :
          /\ Values \cap {a, b} # {} \/ Made \cup {o} \subseteq SumOps \/ Made \cup {o} = {"ABC"}
          /\ Step(o, a, b)
  \/ /\ Emits(2) /\ Made \subseteq SumOps
     /\ \E o \in ThirdOps : Step(o, made[1], made[2]) \/ Step(o, made[2], made[1])
  \/ /\ Emits(2) /\ ir[made[2]].o = "ABC"  \* another check of the same size
     /\ \E b \in Sources : Step("ABC", ir[made[2]].op1, b)
  \/ narrow_mod_guarded
Spec == Init /\ [][Next]_vars

(***************************************************************************)
(* Properties.                                                             *)
(***************************************************************************)
\* What the trace computes: the value of a reference for inputs v, when no guard fails.
Runs(o, a, b) ==
  CASE o = "BNOT" -> -1 - a
    [] o \in Arith -> kfold_intop(a, b, o)
    [] o \in Checked -> Wrap(Exact(a, b, o))
    [] o \in Guards -> 0
Passes(o, a, b) ==
  CASE o \in Checked -> Exact(a, b, o) = Wrap(Exact(a, b, o))
    [] o \in Guards -> Holds(a, b, o)
    [] OTHER -> TRUE
RECURSIVE Value(_, _, _)
Value(I, r, v) ==
  IF irref_isk(r) THEN kint(r)
  ELSE IF r = 0 THEN 0
  ELSE IF r <= 2 THEN v[r]
  ELSE Runs(I[r].o, Value(I, I[r].op1, v), Value(I, I[r].op2, v))
\* The trace runs to its end: no guard fails.
Completes(I, v) ==
  \A r \in 3 .. Len(I) : Passes(I[r].o, Value(I, I[r].op1, v), Value(I, I[r].op2, v))

\* Folding changes nothing that can be observed: for the same inputs the trace fails a
\* guard after the instruction was folded if and only if it would have with the
\* instruction as it was emitted, however many rules were applied in between, whether a
\* guard was dropped or an earlier bounds check was changed for it; and what FOLD returns
\* has the value the instruction would have.
FoldSound == [][
  LET f == last'.f
      left(v) == Value(ir, f.op1, v)
      right(v) == Value(ir, f.op2, v)
  IN  \A v \in Inputs :
        /\ (Completes(ir, v) /\ Passes(f.o, left(v), right(v)))
             <=> (last'.k # "fail" /\ Completes(ir', v))
        /\ last'.k = "ref" /\ Completes(ir', v) =>
             Value(ir', last'.r, v) = Runs(f.o, left(v), right(v))]_vars

\* Retrying ends: no sequence of rules, each the input of the next, goes on for ever (the
\* rules must be "monotonic", lj_opt_fold.c:117).
FoldEnds == last.k # "loop"
================================================================================
