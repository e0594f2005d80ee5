------------------------------ MODULE Arithmetic ------------------------------
(***************************************************************************)
(* Operators on numbers, as the compiler types and translates them.  An    *)
(* expression is built from the left, an operand at a time: every operator *)
(* promotes what is there and the next operand to one type and computes in *)
(* it.  A second piece of code foretells the type of an expression without *)
(* translating it, for what must be laid out before (fields, variables of  *)
(* a loop, the value of a when), and compound assignments have a copy each *)
(* of the rules.                                                           *)
(*                                                                         *)
(* A register holds a bit pattern; a kind says how to read it.  The widths *)
(* 8, 16, 32 and 64 of the code are represented by fewer bits (Bits), with *)
(* shift amounts to match, and large ranges by patterns near their ends    *)
(* (Samples).  A floating-point number is a small integer or NaN: rounding *)
(* is left out.                                                            *)
(***************************************************************************)
EXTENDS Integers, Sequences

CONSTANTS
    NaN, Poison,    \* not a number; what an undefined conversion yields
    MaxOperands,    \* bound: operands of an expression
    Known           \* the known gaps of the code to leave out, from Gaps

(* An unsigned number of 32 bits or more meets a narrower signed one and   *)
(* is read as signed; != is false of NaN; the foretold type ignores        *)
(* unsigned kinds; a compound assignment takes what is not a number for    *)
(* its right side.                                                         *)
Gaps == {"unsigned with narrower signed", "unequal to NaN",
         "foretold unsigned", "compound of no number"}

SignedKinds == {"SByte", "Short", "Int", "Char", "Long"}
UnsignedKinds == {"Byte", "UShort", "UInt", "ULong", "UIntPtr"}
IntegerKinds == SignedKinds \union UnsignedKinds
FloatKinds == {"Float", "Double"}
NumericKinds == IntegerKinds \union FloatKinds
Kinds == NumericKinds \union {"Bool", "String"}

bitWidthBits(k) ==
    CASE k \in {"SByte", "Byte"} -> 8
      [] k \in {"Short", "UShort"} -> 16
      [] k \in {"Int", "UInt", "Char", "Float"} -> 32
      [] k \in {"Long", "ULong", "UIntPtr", "Double"} -> 64
      [] OTHER -> 0

numericRank(k) ==
    CASE k = "Float" -> 5
      [] k = "Double" -> 6
      [] k \notin NumericKinds -> 0
      [] OTHER -> CASE bitWidthBits(k) = 8 -> 1 [] bitWidthBits(k) = 16 -> 2
                    [] bitWidthBits(k) = 32 -> 3 [] OTHER -> 4

isUnsigned(k) == k \in UnsignedKinds
Wider(a, b) == IF a > b THEN a ELSE b

signedOfWidth(w) ==
    CASE w <= 8 -> "SByte" [] w <= 16 -> "Short" [] w <= 32 -> "Int" [] OTHER -> "Long"
unsignedOfWidth(w) ==
    CASE w <= 8 -> "Byte" [] w <= 16 -> "UShort" [] w <= 32 -> "UInt" [] OTHER -> "ULong"

----------------------------------------------------------------------------
(* The rules of promotion.  "none" is a type error.                        *)

(* Both are integers: at least 32 bits; of one width but not of one sign,  *)
(* the next wider signed type, if there is one.                            *)
binaryBitwisePromote(a, b) ==
    LET wa == bitWidthBits(a)
        wb == bitWidthBits(b)
        w == Wider(32, Wider(wa, wb))
    IN  CASE {a, b} \subseteq IntegerKinds /\ wa = wb /\ isUnsigned(a) # isUnsigned(b) ->
                IF w >= 64 THEN "none" ELSE signedOfWidth(2 * w)
          [] {a, b} \subseteq UnsignedKinds -> unsignedOfWidth(w)
          [] {a, b} \subseteq IntegerKinds -> signedOfWidth(w)
          [] OTHER -> "none"

binaryNumericPromote(a, b) ==
    CASE ~({a, b} \subseteq NumericKinds) -> "none"
      [] "Double" \in {a, b} -> "Double"
      [] "Float" \in {a, b} -> "Float"
      [] OTHER -> binaryBitwisePromote(a, b)

unaryBitwisePromote(a) ==
    LET w == Wider(32, bitWidthBits(a))
    IN  CASE a \in UnsignedKinds -> unsignedOfWidth(w)
          [] a \in IntegerKinds -> signedOfWidth(w)
          [] OTHER -> "none"

----------------------------------------------------------------------------
(* Registers.                                                              *)

Bits == [w \in {8, 16, 32, 64} |-> CASE w = 8 -> 2 [] w = 16 -> 3 [] w = 32 -> 4 [] OTHER -> 8]
Size(k) == 2 ^ Bits[bitWidthBits(k)]

(* What a pattern means, and the pattern of a number modulo the width.     *)
Signed(p, k) == IF 2 * p >= Size(k) THEN p - Size(k) ELSE p
Meaning(p, k) ==
    IF k \in SignedKinds THEN Signed(p, k) ELSE p
Pattern(n, k) == n % Size(k)

Samples(k) ==
    IF k \in FloatKinds THEN {-20, -1, 0, 1, 3, 300, NaN}
    ELSE IF bitWidthBits(k) < 64 THEN 0 .. Size(k) - 1
    ELSE {0, 1, 2, 7, 15, Size(k) \div 2 - 1, Size(k) \div 2, Size(k) - 2, Size(k) - 1}

(* coerce: an extension by the sign of the source, a truncation, or        *)
(* another label for the same bits.                                        *)
Coerce(p, from, to) ==
    CASE from = to \/ {from, to} \subseteq FloatKinds -> p
      [] to \in FloatKinds -> Meaning(p, from)
      [] from \in FloatKinds ->
            LET least == IF isUnsigned(to) THEN 0 ELSE -(Size(to) \div 2)
            IN  IF p = NaN THEN Poison
                ELSE IF p < least \/ p >= least + Size(to) THEN Poison
                ELSE Pattern(p, to)
      [] bitWidthBits(from) < bitWidthBits(to) ->
            IF isUnsigned(from) THEN p ELSE Pattern(Signed(p, from), to)
      [] bitWidthBits(from) > bitWidthBits(to) -> p % Size(to)
      [] OTHER -> p

(* Boxes of nullable numbers: a cell of 32 or 64 bits or of a float.  What *)
(* is narrower is extended by its own sign, and truncated on the way back. *)
CellOf(k) ==
    CASE k \in FloatKinds -> k [] bitWidthBits(k) = 64 -> "Long" [] OTHER -> "Int"
Boxed(p, k) ==
    IF bitWidthBits(k) \in {8, 16} /\ ~isUnsigned(k)
    THEN Pattern(Signed(p, k), CellOf(k)) ELSE p
Unboxed(c, k) == IF bitWidthBits(k) \in {8, 16} THEN c % Size(k) ELSE c

(* indexAsI64, and the check of the runtime: the index of an element of an *)
(* array of that length, whatever its kind.                                *)
IndexAsI64(p, k) ==
    CASE bitWidthBits(k) = 64 -> p
      [] bitWidthBits(k) = 32 -> Coerce(p, k, "Long")
      [] OTHER -> Coerce(Coerce(p, k, "Int"), "Int", "Long")
InArray(i, length) == Signed(i, "Long") >= 0 /\ Signed(i, "Long") < length

(* Instructions.  Division and remainder by zero, and the least number     *)
(* divided by -1, are undefined, as is a shift by the width or more.       *)
Truncated(x, y) ==
    LET abs(n) == IF n < 0 THEN -n ELSE n
        quotient == abs(x) \div abs(y)
    IN  IF (x < 0) # (y < 0) THEN -quotient ELSE quotient
Undefined(op, p, q, k) ==
    CASE op \in {"/", "%"} ->
            \/ q = 0
            \/ ~isUnsigned(k) /\ Signed(p, k) = -(Size(k) \div 2) /\ Signed(q, k) = -1
      [] op \in {"<<", ">>"} -> q >= Bits[bitWidthBits(k)]
      [] OTHER -> FALSE
Computed(op, p, q, k) ==
    LET x == Meaning(p, k)
        y == Meaning(q, k)
        n == CASE op = "+" -> x + y [] op = "-" -> x - y [] op = "*" -> x * y
               [] op = "/" -> Truncated(x, y) [] op = "%" -> x - y * Truncated(x, y)
               [] op = "<<" -> p * 2 ^ q
               [] op = ">>" -> x \div 2 ^ q     \* ashr or lshr, by the kind
    IN  IF Undefined(op, p, q, k) THEN Poison ELSE Pattern(n, k)

(* olt and the like are false of NaN; == is oeq, != is one.                *)
Compared(op, x, y) ==
    IF NaN \in {x, y} THEN FALSE
    ELSE CASE op = "<" -> x < y [] op = "<=" -> x <= y [] op = ">" -> x > y
           [] op = ">=" -> x >= y [] op = "==" -> x = y [] op = "!=" -> x # y

----------------------------------------------------------------------------
(* Translation of the operators.                                           *)

Families == {"add", "mul", "bit", "shift", "relation", "equality"}
Operators(f) ==
    CASE f = "add" -> {"+", "-"} [] f = "mul" -> {"*", "/", "%"} [] f = "bit" -> {"&", "|", "^"}
      [] f = "shift" -> {"<<", ">>"} [] f = "relation" -> {"<", "<=", ">", ">="}
      [] f = "equality" -> {"==", "!="}

(* The type both operands are coerced to; of a shift, that of the left one.*)
CalcType(op, a, b) ==
    CASE op \in {"<<", ">>"} -> IF b \in IntegerKinds THEN unaryBitwisePromote(a) ELSE "none"
      [] op \in {"&", "|", "^"} -> binaryBitwisePromote(a, b)
      [] OTHER -> binaryNumericPromote(a, b)

(* The type of the result.  Text takes anything by "+", and is compared    *)
(* with text only; Bool is compared with Bool.                             *)
TypeOf(op, a, b) ==
    CASE op = "+" /\ "String" \in {a, b} -> "String"
      [] op \in {"==", "!="} /\ a = b -> "Bool"
      [] op \in {"==", "!=", "<", "<=", ">", ">="} ->
            IF CalcType(op, a, b) = "none" THEN "none" ELSE "Bool"
      [] OTHER -> CalcType(op, a, b)

(* Shift amounts are masked.                                               *)
ShiftAmount(q, k) == q % Bits[bitWidthBits(k)]

(* Mutant: the divisor as it is.                                           *)
DivisorAsGiven(p, q, k) == q

(* emitSafeSignedDivisor: the least number is divided by 1 in place of -1. *)
SafeDivisor(p, q, k) ==
    IF ~isUnsigned(k) /\ Signed(q, k) = -1 /\ Signed(p, k) = -(Size(k) \div 2) THEN 1 ELSE q

(* What the code computes of the patterns p and q of the kinds a and b, of *)
(* integers: nothing if it panics, which emitIntDivZeroCheck makes of a    *)
(* divisor 0.                                                              *)
Executed(op, p, q, a, b) ==
    LET k == CalcType(op, a, b)
        l == Coerce(p, a, k)
        r == Coerce(q, b, k)
    IN  CASE op \in {"/", "%"} -> IF r = 0 THEN {} ELSE {Computed(op, l, SafeDivisor(l, r, k), k)}
          [] op \in {"<<", ">>"} -> {Computed(op, l, ShiftAmount(r, k), k)}
          [] OTHER -> {Computed(op, l, r, k)}
Decided(op, p, q, a, b) ==
    LET k == CalcType(op, a, b)
    IN  Compared(op, Meaning(Coerce(p, a, k), k), Meaning(Coerce(q, b, k), k))

(* == and != of two nullable numbers of one kind: null is the empty set,   *)
(* and != is the negation here.                                            *)
EqualBoxes(op, x, y, k) ==
    CASE x = {} /\ y = {} -> op = "=="
      [] x = {} \/ y = {} -> op = "!="
      [] OTHER -> LET u == CHOOSE c \in x : TRUE
                      v == CHOOSE c \in y : TRUE
                      same == Compared("==", Unboxed(u, k), Unboxed(v, k))
                  IN  IF op = "==" THEN same ELSE ~same

(* -, + and ~ make an Int of what is narrower.                             *)
UnaryType(op, k) ==
    CASE op \in {"-", "+"} /\ k \in NumericKinds -> IF bitWidthBits(k) < 32 THEN "Int" ELSE k
      [] op = "~" /\ k \in IntegerKinds -> IF bitWidthBits(k) < 32 THEN "Int" ELSE k
      [] op = "!" /\ k = "Bool" -> "Bool"
      [] OTHER -> "none"

(* x op= v: the type computed in, before the result is coerced to that of  *)
(* x.  A v that is no number is taken for one of x's kind.                 *)
CompoundType(op, x, v) ==
    CASE op \in {"<<", ">>"} -> IF v \in IntegerKinds THEN unaryBitwisePromote(x) ELSE "none"
      [] op \in {"&", "|", "^"} -> binaryBitwisePromote(x, v)
      [] x \notin NumericKinds -> "none"
      [] v \notin NumericKinds /\ "compound of no number" \in Known -> "none"
      [] OTHER -> binaryNumericPromote(x, IF v \in NumericKinds THEN v ELSE x)

----------------------------------------------------------------------------
VARIABLES
    family,     \* the family of operators of the expression
    operands,   \* its operands: what each is, and what it is foretold to be
    operator,   \* the last operator
    before,     \* the type in front of it
    type        \* the type of the expression; "none" is an error

vars == <<family, operands, operator, before, type>>

UnaryOperators == {"-", "+", "~", "!"}

(* inferNodeType: the type of an expression, without translating it.       *)
UnaryTold(op, k) == IF op = "!" THEN "Bool" ELSE k
Largest(S) == CHOOSE n \in S : \A m \in S : m <= n
Ladder(told) ==
    LET rank == Largest({3} \union {numericRank(k) : k \in told})
    IN  CASE rank >= 6 -> "Double" [] rank = 5 -> "Float" [] rank = 4 -> "Long" [] OTHER -> "Int"
BitsTold(told) ==
    LET fold[n \in 1 .. Len(told)] ==
            IF n = 1 THEN told[1] ELSE binaryBitwisePromote(fold[n - 1], told[n])
    IN  fold[Len(told)]
Foretold(f, told) ==
    CASE Len(told) = 1 -> told[1]
      [] f \in {"relation", "equality"} -> "Bool"
      [] f = "bit" -> BitsTold(told)
      [] f = "shift" -> unaryBitwisePromote(told[1])
      [] f = "add" /\ \E n \in DOMAIN told : told[n] = "String" -> "String"
      [] OTHER -> Ladder({told[n] : n \in DOMAIN told})

Told == [n \in DOMAIN operands |-> operands[n].told]

Plain(k) == [is |-> k, told |-> k]

Init ==
    /\ family \in Families
    /\ \E k \in Kinds :
        /\ type = k
        /\ operands = <<Plain(k)>>
    /\ operator = "none" /\ before = "none"

(* A unary operator in front of the first operand.                         *)
Prefix(op) ==
    /\ Len(operands) = 1 /\ UnaryType(op, type) # "none"
    /\ type' = UnaryType(op, type)
    /\ operands' = <<[is |-> type', told |-> UnaryTold(op, operands[1].told)]>>
    /\ UNCHANGED <<family, operator, before>>

(* The next operator of the family, and its operand.                       *)
Apply(op, k) ==
    /\ Len(operands) < MaxOperands /\ type # "none"
    /\ type' = TypeOf(op, type, k)
    /\ operator' = op /\ before' = type
    /\ operands' = Append(operands, Plain(k))
    /\ UNCHANGED family

(* The expression becomes the first operand of another one.                *)
Enclose(f) ==
    /\ Len(operands) > 1 /\ type # "none"
    /\ operands' = <<[is |-> type, told |-> Foretold(family, Told)]>>
    /\ family' = f /\ operator' = "none" /\ before' = "none"
    /\ UNCHANGED type

Next ==
    \/ \E op \in UnaryOperators : Prefix(op)
    \/ \E op \in Operators(family), k \in Kinds : Apply(op, k)
    \/ \E f \in Families : Enclose(f)

Spec == Init /\ [][Next]_vars

----------------------------------------------------------------------------
(* The operator just applied, if the compiler took it for numbers, and the *)
(* kinds on its sides: at the second operand, every pair was met.          *)
Right == operands[Len(operands)].is
Applied == Len(operands) = 2 /\ type # "none" /\ {before, Right} \subseteq NumericKinds

(* An unsigned number that has the promoted width meets a narrower signed  *)
(* one.                                                                    *)
ReadAsSigned ==
    LET meet(a, b) == isUnsigned(a) /\ ~isUnsigned(b) /\ b \in IntegerKinds
                      /\ bitWidthBits(a) >= 32 /\ bitWidthBits(b) < bitWidthBits(a)
    IN  "unsigned with narrower signed" \in Known /\ (meet(before, Right) \/ meet(Right, before))

(* The math the operator stands for, of two numbers and modulo the width   *)
(* of the result; a shift is by the low bits of its amount.                *)
Exact(op, x, y, k) ==
    CASE op = "+" -> x + y [] op = "-" -> x - y [] op = "*" -> x * y
      [] op = "/" -> Truncated(x, y)
      [] op = "%" -> x - y * Truncated(x, y)
      [] op = "<<" -> x * 2 ^ (y % Bits[bitWidthBits(k)])
      [] op = ">>" -> x \div 2 ^ (y % Bits[bitWidthBits(k)])

(* Arithmetic on integers is that on numbers, modulo the width of the      *)
(* result: whatever kinds meet, both operands keep their values, a divisor *)
(* zero is the only thing that panics, and nothing is undefined.           *)
(* Comparisons compare the values, of floating point too, and unequal is   *)
(* not equal.                                                              *)
ComputesExactly ==
    Applied /\ ~ReadAsSigned =>
        LET a == before
            b == Right
            k == CalcType(operator, a, b)
        IN  \A p \in Samples(a), q \in Samples(b) :
              LET x == Meaning(p, a)
                  y == Meaning(q, b)
              IN  CASE family \in {"relation", "equality"} ->
                        IF NaN \in {p, q}
                        THEN "unequal to NaN" \in Known \/ Decided(operator, p, q, a, b) = (operator = "!=")
                        ELSE Decided(operator, p, q, a, b) = Compared(operator, x, y)
                    [] {a, b} \subseteq IntegerKinds /\ family # "bit" ->
                        Executed(operator, p, q, a, b) =
                            IF family = "mul" /\ operator # "*" /\ y = 0 THEN {}
                            ELSE {Pattern(Exact(operator, x, y, k), k)}
                    [] {a, b} \subseteq IntegerKinds ->
                        Meaning(Coerce(p, a, k), k) = x /\ Meaning(Coerce(q, b, k), k) = y
                    [] OTHER -> TRUE

(* The type an expression is foretold to have is the type it has: storage  *)
(* laid out for it fits, and its value is not converted on the way there.  *)
(* Sums and products with unsigned operands are a gap, and so is what      *)
(* contains one, or a sign in front of a narrow operand.                   *)
ForetoldRight ==
    \/ type = "none"
    \/ /\ "foretold unsigned" \in Known
       /\ \E n \in DOMAIN operands :
            \/ operands[n].is # operands[n].told
            \/ family \in {"add", "mul"} /\ isUnsigned(operands[n].is)
    \/ Foretold(family, Told) = type

(* x op= v is x = x op v: it is taken, and computed in the same type, just *)
(* when x op v is.  (What is stored is coerced as an assignment does.)     *)
CompoundAgrees ==
    Len(operands) = 2 /\ family \notin {"relation", "equality"} /\ before # "String" =>
        CompoundType(operator, before, Right) =
            IF Right = "String" THEN "none" ELSE CalcType(operator, before, Right)

(* A number that is boxed and unboxed is the same, and boxes are equal     *)
(* just when both are null or what they hold is equal.                     *)
BoxesKeep ==
    Len(operands) = 1 /\ type \in NumericKinds =>
        /\ \A p \in Samples(type) : Unboxed(Boxed(p, type), type) = p
        /\ \A x, y \in {{}} \union {{p} : p \in Samples(type) \ {NaN}} :
             LET box(o) == {Boxed(p, type) : p \in o}
             IN  EqualBoxes("==", box(x), box(y), type) = (x = y)
                 /\ EqualBoxes("!=", box(x), box(y), type) = (x # y)

(* An index of any kind is accepted just when the number it stands for is  *)
(* that of an element, and it is that element's.                           *)
IndexRight ==
    Len(operands) = 1 /\ type \in IntegerKinds =>
        \A p \in Samples(type), length \in 0 .. 3 :
            LET i == IndexAsI64(p, type)
            IN  /\ InArray(i, length) <=> Meaning(p, type) \in 0 .. length - 1
                /\ InArray(i, length) => i = Meaning(p, type)

ArithmeticSound == ComputesExactly /\ ForetoldRight /\ CompoundAgrees /\ BoxesKeep /\ IndexRight
=============================================================================
