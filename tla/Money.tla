--------------------------------- MODULE Money ---------------------------------
(***************************************************************************)
(* internal/money: an Amount is a number in two's complement in two words, *)
(* of 64 bits in the code and WordBits here.  Its decimal text has at most *)
(* MaxDigits digits, in two halves of HalfDigits that fit a word: 38 and   *)
(* 19 digits of Radix 10 in the code.                                      *)
(*                                                                         *)
(* math/bits, math/big and strconv are exact, and external: a big.Int is   *)
(* an integer here.                                                        *)
(***************************************************************************)
EXTENDS Integers, Sequences, SequencesExt

CONSTANTS WordBits, Radix, HalfDigits

MaxDigits == 2 * HalfDigits
Word == 2 ^ WordBits
Pow == Radix ^ HalfDigits                \* pow19
MaxValue == Radix ^ MaxDigits - 1        \* what maxAmount is meant to be

\* A half fits a word but no more digits do; the greatest amount fits two words.
ASSUME MoneyAssumption ==
    /\ WordBits \in Nat \ {0} /\ Radix \in Nat \ {0, 1} /\ HalfDigits \in Nat \ {0}
    /\ Pow < Word /\ Word < Pow * Radix
    /\ 2 * MaxValue < Word * Word

\* What follows for any powers: a proof needs it stated, as TLAPS has no theory of them.
ASSUME PowerAssumption ==
    /\ Word \in Nat /\ Word % 2 = 0 /\ Pow \in Nat
    /\ Radix <= Pow /\ Radix ^ MaxDigits = Pow * Pow

Amount(hi, lo) == [hi |-> hi, lo |-> lo]

\* The errors ErrOverflow and ErrInvalidAmount, which are no amounts.
Overflow == Amount(-1, 0)
Invalid == Amount(-1, 1)

\* int64(w)
Signed(w) == IF w >= Word \div 2 THEN w - Word ELSE w

-------------------------------------------------------------------------------
(***************************************************************************)
(* Amounts.                                                                *)
(***************************************************************************)

MaxAmt ==
    LET product == Pow * Pow
        lo      == product % Word
    IN  Amount((product \div Word - (IF lo < 1 THEN 1 ELSE 0)) % Word, (lo - 1) % Word)

\* NewAmount, for an integer of one word.
NewAmount(n) == Amount(IF n < 0 THEN Word - 1 ELSE 0, n % Word)

Sign(a) == IF Signed(a.hi) < 0 THEN -1 ELSE IF a.hi = 0 /\ a.lo = 0 THEN 0 ELSE 1

Cmp(a, b) ==
    CASE Signed(a.hi) < Signed(b.hi) -> -1
      [] Signed(a.hi) > Signed(b.hi) -> 1
      [] OTHER -> IF a.lo < b.lo THEN -1 ELSE IF a.lo > b.lo THEN 1 ELSE 0

Neg(a) == Amount((0 - a.hi - (IF a.lo > 0 THEN 1 ELSE 0)) % Word, (0 - a.lo) % Word)

Abs(a) == IF Sign(a) < 0 THEN Neg(a) ELSE a

\* Mutant: only a sum that wraps around is refused.
CheckedWrapOnly(a, b, sum) ==
    IF Sign(a) = Sign(b) /\ Sign(a) # 0 /\ Sign(sum) # Sign(a) THEN Overflow ELSE sum

Checked(a, b, sum) ==
    LET wrapped == Sign(a) = Sign(b) /\ Sign(a) # 0 /\ Sign(sum) # Sign(a)
    IN  IF wrapped \/ Cmp(Abs(sum), MaxAmt) > 0 THEN Overflow ELSE sum

Add(a, b) ==
    LET carry == (a.lo + b.lo) \div Word
    IN  Checked(a, b, Amount((a.hi + b.hi + carry) % Word, (a.lo + b.lo) % Word))

Sub(a, b) == Add(a, Neg(b))

\* The integer of one word that a is, and whether it is one.
Int64(a) == [n |-> Signed(a.lo), ok |-> a.hi = (IF Signed(a.lo) < 0 THEN Word - 1 ELSE 0)]

-------------------------------------------------------------------------------
(***************************************************************************)
(* Text: the sign and the digits.                                          *)
(***************************************************************************)

\* strconv: the digits of a number, without leading zeros.
Digits(n) ==
    LET len == CHOOSE k \in 1 .. MaxDigits + 1 :
                   n < Radix ^ k /\ (k = 1 \/ n >= Radix ^ (k - 1))
    IN  [i \in 1 .. len |-> (n \div Radix ^ (len - i)) % Radix]

Number(ds) == FoldLeft(LAMBDA n, d : n * Radix + d, 0, ds)

Zeros(n) == [i \in 1 .. n |-> 0]

Text(negative, digits) == [negative |-> negative, digits |-> digits]

\* Mutant: the low half is not padded.
StringUnpadded(a) ==
    IF Int64(a).ok THEN LET n == Int64(a).n IN Text(n < 0, Digits(IF n < 0 THEN -n ELSE n))
    ELSE LET abs  == Abs(a)
             all  == abs.hi * Word + abs.lo
         IN  Text(Sign(a) < 0, (IF all < Pow THEN <<>> ELSE Digits(all \div Pow)) \o Digits(all % Pow))

String(a) ==
    IF Int64(a).ok THEN LET n == Int64(a).n IN Text(n < 0, Digits(IF n < 0 THEN -n ELSE n))
    ELSE LET abs  == Abs(a)
             all  == abs.hi * Word + abs.lo
             high == all \div Pow
             low  == Digits(all % Pow)
         IN  Text(Sign(a) < 0, IF high = 0 THEN low ELSE Digits(high) \o Zeros(HalfDigits - Len(low)) \o low)

ParseAmount(t) ==
    LET ds    == t.digits
        split == IF Len(ds) > HalfDigits THEN Len(ds) - HalfDigits ELSE 0
        high  == Number(SubSeq(ds, 1, split))
        low   == Number(SubSeq(ds, split + 1, Len(ds)))
        lo    == (high * Pow) % Word
        a     == Amount(((high * Pow) \div Word + (lo + low) \div Word) % Word, (lo + low) % Word)
    IN  IF ds = <<>> \/ Len(ds) > MaxDigits \/ (ds[1] = 0 /\ (Len(ds) > 1 \/ t.negative)) THEN Invalid
        ELSE IF t.negative THEN Neg(a) ELSE a

-------------------------------------------------------------------------------
(***************************************************************************)
(* The database: a numeric is an integer times a power of Radix.           *)
(***************************************************************************)

Big(a) ==
    IF Int64(a).ok THEN Int64(a).n
    ELSE Sign(a) * (Abs(a).hi * Word + Abs(a).lo)

AmountFromBig(n) ==
    LET abs == IF n < 0 THEN -n ELSE n
        a   == Amount((abs \div Word) % Word, abs % Word)
    IN  IF n \in -(Word \div 2) .. Word \div 2 - 1 THEN NewAmount(n)
        ELSE IF abs > Big(MaxAmt) THEN Overflow
        ELSE IF n < 0 THEN Neg(a) ELSE a

BitLen(n) == CHOOSE k \in 0 .. 4 * WordBits : 2 ^ k > n /\ (k = 0 \/ 2 ^ (k - 1) <= n)

ScanNumeric(int, exp) ==
    LET abs   == IF int < 0 THEN -int ELSE int
        scale == Radix ^ (IF exp < 0 THEN -exp ELSE exp)
    IN  CASE int = 0                          -> Amount(0, 0)
          [] int # 0 /\ exp > MaxDigits       -> Overflow
          [] int # 0 /\ -exp > BitLen(abs)    -> Invalid
          [] OTHER -> IF exp >= 0 THEN AmountFromBig(int * scale)
                      ELSE IF abs % scale # 0 THEN Invalid
                      ELSE AmountFromBig((IF int < 0 THEN -1 ELSE 1) * (abs \div scale))

-------------------------------------------------------------------------------
(***************************************************************************)
(* The check: two amounts of every value, one after the other.             *)
(***************************************************************************)

VARIABLE operands   \* the values of two amounts

Values == -MaxValue .. MaxValue

\* The two's complement of a value in two words.
Encoded(n) == Amount((n \div Word) % Word, n % Word)

MoneyInit == operands = <<0, 0>>

MoneyStep ==
    \E n \in Values :
        \/ operands = <<0, 0>> /\ operands' = <<n, 0>>
        \/ operands[2] = 0 /\ operands' = <<operands[1], n>>

MoneySpec == MoneyInit /\ [][MoneyStep]_operands

\* The least number of two words is its own Neg and Abs, and is no amount.
Least == -((Word * Word) \div 2)

\* The sum or difference of two amounts is the exact one, or is refused when it has more
\* than MaxDigits digits, and never for another reason, if it is not Least; amounts
\* compare as their values do (Add, Sub, checked, Cmp, Neg).
ArithmeticIsExact ==
    LET x == operands[1]
        y == operands[2]
        exact(n) == IF n \in Values THEN Encoded(n) ELSE Overflow
    IN  /\ MaxAmt = Encoded(MaxValue)
        /\ x + y # Least => Add(Encoded(x), Encoded(y)) = exact(x + y)
        /\ x - y # Least => Sub(Encoded(x), Encoded(y)) = exact(x - y)
        /\ Cmp(Encoded(x), Encoded(y)) = (IF x < y THEN -1 ELSE IF x > y THEN 1 ELSE 0)

\* A sum of more than MaxDigits digits is ErrOverflow ("min minus one" and "max plus
\* one" of tests/money, "up to 38 digits" of the API).
OverflowIsRefused ==
    operands[1] + operands[2] \notin Values => Add(Encoded(operands[1]), Encoded(operands[2])) = Overflow

\* An amount survives being written as text and as a numeric of the database and read
\* back, whatever power of Radix the database has factored out; a numeric that is no
\* amount is refused (String, ParseAmount, Big, ScanNumeric).
ConversionsAreExact ==
    LET x == operands[1]
        y == (operands[2] % (2 * MaxDigits + 1)) - MaxDigits
        scale == Radix ^ (IF y < 0 THEN -y ELSE y)
    IN  /\ ParseAmount(String(Encoded(x))) = Encoded(x)
        /\ Big(Encoded(x)) = x /\ AmountFromBig(x) = Encoded(x)
        /\ ScanNumeric(x, y) =
               IF y >= 0 THEN (IF x * scale \in Values THEN Encoded(x * scale) ELSE Overflow)
               ELSE IF \E n \in Values : n * scale = x THEN Encoded(CHOOSE n \in Values : n * scale = x)
               ELSE Invalid

\* Amounts are computed with, and converted, without an error of any size (Amount).
AmountsAreExact == ArithmeticIsExact /\ ConversionsAreExact
===============================================================================
