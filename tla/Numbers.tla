------------------------------ MODULE Numbers ------------------------------
(***************************************************************************)
(* Numbers in text: strtol of user/stdlib.c reads them, kprintn and the    *)
(* number conversions of kdoprnt in user/printf.c print them.  An int and  *)
(* a long have BITS bits, a long long and the intmax_t twice as many.      *)
(***************************************************************************)
EXTENDS Integers, SequencesExt

CONSTANTS
    BITS,           \* bits of an int, 32 in the source
    LONG_MAX        \* the largest of them, 2^31 - 1

ASSUME BitsAssumption == BITS \in Nat /\ LONG_MAX \in Nat /\ LONG_MAX + 1 = 2^(BITS - 1)

LONG_MIN == -LONG_MAX - 1

Word == 2 * (LONG_MAX + 1)
LongWord == Word * Word

(* Signed overflow wraps round. *)
Wrapped(n) == ((n - LONG_MIN) % Word) + LONG_MIN

(* Division of C, towards zero. *)
Quotient(n, d) == IF n >= 0 THEN n \div d ELSE -((-n) \div d)

hexdigits == <<"0", "1", "2", "3", "4", "5", "6", "7", "8", "9", "a", "b", "c", "d", "e", "f">>

(* Some characters that are no digits of any base in use, by their codes. *)
Code == (" " :> 32) @@ ("+" :> 43) @@ ("-" :> 45) @@ ("F" :> 70) @@ ("x" :> 120)

-----------------------------------------------------------------------------
(* strtol *)

(* What a character counts for.  islower is true of every character, so those
   below 'a' count for less than nothing, and isupper is never asked. *)
DigitOf(ch) ==
    IF ch \in DOMAIN Code THEN Code[ch] - 97 + 10
    ELSE SelectInSeq(hexdigits, LAMBDA d : d = ch) - 1

(* Mutant of AddDigit: the last step before the limit is taken for one over. *)
AddDigit_at_limit(base, negative, n, ch) ==
    LET c == DigitOf(ch)
    IN  IF n.over \/ n.ended THEN n
        ELSE IF c >= base THEN [n EXCEPT !.ended = TRUE]
        ELSE IF negative
        THEN IF n.val <= Quotient(Wrapped(LONG_MIN + c), base)
             THEN [n EXCEPT !.val = LONG_MIN, !.over = TRUE]
             ELSE [n EXCEPT !.val = @ * base - c]
        ELSE IF n.val >= Quotient(Wrapped(LONG_MAX - c), base)
             THEN [n EXCEPT !.val = LONG_MAX, !.over = TRUE]
             ELSE [n EXCEPT !.val = @ * base + c]

(* The next digit, unless something before it ended the number or ran over. *)
AddDigit(base, negative, n, ch) ==
    LET c == DigitOf(ch)
    IN  IF n.over \/ n.ended THEN n
        ELSE IF c >= base THEN [n EXCEPT !.ended = TRUE]
        ELSE IF negative
        THEN IF n.val < Quotient(Wrapped(LONG_MIN + c), base)
             THEN [n EXCEPT !.val = LONG_MIN, !.over = TRUE]
             ELSE [n EXCEPT !.val = @ * base - c]
        ELSE IF n.val > Quotient(Wrapped(LONG_MAX - c), base)
             THEN [n EXCEPT !.val = LONG_MAX, !.over = TRUE]
             ELSE [n EXCEPT !.val = @ * base + c]

From(s, n) == SubSeq(s, n, Len(s))

(* The text behind the blanks; the sign is taken off it. *)
Trimmed(s) == From(s, SelectInSeq(Append(s, "NUL"), LAMBDA ch : ch # " "))
Signed(t, signs) == t # << >> /\ Head(t) \in signs

Hex(s) == Len(s) >= 2 /\ s[1] = "0" /\ s[2] = "x"

(* For a base that is given, 10 or 16. *)
strtol(s, base) ==
    LET t == Trimmed(s)
        text == IF Signed(t, {"-", "+"}) THEN Tail(t) ELSE t
        digits == IF base = 16 /\ Hex(text) THEN From(text, 3) ELSE text
    IN  FoldLeft(LAMBDA n, ch : AddDigit(base, Signed(t, {"-"}), n, ch),
                 [val |-> 0, over |-> FALSE, ended |-> FALSE], digits).val

-----------------------------------------------------------------------------
(* kprintn and kdoprnt *)

Flags == {"ALT", "SPACE", "LADJUST", "SIGN", "ZEROPAD"}

Padding(ch, n) == [k \in 1..n |-> ch]

(* Mutant of DigitsOf: the first digit of a power of the base is left out. *)
DigitsOf_power_short(ul, base) ==
    LET n == CHOOSE k \in 1..(2 * BITS) : ul <= base^k /\ (k = 1 \/ ul > base^(k - 1))
    IN  [k \in 1..n |-> hexdigits[((ul \div base^(n - k)) % base) + 1]]

(* The digits, at least one. *)
DigitsOf(ul, base) ==
    LET n == CHOOSE k \in 1..(2 * BITS) : ul < base^k /\ (k = 1 \/ ul >= base^(k - 1))
    IN  [k \in 1..n |-> hexdigits[((ul \div base^(n - k)) % base) + 1]]

(* What is put into the buffer on top of the digits. *)
Lead(ul, base, lflag) ==
    (IF "NEGATIVE" \in lflag THEN <<"-">> ELSE IF "SIGN" \in lflag THEN <<"+">>
     ELSE IF "SPACE" \in lflag THEN <<" ">> ELSE << >>)
    \o (IF "ALT" \notin lflag \/ ul = 0 THEN << >>
        ELSE IF base = 8 THEN <<"0">> ELSE IF base = 16 THEN <<"0", "x">> ELSE << >>)

kprintn(ul, base, lflag, width) ==
    LET lead == Lead(ul, base, lflag)
        digits == DigitsOf(ul, base)
        pad == width - Len(lead) - Len(digits)
    IN  IF "LADJUST" \in lflag THEN lead \o digits \o Padding(" ", pad)
        ELSE IF "ZEROPAD" \in lflag THEN lead \o Padding("0", pad) \o digits
        ELSE Padding(" ", pad) \o lead \o digits

(* A number conversion: the argument goes through an unsigned long long. *)
kdoprnt(conversion, lflag, width, arg) ==
    CASE conversion = "d" ->
            IF arg < 0 THEN kprintn(Wrapped(-arg) % LongWord, 10, lflag \cup {"NEGATIVE"}, width)
            ELSE kprintn(arg, 10, lflag, width)
      [] conversion = "o" -> kprintn(arg % Word, 8, lflag, width)
      [] conversion = "u" -> kprintn(arg % Word, 10, lflag, width)
      [] conversion = "x" -> kprintn(arg % Word, 16, lflag, width)
      [] conversion = "p" -> kprintn(arg % Word, 16, lflag \cup {"ALT"}, width)
-----------------------------------------------------------------------------
(* What numerals stand for, said without steps and without the code's tables of
   characters: a digit is worth its place among the digits. *)

Numeral(base) == SubSeq(hexdigits, 1, base)
Worth(ch) == (CHOOSE k \in DOMAIN hexdigits : hexdigits[k] = ch) - 1

Magnitude(digits) ==
    [base \in {8, 10, 16} |->
        MapThenFoldSet(+, 0, LAMBDA k : Worth(digits[k]) * base^(Len(digits) - k),
                       LAMBDA S : CHOOSE k \in S : TRUE, DOMAIN digits)]

Clamped(n) == Max({LONG_MIN, Min({n, LONG_MAX})})

-----------------------------------------------------------------------------
(* Properties *)

(* A numeral, with or without a sign, a blank before it, 0x and letters behind
   it, is read for what it stands for, and stops at the limits of a long, exactly
   there, on either side: the test before each digit divides so that nothing is
   cut off (strtol).  Numerals have small letters. *)
IsRead(digits, base) ==
    \A blanks \in {<< >>, <<" ">>}, sign \in {<< >>, <<"+">>, <<"-">>},
       prefix \in IF base = 16 THEN {<< >>, <<"0", "x">>} ELSE {<< >>},
       rest \in IF base = 16 THEN {<< >>, <<"x">>} ELSE {<< >>, <<"f", "7">>} :
        strtol(blanks \o sign \o prefix \o digits \o rest, base)
            = Clamped((IF sign = <<"-">> THEN -1 ELSE 1) * Magnitude(digits)[base])

(* The base a conversion prints in. *)
BaseOf(conversion) == IF conversion = "o" THEN 8 ELSE IF conversion = "x" THEN 16 ELSE 10

(* What is printed of n, with any flags and width, fits the buffer of kprintn and
   fills its field, at its right or left end.  Between the blanks are one sign at
   most, in front, a minus exactly for a negative %d, and digits that stand for
   the number; but %d of the smallest int is printed as another one (kdoprnt). *)
IsPrinted(n, conversion, lflag, width) ==
    LET base == BaseOf(conversion)
        bare == kdoprnt(conversion, lflag, 0, n)
        field == kdoprnt(conversion, lflag, width, n)
        marks == SelectSeq(field, LAMBDA ch : ch # " ")
        digits == SelectSeq(field, LAMBDA ch : ch \in Range(Numeral(base)))
    IN  /\ Len(bare) <= (2 * BITS) \div 3 + 1 + 2
        /\ Len(field) = Max({width, Len(bare)})
        /\ IF "LADJUST" \in lflag THEN IsPrefix(bare, field) ELSE Last(field) # " "
        /\ \E k \in 0..(Len(field) - Len(marks)) : SubSeq(field, k + 1, k + Len(marks)) = marks
        /\ Head(marks) = "-" <=> conversion = "d" /\ n < 0
        /\ {"-", "+"} \cap Range(Tail(marks)) = {}
        /\ conversion = "d" /\ n # LONG_MIN =>
                Magnitude(digits)[base] = IF n < 0 THEN -n ELSE n
        /\ conversion # "d" => Magnitude(digits)[base] = n % Word
=============================================================================
