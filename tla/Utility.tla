-------------------------------- MODULE Utility --------------------------------
(***************************************************************************)
(* The string functions of utility.h and utility.cc that the program       *)
(* relies on.  A text is a sequence of tokens: a token is a character that *)
(* the code looks for, a digit, or a word without any such character.      *)
(***************************************************************************)
EXTENDS Integers, Sequences, SequencesExt

\* isspace
Spaces == {" ", "\t", "\r", "\n"}
Ink(text) == {i \in DOMAIN text : text[i] \notin Spaces}

TrimLeft(text) == IF Ink(text) = {} THEN <<>> ELSE SubSeq(text, Min(Ink(text)), Len(text))
TrimRight(text) == IF Ink(text) = {} THEN <<>> ELSE SubSeq(text, 1, Max(Ink(text)))
Trim(text) == TrimRight(TrimLeft(text))

\* What stands between the separators, without what is empty: each part begins
\* behind an end, and goes up to the next one.
Split(text, separators) ==
    LET ends == {0, Len(text) + 1} \cup {i \in DOMAIN text : text[i] \in separators}
        End(i) == Min({j \in ends : j > i})
        before == {i \in ends : i + 1 \in DOMAIN text \ ends}
        Nth(n) == CHOOSE i \in before : Cardinality({j \in before : j <= i}) = n
    IN  [n \in 1..Cardinality(before) |-> SubSeq(text, Nth(n) + 1, End(Nth(n)) - 1)]

Digits == <<"0", "1", "2", "3", "4", "5", "6", "7", "8", "9">>
IsDigit(c) == c \in Range(Digits)
Digit(c) == (CHOOSE i \in 1..10 : Digits[i] = c) - 1
NumberOf(digits) ==
    LET number[n \in 0..Len(digits)] ==
            IF n = 0 THEN 0 ELSE 10 * number[n - 1] + Digit(digits[n])
    IN  number[Len(digits)]
IsNumber(text) == text # <<>> /\ \A i \in DOMAIN text : IsDigit(text[i])
HasSign(text) == text # <<>> /\ Head(text) \in {"+", "-"}
Unsigned(text) == IF HasSign(text) THEN Tail(text) ELSE text
IsNegative(text) == HasSign(text) /\ Head(text) = "-"

NoNumber == -1

\* str2integer into an unsigned type whose largest number is max: the text is a
\* number to its end, and a stream wraps a negative one around.
Str2Integer(text, max) ==
    LET number == TrimLeft(text)
        digits == Unsigned(number)
        n == NumberOf(digits)
    IN  IF ~IsNumber(digits) \/ n > max
        THEN NoNumber
        ELSE IF IsNegative(number) THEN (max + 1 - n) % (max + 1) ELSE n

\* integer2str
Integer2Str[n \in Nat] ==
    IF n < 10 THEN <<Digits[n + 1]>>
    ELSE Append(Integer2Str[n \div 10], Digits[(n % 10) + 1])

\* atoi: the number at the start of the text, 0 if there is none.
Atoi(text) ==
    LET digits == Unsigned(TrimLeft(text))
        rest == {i \in DOMAIN digits : ~IsDigit(digits[i])}
        n == NumberOf(IF rest = {} THEN digits ELSE SubSeq(digits, 1, Min(rest) - 1))
    IN  IF IsNegative(TrimLeft(text)) THEN -n ELSE n
===============================================================================
