----------------------------- MODULE XplistData -----------------------------
(***************************************************************************)
(* How a value is written in an XML property list and read again: the text *)
(* of numbers (xplist.c: dtostr, and the formats of snprintf and strtoull), *)
(* of dates (time64.c, parse_date), of data (base64.c) and of strings      *)
(* (unescape_entities).                                                    *)
(*                                                                         *)
(* A text is a sequence of bytes.  A byte of -1 stands for "not valid": a  *)
(* text that has one was refused.  Times are seconds that fit into 32      *)
(* bits, from 1902 to 2038; the sources use 64 bits and skip cycles of 400 *)
(* years first, which changes nothing in this range.                       *)
(***************************************************************************)
EXTENDS Bplist

CONSTANT
    Reals       \* doubles and their values: [negative, whole, fraction], the
                \* fraction in units of 1/10000000

(* The printable characters in the order of their codes, but for the       *)
(* backslash and the backquote.                                            *)
Ascii == " !\"#$%&'()*+,-./0123456789:;<=>?@ABCDEFGHIJKLMNOPQRSTUVWXYZ[[]^__abcdefghijklmnopqrstuvwxyz{|}~"
Chars(s) ==
    [i \in 1..Len(s) |->
        CHOOSE c \in 32..126 : SubSeq(Ascii, c - 31, c - 31) = SubSeq(s, i, i)]

TAB == 9
NEWLINE == 10
SPACE == 32
RETURN == 13
Blank == {SPACE, TAB, RETURN, NEWLINE}
MINUS == Chars("-")
Digit == 48

Refused == <<-1>>
Valid(s) == \A i \in DOMAIN s : s[i] >= 0

-----------------------------------------------------------------------------
(* Whole numbers: 64 bits in 8 bytes. *)

Negated(v) ==
    [i \in 1..8 |-> ((IF \A j \in (i + 1)..8 : v[j] = 0 THEN 256 ELSE 255) - v[i]) % 256]

DividedBy10(v) ==
    FoldLeft(LAMBDA d, b : [quotient  |-> Append(d.quotient, (256 * d.rest + b) \div 10),
                            rest |-> (256 * d.rest + b) % 10],
             [quotient |-> <<>>, rest |-> 0], v)

(* The formats PRIu64 and PRIi64. *)
RECURSIVE Unsigned(_), UnsignedOf(_)
Unsigned(v) == UnsignedOf(DividedBy10(v))
UnsignedOf(d) ==
    (IF d.quotient = Zeros(8) THEN <<>> ELSE Unsigned(d.quotient)) \o <<Digit + d.rest>>
Signed(v) == IF v[1] >= 128 THEN MINUS \o Unsigned(Negated(v)) ELSE Unsigned(v)

(* The value of a digit, up to base 16; -1 is no digit. *)
DigitOf(c, base) ==
    LET x == CASE c \in 48..57 -> c - 48
               [] c \in 65..70 -> c - 55
               [] c \in 97..102 -> c - 87
               [] OTHER -> 99
    IN  IF x < base THEN x ELSE -1

(* v * base + x, and the largest value where that needs more than 64 bits. *)
TimesPlus(v, base, x) ==
    LET product == FoldRight(LAMBDA b, d : [carry |-> (b * base + d.carry) \div 256,
                                            bytes |-> <<(b * base + d.carry) % 256>> \o d.bytes],
                             v, [carry |-> x, bytes |-> <<>>])
    IN  IF product.carry > 0 THEN [i \in 1..8 |-> 255] ELSE product.bytes

(* How many digits of the base s has from the place i on. *)
RECURSIVE Digits(_, _, _)
Digits(s, i, base) ==
    IF i > Len(s) THEN 0
    ELSE IF DigitOf(s[i], base) < 0 THEN 0 ELSE 1 + Digits(s, i + 1, base)

strtoull(s, base) ==
    FoldLeft(LAMBDA v, c : TimesPlus(v, base, DigitOf(c, base)),
             Zeros(8), SubSeq(s, 1, Digits(s, 1, base)))

(* In base 0 the text says the base. *)
strtoull0(s) ==
    CASE Len(s) > 2 /\ SubSeq(s, 1, 2) \in {Chars("0x"), Chars("0X")} ->
            strtoull(SubSeq(s, 3, Len(s)), 16)
      [] Len(s) > 1 /\ s[1] = Digit /\ s[2] \notin Range(Chars("xX")) -> strtoull(s, 8)
      [] OTHER -> strtoull(s, 10)

(* The text of an <integer>: what is above INT64_MAX and has no minus has  *)
(* the length of 16.                                                       *)
IntegerOf(s) ==
    LET negative == s # <<>> /\ s[1] = MINUS[1]
        signed == negative \/ (s # <<>> /\ s[1] = Chars("+")[1])
        v == strtoull0(IF signed THEN Tail(s) ELSE s)
    IN  IF negative THEN Negated(v) ELSE IF v[1] < 128 THEN v ELSE Zeros(8) \o v

(* A decimal number below 2^31, with leading zeros up to a width. *)
RECURSIVE Padded(_, _)
Padded(x, width) ==
    IF x = 0 /\ width <= 0 THEN <<>>
    ELSE Append(Padded(x \div 10, width - 1), Digit + (x % 10))
NumberOf(s) == FoldLeft(LAMBDA v, c : 10 * v + (c - Digit), 0, s)

-----------------------------------------------------------------------------
(* Doubles. *)

(* dtostr: six digits of the fraction, of which a little more is taken for *)
(* rounding.  A fraction that this rounds up to 1 has a first digit of 10, *)
(* the character after 9.                                                  *)
dtostr(d) ==
    LET r == Reals[d]
        f == r.fraction + 4
        Place(k) == Digit + ((f \div 10^k) % 10)
    IN  (IF r.negative /\ r.whole + r.fraction > 0 THEN MINUS ELSE <<>>)
        \o Padded(r.whole, 1) \o Chars(".")
        \o <<Digit + f \div 1000000, Place(5), Place(4), Place(3), Place(2), Place(1)>>

(* atof, of a text that stands for one of Reals. *)
atof(s) ==
    LET negative == s # <<>> /\ s[1] = MINUS[1]
        start == IF negative THEN 2 ELSE 1
        n == Digits(s, start, 10)
        point == start + n
        m == IF point <= Len(s) /\ s[point] = Chars(".")[1] THEN Digits(s, point + 1, 10) ELSE 0
        fraction == NumberOf(SubSeq(s, point + 1, point + m)) * 10^(7 - m)
        whole == NumberOf(SubSeq(s, start, start + n - 1))
    IN  CHOOSE d \in DOMAIN Reals :
            Reals[d] = [negative |-> negative /\ whole + fraction > 0, whole |-> whole,
                        fraction |-> fraction]

(* A double without its fraction, (Time64_T)d, and the double of a number. *)
Truncated(d) ==
    LET e == (d[1] % 128) * 16 + d[2] \div 16 - 1023
        mantissa == 2^30 + (d[2] % 16) * 2^26 + d[3] * 2^18 + d[4] * 2^10 + d[5] * 4 + d[6] \div 64
    IN  IF e < 0 THEN 0
        ELSE (IF d[1] >= 128 THEN -1 ELSE 1) * (mantissa \div 2^(30 - e))

Double(x) ==
    LET a == IF x < 0 THEN -x ELSE x
        e == Max({k \in 0..30 : 2^k <= a})
        f == a * 2^(30 - e) - 2^30
    IN  IF x = 0 THEN Zeros(8)
        ELSE <<(IF x < 0 THEN 128 ELSE 0) + (e + 1023) \div 16,
               ((e + 1023) % 16) * 16 + f \div 2^26, (f \div 2^18) % 256,
               (f \div 2^10) % 256, (f \div 4) % 256, (f % 4) * 64, 0, 0>>

-----------------------------------------------------------------------------
(* Dates.  Here a year counts from 0 and a month from 1. *)

MAC_EPOCH == 978307200
IS_LEAP(year) == year % 400 = 0 \/ (year % 4 = 0 /\ year % 100 # 0)
days_in_month(year, month) ==
    <<31, IF IS_LEAP(year) THEN 29 ELSE 28, 31, 30, 31, 30, 31, 31, 30, 31, 30, 31>>[month]
julian_days_by_month(year, month) == MapThenSumSet(LAMBDA m : days_in_month(year, m), 1..(month - 1))
length_of_year(year) == IF IS_LEAP(year) THEN 366 ELSE 365

timegm64(t) ==
    LET years == IF t.year > 1970 THEN MapThenSumSet(length_of_year, 1970..(t.year - 1))
                 ELSE -MapThenSumSet(length_of_year, t.year..1969)
        days == years + julian_days_by_month(t.year, t.month) + t.day - 1
    IN  days * 86400 + t.hour * 3600 + t.minute * 60 + t.second

(* The year and the month of a number m of days, counted from the begin of *)
(* a year or, when it is negative, from the end of one.                    *)
RECURSIVE YearFrom(_, _), MonthFrom(_, _, _), YearBack(_, _), MonthBack(_, _, _)
YearFrom(m, year) ==
    IF m >= length_of_year(year) THEN YearFrom(m - length_of_year(year), year + 1)
    ELSE MonthFrom(m, year, 1)
MonthFrom(m, year, month) ==
    IF m >= days_in_month(year, month) THEN MonthFrom(m - days_in_month(year, month), year, month + 1)
    ELSE [year |-> year, month |-> month, day |-> m + 1]
YearBack(m, year) ==
    IF m < -length_of_year(year) THEN YearBack(m + length_of_year(year), year - 1)
    ELSE MonthBack(m, year, 12)
MonthBack(m, year, month) ==
    IF m < -days_in_month(year, month) THEN MonthBack(m + days_in_month(year, month), year, month - 1)
    ELSE [year |-> year, month |-> month, day |-> m + days_in_month(year, month) + 1]

CHEAT_DAYS == 13879

(* Division rounds down here: WRAP does that to the rests. *)
gmtime64_r(time) ==
    LET tday == time \div 86400
        rest == time % 86400
        date == CASE tday >= CHEAT_DAYS -> YearFrom(tday - CHEAT_DAYS, 2008)
                  [] tday \in 0..(CHEAT_DAYS - 1) -> YearFrom(tday, 1970)
                  [] tday < 0 -> YearBack(tday, 1969)
    IN  [year |-> date.year, month |-> date.month, day |-> date.day, hour |-> rest \div 3600,
         minute |-> (rest \div 60) % 60, second |-> rest % 60]

(* strftime("%Y-%m-%dT%H:%M:%SZ") *)
DateText(t) ==
    Padded(t.year, 4) \o MINUS \o Padded(t.month, 2) \o MINUS \o Padded(t.day, 2)
    \o Chars("T") \o Padded(t.hour, 2) \o Chars(":") \o Padded(t.minute, 2)
    \o Chars(":") \o Padded(t.second, 2) \o Chars("Z")

(* sscanf: numbers, up to the first separator that is not the expected one. *)
RECURSIVE Fields(_, _)
Fields(s, separators) ==
    LET n == Digits(s, 1, 10)
    IN  IF n = 0 THEN <<>>
        ELSE <<NumberOf(SubSeq(s, 1, n))>> \o
             IF separators # <<>> /\ n < Len(s) /\ s[n + 1] = separators[1]
             THEN Fields(SubSeq(s, n + 2, Len(s)), Tail(separators))
             ELSE <<>>

(* What was not there is 0, the year, month and day must be there.         *)
parse_date(s) ==
    LET f == Fields(s, Chars("--T::")) \o Zeros(3)
    IN  [year |-> f[1], month |-> f[2], day |-> f[3], hour |-> f[4], minute |-> f[5],
         second |-> f[6]]

(* The text of a <date>; in its length that of all its parts is taken, but *)
(* only the first one is read.                                             *)
DateOf(s, first_length) ==
    LET timev == IF Len(s) \in 11..31 THEN timegm64(parse_date(SubSeq(s, 1, first_length))) ELSE 0
    IN  Double(timev - MAC_EPOCH)

-----------------------------------------------------------------------------
(* Data and strings. *)

base64_str == Chars("ABCDEFGHIJKLMNOPQRSTUVWXYZabcdefghijklmnopqrstuvwxyz0123456789+/")
base64_pad == Chars("=")[1]

(* Four characters for the bytes at n, n + 1 and n + 2. *)
Encoded(s, n) ==
    LET c(k) == IF n + k <= Len(s) THEN s[n + k] ELSE 0
    IN  << base64_str[1 + c(0) \div 4],
           base64_str[1 + (c(0) % 4) * 16 + (c(1) \div 16)],
           IF n + 1 <= Len(s) THEN base64_str[1 + (c(1) % 16) * 4 + c(2) \div 64] ELSE base64_pad,
           IF n + 2 <= Len(s) THEN base64_str[1 + (c(2) % 64)] ELSE base64_pad >>

base64encode(s) == FlattenSeq([i \in 1..((Len(s) + 2) \div 3) |-> Encoded(s, 3 * i - 2)])

(* The bytes of four characters, of which -2 is the padding. *)
Decoded(w) ==
    (IF w[1] >= 0 /\ w[2] >= 0 THEN <<w[1] * 4 + w[2] \div 16>> ELSE <<>>)
    \o (IF w[2] >= 0 /\ w[3] >= 0 THEN <<(w[2] % 16) * 16 + w[3] \div 4>> ELSE <<>>)
    \o (IF w[3] >= 0 /\ w[4] >= 0 THEN <<(w[3] % 4) * 64 + w[4]>> ELSE <<>>)

(* Other characters are passed over, what is left of the last four is      *)
(* dropped.                                                                *)
base64decode(s) ==
    LET known == SelectSeq(s, LAMBDA c : c = base64_pad \/ c \in Range(base64_str))
        w == [i \in DOMAIN known |->
                IF known[i] = base64_pad THEN -2
                ELSE (CHOOSE k \in DOMAIN base64_str : base64_str[k] = known[i]) - 1]
    IN  FlattenSeq([i \in 1..(Len(known) \div 4) |-> Decoded(SubSeq(w, 4 * i - 3, 4 * i))])

(* "make sure we convert the following predefined xml entities" *)
Entity(c) ==
    CASE c = Chars("<")[1] -> Chars("&lt;")
      [] c = Chars(">")[1] -> Chars("&gt;")
      [] c = Chars("&")[1] -> Chars("&amp;")
      [] OTHER -> <<c>>
Escaped(s) == FlattenSeq([i \in DOMAIN s |-> Entity(s[i])])

UTF8(x) ==
    LET Follow(n) == 128 + ((x \div 64^n) % 64)
    IN  CASE x >= 65536 -> <<240 + x \div 262144, Follow(2), Follow(1), Follow(0)>>
          [] x \in 2048..65535 -> <<224 + x \div 4096, Follow(1), Follow(0)>>
          [] x \in 128..2047 -> <<192 + x \div 64, Follow(0)>>
          [] x < 128 -> <<x>>

(* A numerical character reference, without its number sign. *)
CharacterOf(s) ==
    LET hex == s # <<>> /\ s[1] \in Range(Chars("xX"))
        digits == IF hex THEN Tail(s) ELSE s
        base == IF hex THEN 16 ELSE 10
        x == Num(strtoull(digits, base), 4, 4)
    IN  IF Len(s) > 7 \/ digits = <<>> \/ Digits(digits, 1, base) < Len(digits) THEN Refused
        ELSE IF x \notin 1..1114111 THEN Refused ELSE UTF8(x)

(* The names are compared up to their own length. *)
EntityOf(s) ==
    LET Begins(name) == Len(s) >= Len(name) /\ SubSeq(s, 1, Len(name)) = name
    IN  CASE s = <<>> -> Refused
          [] Begins(Chars("amp")) -> Chars("&")
          [] Begins(Chars("apos")) -> Chars("'")
          [] Begins(Chars("quot")) -> Chars("\"")
          [] Begins(Chars("lt")) -> Chars("<")
          [] Begins(Chars("gt")) -> Chars(">")
          [] Begins(Chars("#")) -> CharacterOf(Tail(s))
          [] OTHER -> Refused

(* The last character of a text is not looked at: i < len-1. *)
RECURSIVE unescape_entities(_)
unescape_entities(s) ==
    LET end == SelectInSeq(s, LAMBDA c : c = Chars(";")[1])
    IN  CASE Len(s) <= 1 -> s
          [] Len(s) > 1 /\ s[1] # Chars("&")[1] -> <<s[1]>> \o unescape_entities(Tail(s))
          [] Len(s) > 1 /\ s[1] = Chars("&")[1] /\ end = 0 -> Refused
          [] OTHER -> EntityOf(SubSeq(s, 2, end - 1)) \o unescape_entities(SubSeq(s, end + 1, Len(s)))
=============================================================================
