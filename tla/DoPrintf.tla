------------------------------ MODULE DoPrintf ------------------------------
(***************************************************************************)
(* doprintf.c: a format is read character by character, an integer turned  *)
(* into digits by a loop and laid out in its field.  A format is a         *)
(* sequence of characters; words have Width bits instead of 32.  Call and  *)
(* Step are composed with what calls DoPrintf and takes the characters.    *)
(***************************************************************************)
EXTENDS Integers, Sequences, SequencesExt

CONSTANTS
  Width,        \* bits of a word
  Items         \* conversions, see ItemsAssumption

(* b to the k, by the multiplications it stands for *)
Power(b, k) == LET power[i \in 0 .. k] == IF i = 0 THEN 1 ELSE b * power[i - 1]
               IN  power[k]

(* flags in the order they are written, the field width as written, what is
   converted and the word that is passed for it: for a string, its length *)
ASSUME ItemsAssumption ==
  \A i \in Items : /\ i.flags \in Seq({"-", "+", "#", "0"})
                   /\ i.width \in 0 .. 99
                   /\ i.conv \in {"d", "i", "o", "u", "x", "X", "p", "c", "s", "%", "l"}
                   /\ i.word \in 0 .. Power(2, Width) - 1
                   /\ i.conv = "s" => i.word <= 15

(* as in 32 bits, the greatest number ends in 7 and is written 17...7 in octal:
   the carry of the most negative number meets both *)
ASSUME WidthAssumption ==
  Width \in Nat /\ Width % 3 = 2 /\ Power(2, Width - 1) % 10 = 8

VARIABLES
  item,         \* history: what the format was written from
  format, args, \* the parameters of DoPrintf
  c,            \* position in the format
  flags, width, \* of the conversion at c
  base,
  n, carry,     \* the loops of ItoA32 and UItoA32
  sign, buf,    \* what they put into buf: sign and digits, least first
  out,          \* characters passed to printchar_fp
  pc

number == <<base, n, carry, sign, buf>>
formatting == <<item, format, args, c, flags, width, number, out, pc>>

-----------------------------------------------------------------------------
Digits == <<"0", "1", "2", "3", "4", "5", "6", "7", "8", "9", "a", "b", "c", "d", "e", "f">>
Uppers == <<"0", "1", "2", "3", "4", "5", "6", "7", "8", "9", "A", "B", "C", "D", "E", "F">>
Decimal(ch) == \E d \in 1 .. 10 : Digits[d] = ch
Ascii2Int(ch) == CHOOSE d \in 0 .. 9 : Digits[d + 1] = ch
Rep(ch, k) == [i \in 1 .. k |-> ch]

Text(length) == SubSeq(<<"k", "l", "m", "n", "o", "p", "q", "r", "s", "t", "u", "v", "w", "y", "z">>,
                       1, length)
Spell(i) == <<"%">> \o i.flags
            \o (IF i.width = 0 THEN <<>>
                ELSE IF i.width < 10 THEN <<Digits[i.width + 1]>>
                ELSE <<Digits[(i.width \div 10) + 1], Digits[(i.width % 10) + 1]>>)
            \o <<i.conv>>

(* before the first call *)
NotCalled ==
  /\ item = CHOOSE i \in Items : TRUE
  /\ format = <<>> /\ args = <<>>
  /\ c = 1 /\ flags = {} /\ width = 0
  /\ base = 0 /\ n = 0 /\ carry = 0 /\ sign = "+" /\ buf = <<>>
  /\ out = <<>> /\ pc = "done"

(* DoPrintf is called with a format that begins with item i and ends with rest,
   for which the last arguments are passed *)
Call(i, rest, last) ==
  /\ pc = "done"
  /\ item' = i
  /\ format' = Spell(i) \o rest
  /\ args' = (IF i.conv \in {"%", "l"} THEN <<>> ELSE <<i.word>>) \o last
  /\ c' = 1 /\ out' = <<>> /\ pc' = "text"
  /\ UNCHANGED <<flags, width, number>>

At(ch) == c <= Len(format) /\ format[c] = ch

Literal ==
  /\ pc = "text" /\ c <= Len(format) /\ ~ At("%")
  /\ out' = Append(out, format[c])
  /\ c' = c + 1
  /\ UNCHANGED <<item, format, args, flags, width, number, pc>>

Percent ==
  /\ pc = "text" /\ At("%")
  /\ c' = c + 1
  /\ flags' = {}
  /\ pc' = "flags"
  /\ UNCHANGED <<item, format, args, width, number, out>>

Flag ==
  /\ pc = "flags" /\ \E f \in {"-", "+", "#", "0"} : At(f)
  /\ flags' = flags \cup {format[c]}
  /\ c' = c + 1
  /\ UNCHANGED <<item, format, args, width, number, out, pc>>

(* without digits the width is 1 *)
EndFlags ==
  /\ pc = "flags" /\ ~ \E f \in {"-", "+", "#", "0"} : At(f)
  /\ width' = IF Decimal(format[c]) THEN 0 ELSE 1
  /\ pc' = "width"
  /\ UNCHANGED <<item, format, args, c, flags, number, out>>

WidthDigit ==
  /\ pc = "width" /\ Decimal(format[c])
  /\ width' = width * 10 + Ascii2Int(format[c])
  /\ c' = c + 1
  /\ UNCHANGED <<item, format, args, flags, number, out, pc>>

Converting(convs) == pc = "width" /\ format[c] \in convs
Converted == c' = c + 1 /\ pc' = "text"

PrintPercent ==
  /\ Converting({"%"}) /\ Converted
  /\ out' = Append(out, "%")
  /\ UNCHANGED <<item, format, args, flags, width, number>>

PrintChar ==
  /\ Converting({"c"}) /\ Converted
  /\ out' = Append(out, IF Head(args) = 0 THEN "#" ELSE "k")
  /\ args' = Tail(args)
  /\ UNCHANGED <<item, format, flags, width, number>>

PrintString ==
  /\ Converting({"s"}) /\ Converted
  /\ out' = out \o Text(Head(args))
  /\ args' = Tail(args)
  /\ UNCHANGED <<item, format, flags, width, number>>

(* an unknown conversion prints nothing and takes no argument *)
Unknown ==
  /\ Converting({"l"}) /\ Converted
  /\ UNCHANGED <<item, format, args, flags, width, number, out>>

-----------------------------------------------------------------------------
BaseOf(conv) == CASE conv \in {"X", "x", "p"} -> 16
                  [] conv \in {"d", "i", "u"} -> 10
                  [] conv = "o" -> 8

UItoA32 ==
  /\ Converting({"X", "x", "p", "u"})
  /\ base' = BaseOf(format[c])
  /\ flags' = flags \cup (IF format[c] = "X" THEN {"upper"} ELSE {})
  /\ n' = Head(args) /\ carry' = 0 /\ sign' = "+" /\ buf' = <<>>
  /\ args' = Tail(args)
  /\ pc' = "digits"
  /\ UNCHANGED <<item, format, c, width, out>>

Signed(word) == IF word < Power(2, Width - 1) THEN word ELSE word - Power(2, Width)

(* mutant: the most negative number is negated like any other *)
MagnitudeUncarried(v) ==
  IF v >= 0 THEN [n |-> v, carry |-> 0]
  ELSE IF v = -Power(2, Width - 1) THEN [n |-> -(v + 1), carry |-> 0] ELSE [n |-> -v, carry |-> 0]

(* the most negative number is one less than can be negated *)
Magnitude(v) ==
  IF v >= 0 THEN [n |-> v, carry |-> 0]
  ELSE IF v = -Power(2, Width - 1) THEN [n |-> -(v + 1), carry |-> 1] ELSE [n |-> -v, carry |-> 0]

ItoA32 ==
  /\ Converting({"d", "i", "o"})
  /\ base' = BaseOf(format[c])
  /\ LET v == Signed(Head(args))
     IN  /\ n' = Magnitude(v).n /\ carry' = Magnitude(v).carry
         /\ sign' = IF v < 0 THEN "-" ELSE "+"
  /\ buf' = <<>>
  /\ args' = Tail(args)
  /\ pc' = "digits"
  /\ UNCHANGED <<item, format, c, flags, width, out>>

(* a turn of either loop; without a carry both compute n % base *)
NextDigit ==
  /\ pc = "digits"
  /\ buf' = Append(buf, (IF buf = <<>> /\ carry = 1 THEN (n % base) + carry ELSE n + carry) % base)
  /\ carry' = IF (n % base) + carry >= base THEN 1 ELSE 0
  /\ n' = n \div base
  /\ pc' = IF n' > 0 THEN "digits" ELSE "field"
  /\ UNCHANGED <<item, format, args, c, flags, width, base, sign, out>>

(* mutant: the sign is not counted *)
FieldOfDigits(signstr, annotatestr, digits) ==
  LET pad == IF Len(annotatestr \o digits) < width THEN width - Len(annotatestr \o digits) ELSE 0
  IN  IF "0" \in flags THEN signstr \o annotatestr \o Rep("0", pad) \o digits
      ELSE IF "-" \notin flags THEN Rep(" ", pad) \o signstr \o annotatestr \o digits
      ELSE signstr \o annotatestr \o digits \o Rep(" ", pad)

Field(signstr, annotatestr, digits) ==
  LET len == Len(signstr \o annotatestr \o digits)
      pad == IF len < width THEN width - len ELSE 0
  IN  IF "0" \in flags THEN signstr \o annotatestr \o Rep("0", pad) \o digits
      ELSE IF "-" \notin flags THEN Rep(" ", pad) \o signstr \o annotatestr \o digits
      ELSE signstr \o annotatestr \o digits \o Rep(" ", pad)

PrintFormattedInteger ==
  /\ pc = "field"
  /\ LET signstr == IF sign = "-" \/ "+" \in flags THEN <<sign>> ELSE <<>>
         annotatestr == IF "#" \notin flags \/ base = 10 THEN <<>>
                        ELSE IF base = 16 THEN <<"0", "x">> ELSE <<"0">>
         digits == [i \in 1 .. Len(buf) |->
                      LET d == buf[Len(buf) + 1 - i] + 1
                      IN  IF "upper" \in flags THEN Uppers[d] ELSE Digits[d]]
     IN  out' = out \o Field(signstr, annotatestr, digits)
  /\ Converted
  /\ UNCHANGED <<item, format, args, flags, width, number>>

Terminate ==
  /\ pc = "text" /\ c > Len(format)
  /\ out' = Append(out, "NUL")
  /\ pc' = "done"
  /\ UNCHANGED <<item, format, args, c, flags, width, number>>

Step == \/ Literal \/ Percent \/ Flag \/ EndFlags \/ WidthDigit
        \/ PrintPercent \/ PrintChar \/ PrintString \/ Unknown
        \/ UItoA32 \/ ItoA32 \/ NextDigit \/ PrintFormattedInteger
        \/ Terminate

-----------------------------------------------------------------------------
ValueOf(i) == IF i.conv \in {"d", "i", "o"} THEN Signed(i.word) ELSE i.word
Abs(v) == IF v < 0 THEN -v ELSE v

(* The digits in buf and what is left of the number make up its magnitude, in
   every turn: the most negative number too, whose missing one travels as carry
   through all its digits and has gone into one of them at the end.  A sign and
   the final zero then still fit buf, in any base. *)
DigitsMakeNumber == pc \in {"digits", "field"} =>
  LET sum[i \in 0 .. Len(buf)] == IF i = 0 THEN 0 ELSE sum[i - 1] + buf[i] * Power(base, i - 1)
      value == IF c <= Len(Spell(item)) THEN ValueOf(item) ELSE 10
  IN  /\ (n + carry) * Power(base, Len(buf)) + sum[Len(buf)] = Abs(value)
      /\ Len(buf) + 2 <= Width + 4

(* The reference: a number without leading zeros and with its sign and base, in
   a field of at least the width that is written, as the comment above DoPrintf
   lists it; but without a width there is no field, and characters, strings and
   a percent sign stand as they are (see Documented). *)
Numeral(v, b) ==
  LET places == {k \in 1 .. Width : k = 1 \/ v >= Power(b, k - 1)}
  IN  [i \in 1 .. Cardinality(places) |-> (v \div Power(b, Cardinality(places) - i)) % b]

Conversion(i) ==
  LET has(f) == \E k \in DOMAIN i.flags : i.flags[k] = f
      v == ValueOf(i)
      digits == [k \in DOMAIN Numeral(Abs(v), BaseOf(i.conv)) |->
                   (IF i.conv = "X" THEN Uppers ELSE Digits)[Numeral(Abs(v), BaseOf(i.conv))[k] + 1]]
      front == (IF v < 0 THEN <<"-">> ELSE IF has("+") THEN <<"+">> ELSE <<>>)
               \o (IF ~ has("#") \/ BaseOf(i.conv) = 10 THEN <<>>
                   ELSE IF BaseOf(i.conv) = 16 THEN <<"0", "x">> ELSE <<"0">>)
      missing == i.width - Len(front \o digits)
      pad(ch) == Rep(ch, missing)
  IN  CASE i.conv = "%" -> <<"%">>
        [] i.conv = "c" -> <<IF i.word = 0 THEN "#" ELSE "k">>
        [] i.conv = "s" -> Text(i.word)
        [] i.conv = "l" -> <<>>
        [] OTHER -> IF has("0") THEN front \o pad("0") \o digits
                    ELSE IF has("-") THEN front \o digits \o pad(" ")
                    ELSE pad(" ") \o front \o digits

(* What that comment says: a field width can be written for every conversion,
   (%)[-+#0][w](cdiuoxXs%), and is 10 where none is written. *)
Documented(i) ==
  LET has(f) == \E k \in DOMAIN i.flags : i.flags[k] = f
      field == IF i.width = 0 THEN 10 ELSE i.width
      pad(ch) == Rep(ch, field - Len(Conversion(i)))
  IN  CASE i.conv = "l" -> <<>>
        [] i.conv \in {"c", "s", "%"} -> IF has("0") THEN pad("0") \o Conversion(i)
                                        ELSE IF has("-") THEN Conversion(i) \o pad(" ")
                                        ELSE pad(" ") \o Conversion(i)
        [] OTHER -> Conversion([i EXCEPT !.width = field])
=============================================================================
