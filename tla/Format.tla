------------------------------- MODULE Format -------------------------------
(***************************************************************************)
(* vsprintf (kernel/lib/stdio.c), which every message of the kernel goes   *)
(* through: a pass over the format that takes arguments as it meets        *)
(* conversions.  A character is a string of length 1.  An argument is a    *)
(* word together with what it stands for: the character, the text or bytes *)
(* it points to, or, with the word behind it, a floating-point number: its *)
(* sign and its millionths, cut off below them as (int) does.  A number    *)
(* too large for an int stands for infinity and what is no number, too.    *)
(***************************************************************************)
EXTENDS Integers, SequencesExt, FiniteSetsExt

CONSTANTS WordSize,     \* 2^32
          Calls         \* formats, with arguments and what the caller means

ASSUME WordSizeAssumption == WordSize \in Nat /\ WordSize > 255
ASSUME CallsAssumption ==
    \A c \in Calls : c.fmt \in Seq(STRING) /\ c.args \in Seq(ToSet(c.args))

VARIABLES call,         \* the call: fmt, args, and the meaning of the format
          fmt,          \* where in the format the pointer is
          args,         \* arguments not yet taken
          str,          \* the text written
          flags, field_width, precision,
          stored,       \* what %n stored last
          at            \* the part of vsprintf that is next, or "done"

formatVars == <<call, fmt, args, str, flags, field_width, precision, stored, at>>

EOS == "end of string"
Blank == " "
Digits == <<"0", "1", "2", "3", "4", "5", "6", "7", "8", "9">>
Upper  == Digits \o <<"A", "B", "C", "D", "E", "F">>
Lower  == Digits \o <<"a", "b", "c", "d", "e", "f">>

FlagOf == [ch \in {"-", "+", Blank, "#", "0"} |->
             CASE ch = "-" -> "LEFT" [] ch = "+" -> "PLUS" [] ch = Blank -> "SPACE"
               [] ch = "#" -> "SPECIAL" [] ch = "0" -> "ZEROPAD"]

BaseOf == [ch \in {"o", "p", "x", "X", "d", "i", "u", "b"} |->
             CASE ch = "o" -> 8 [] ch \in {"p", "x", "X"} -> 16
               [] ch = "b" -> 2 [] OTHER -> 10]

\* *fmt
Char == IF fmt <= Len(call.fmt) THEN call.fmt[fmt] ELSE EOS

\* What a word is as an int, the largest int, and a sum as it is kept in one.
Int32(word) == IF word >= WordSize \div 2 THEN word - WordSize ELSE word
MaxInt  == WordSize \div 2 - 1
Wrap(n) == Int32(n % WordSize)

\* What `while (size-- > 0)' leaves of size.
Remains(size) == IF size > 0 THEN -1 ELSE Wrap(size - 1)

Copies(ch, n) == IF n <= 0 THEN <<>> ELSE [k \in 1..n |-> ch]

DigitsOf(n, base, letters) ==
    LET text[k \in 0..n] == IF k < base THEN <<letters[k + 1]>>
                            ELSE Append(text[k \div base], letters[(k % base) + 1])
    IN  text[n]

\* Six digits behind the point.
Million == 1000000
Millionths(n) ==
    DigitsOf(n \div Million, 10, Digits) \o <<".">>
      \o Tail(DigitsOf(Million + (n % Million), 10, Digits))

\* A number too large for an int becomes the least int, whose digits are negative:
\* what is printed of it lies before the digits in memory.
Before == "?"
TooLarge == Copies(Before, Len(DigitsOf(WordSize \div 2, 10, Digits))) \o <<".">>
              \o Copies(Before, 6)

\* tmp of a floating-point number.
RealDigits(n) == IF n \div Million <= MaxInt THEN Millionths(n) ELSE TooLarge

\* The parts of a number put together: a field of `size' characters, at least
\* `least' digits.  LEFT wins over ZEROPAD.  Three loops fill the field: what
\* one leaves of size is what the next one writes.
Layout(sign, prefix, tmp, size, least, f) ==
    LET left  == "LEFT" \in f
        zero  == "ZEROPAD" \in f
        body  == Copies("0", least - Len(tmp)) \o tmp
        room  == Wrap(size - Len(sign) - Len(prefix) - Max({least, Len(tmp)}))
        room2 == IF left \/ zero THEN room ELSE Remains(room)
        room3 == IF left THEN room2 ELSE Remains(room2)
        front == IF left \/ zero THEN <<>> ELSE Copies(Blank, room)
        pad   == IF left THEN <<>> ELSE Copies(IF zero THEN "0" ELSE Blank, room2)
    IN  front \o sign \o prefix \o pad \o body \o Copies(Blank, room3)

Sign(negative, f) ==
    CASE negative -> <<"-">> [] ~ negative /\ "PLUS" \in f -> <<"+">>
      [] ~ negative /\ "PLUS" \notin f -> IF "SPACE" \in f THEN <<Blank>> ELSE <<>>

\* number() of a word; with SIGN its upper half is negative.
number(word, base, size, least, f) ==
    LET negative == "SIGN" \in f /\ word >= WordSize \div 2
        letters  == IF "SMALL" \in f THEN Lower ELSE Upper
        prefix   == CASE "SPECIAL" \in f /\ base = 8  -> <<"0">>
                      [] "SPECIAL" \in f /\ base = 16 ->
                           <<"0", IF "SMALL" \in f THEN "x" ELSE "X">>
                      [] OTHER -> <<>>
    IN  Layout(Sign(negative, f), prefix,
               DigitsOf(IF negative THEN WordSize - word ELSE word, base, letters),
               size, least, f)
-----------------------------------------------------------------------------
FormatStart(c) ==
    /\ call = c /\ args = c.args
    /\ fmt = 1 /\ str = <<>> /\ flags = {} /\ field_width = -1 /\ precision = -1
    /\ stored = -1

FormatInit == (\E c \in Calls : FormatStart(c)) /\ at = "text"

Literal ==
    /\ at = "text" /\ Char \notin {"%", EOS}
    /\ str' = Append(str, Char) /\ fmt' = fmt + 1
    /\ UNCHANGED <<call, args, flags, field_width, precision, stored, at>>

Percent ==
    /\ at = "text" /\ Char = "%"
    /\ flags' = {} /\ fmt' = fmt + 1 /\ at' = "flags"
    /\ UNCHANGED <<call, args, str, field_width, precision, stored>>

Flag ==
    /\ at = "flags"
    /\ IF Char \in DOMAIN FlagOf
       THEN flags' = flags \cup {FlagOf[Char]} /\ fmt' = fmt + 1 /\ UNCHANGED at
       ELSE at' = "width" /\ UNCHANGED <<flags, fmt>>
    /\ UNCHANGED <<call, args, str, field_width, precision, stored>>

\* skip_atoi from *fmt: the digits there, and their value.
DigitRun == {k \in fmt..Len(call.fmt) : \A j \in fmt..k : call.fmt[j] \in ToSet(Digits)}
Value(text, base, letters) ==
    LET value[k \in 0..Len(text)] ==
          IF k = 0 THEN 0
          ELSE value[k - 1] * base + (CHOOSE d \in 1..base : letters[d] = text[k]) - 1
    IN  value[Len(text)]
Atoi == Wrap(Value(SubSeq(call.fmt, fmt, Max(DigitRun)), 10, Digits))

\* The least int stays what it is when its sign is changed.
Width ==
    /\ at = "width" /\ at' = "precision"
    /\ IF DigitRun # {}
       THEN field_width' = Atoi /\ fmt' = Max(DigitRun) + 1 /\ UNCHANGED <<args, flags>>
       ELSE IF Char = "*"
       THEN LET given == Int32(Head(args).word)
            IN  /\ field_width' = IF given < 0 THEN Wrap(- given) ELSE given
                /\ flags' = IF given < 0 THEN flags \cup {"LEFT"} ELSE flags
                /\ fmt' = fmt + 1 /\ args' = Tail(args)
       ELSE field_width' = -1 /\ UNCHANGED <<fmt, args, flags>>
    /\ UNCHANGED <<call, str, precision, stored>>

Point ==
    /\ at = "precision" /\ precision' = -1
    /\ IF Char = "." THEN fmt' = fmt + 1 /\ at' = "least"
                     ELSE at' = "qualifier" /\ UNCHANGED fmt
    /\ UNCHANGED <<call, args, str, flags, field_width, stored>>

\* The star of a precision takes its argument, but is not stepped over.
Precision ==
    /\ at = "least" /\ at' = "qualifier"
    /\ IF DigitRun # {}
       THEN precision' = Max({0, Atoi}) /\ fmt' = Max(DigitRun) + 1 /\ UNCHANGED args
       ELSE IF Char = "*"
       THEN precision' = Max({0, Int32(Head(args).word)}) /\ args' = Tail(args) /\ UNCHANGED fmt
       ELSE precision' = 0 /\ UNCHANGED <<fmt, args>>
    /\ UNCHANGED <<call, str, flags, field_width, stored>>

\* The length is stepped over, and forgotten.
Qualifier ==
    /\ at = "qualifier" /\ at' = "conversion"
    /\ fmt' = IF Char \in {"h", "l", "L"} THEN fmt + 1 ELSE fmt
    /\ UNCHANGED <<call, args, str, flags, field_width, precision, stored>>
-----------------------------------------------------------------------------
\* A conversion writes `text' and takes n arguments.
Converted(text, n) ==
    /\ at' = "text"
    /\ str' = str \o text
    /\ args' = SubSeq(args, n + 1, Len(args))
    /\ fmt' = fmt + 1
    /\ UNCHANGED <<call, flags, field_width, precision>>

\* A text in its field: blanks before it, unless LEFT, and behind it.  What
\* the loop before it leaves of the width, the loop behind it writes.
Padded(text, before, behind) ==
    IF "LEFT" \in flags THEN text \o Copies(Blank, before)
    ELSE Copies(Blank, before) \o text \o Copies(Blank, behind)

ConvertChar ==
    /\ at = "conversion" /\ Char = "c"
    /\ LET room == Wrap(field_width - 1)
       IN  Converted(Padded(<<Head(args).char>>, room, Remains(room)), 1)
    /\ UNCHANGED stored

ConvertString ==
    /\ at = "conversion" /\ Char = "s"
    /\ LET s    == Head(args).text
           len  == IF precision < 0 THEN Len(s) ELSE Min({Len(s), precision})
           room == field_width - len
       IN  Converted(Padded(SubSeq(s, 1, len), room,
                            IF room > 0 THEN -1 ELSE Wrap(field_width - 1) - len), 1)
    /\ UNCHANGED stored

\* o, p, x, X, d, i, u and b; the flags and the width of %p without a width.
ConvertNumber ==
    /\ at = "conversion" /\ Char \in DOMAIN BaseOf
    /\ LET bare == Char = "p" /\ field_width = -1
           more == (IF bare THEN {"ZEROPAD"} ELSE {})
                     \cup (IF Char = "x" THEN {"SMALL"} ELSE {})
                     \cup (IF Char \in {"d", "i"} THEN {"SIGN"} ELSE {})
       IN  Converted(number(Head(args).word, BaseOf[Char],
                            IF bare THEN 8 ELSE field_width, precision, flags \cup more), 1)
    /\ UNCHANGED stored

ConvertCount ==
    /\ at = "conversion" /\ Char = "n"
    /\ Converted(<<>>, 1)
    /\ stored' = Len(str)

\* A floating-point number takes two words.
Faulty_ConvertReal_OneWord ==
    /\ at = "conversion" /\ Char = "f"
    /\ LET n == Head(args).real
       IN  Converted(Layout(Sign(n.negative, flags), <<>>, RealDigits(n.millionths),
                            field_width, precision, flags), 1)
    /\ UNCHANGED stored

ConvertReal ==
    /\ at = "conversion" /\ Char = "f"
    /\ LET n == Head(args).real
       IN  Converted(Layout(Sign(n.negative, flags), <<>>, RealDigits(n.millionths),
                            field_width, precision, flags), 2)
    /\ UNCHANGED stored

\* Bytes with a separator between them: the one behind the last is taken back.
Separated(numbers, separator) ==
    LET text[k \in 0..Len(numbers)] ==
          IF k = 0 THEN <<>> ELSE Append(text[k - 1] \o numbers[k], separator)
    IN  Front(text[Len(numbers)])

ConvertMac ==
    /\ at = "conversion" /\ Char = "m"
    /\ Converted(Separated([k \in 1..6 |->
           number(Head(args).bytes[k], 16, 2, precision, flags \cup {"SMALL", "ZEROPAD"})],
           ":"), 1)
    /\ UNCHANGED stored

ConvertIp ==
    /\ at = "conversion" /\ Char = "r"
    /\ Converted(Separated([k \in 1..4 |->
           number(Head(args).bytes[k], 10, field_width, precision, flags \cup {"SMALL"})],
           "."), 1)
    /\ UNCHANGED stored

Conversions == DOMAIN BaseOf \cup {"c", "s", "n", "f", "m", "r"}

\* An unknown conversion whose end of the format is stepped over.
Faulty_ConvertOther_PastEnd ==
    /\ at = "conversion" /\ Char \notin Conversions
    /\ Converted(CASE Char = "%" -> <<"%">> [] Char = EOS -> <<"%">>
                   [] OTHER -> <<"%", Char>>, 0)
    /\ UNCHANGED stored

\* No conversion: it is written as it stands; at the end of the format the
\* pointer goes back for the loop to find the end again.
ConvertOther ==
    /\ at = "conversion" /\ Char \notin Conversions
    /\ at' = "text"
    /\ str' = str \o (IF Char \in {"%", EOS} THEN <<"%">> ELSE <<"%", Char>>)
    /\ fmt' = IF Char = EOS THEN fmt ELSE fmt + 1
    /\ UNCHANGED <<call, args, flags, field_width, precision, stored>>

Terminate ==
    /\ at = "text" /\ Char = EOS
    /\ at' = "done"
    /\ UNCHANGED <<call, fmt, args, str, flags, field_width, precision, stored>>

FormatNext ==
    \/ Literal \/ Percent \/ Flag \/ Width \/ Point \/ Precision \/ Qualifier
    \/ ConvertChar \/ ConvertString \/ ConvertNumber \/ ConvertCount \/ ConvertReal
    \/ ConvertMac \/ ConvertIp \/ ConvertOther \/ Terminate

FormatSpec == FormatInit /\ [][FormatNext]_formatVars
-----------------------------------------------------------------------------
(***************************************************************************)
(* What a format means, told from the text alone.  A call holds a          *)
(* directive in its parts: flags, width and least number of digits (-1     *)
(* when there is none), conversion and argument; and the characters of     *)
(* each, with the words its star takes and the words its conversion takes. *)
(* An int holds its numbers, and what is left of the width when sign,      *)
(* prefix and digits are counted off it and two loops have tested it.      *)
(***************************************************************************)
Text(d) == <<"%">> \o d.text.flags \o d.text.width \o d.text.precision
             \o d.text.length \o <<d.conv>>

IsNumber(text) == text \in Seq(ToSet(Digits))

IsWidth(d) ==
    \/ d.text.width = <<>> /\ d.star = <<>> /\ d.width = -1
    \/ /\ IsNumber(d.text.width) /\ d.text.width # <<>> /\ Head(d.text.width) # "0"
       /\ d.star = <<>> /\ d.width = Value(d.text.width, 10, Digits)
    \/ /\ d.text.width = <<"*">> /\ Len(d.star) = 1
       /\ Head(d.star).word \in 0..(WordSize - 1)
       /\ LET given == Int32(Head(d.star).word)
          IN  d.width = IF given < 0 THEN - given ELSE given

IsPrecision(d) ==
    \/ d.text.precision = <<>> /\ d.precision = -1
    \/ \E text \in {Tail(d.text.precision)} :
         /\ IsNumber(text) /\ d.text.precision = <<".">> \o text
         /\ d.precision = Value(text, 10, Digits)

IsDirective(d) ==
    /\ d.text.flags \in Seq(DOMAIN FlagOf)
    /\ d.flags = ToSet(d.text.flags)
                   \cup {f \in {"-"} : d.star # <<>> /\ Int32(Head(d.star).word) < 0}
    /\ IsWidth(d) /\ d.width <= MaxInt
    /\ IsPrecision(d) /\ d.precision <= MaxInt - 5
    /\ d.text.length \in {<<>>, <<"h">>, <<"l">>, <<"L">>}
    /\ d.conv \in STRING
    /\ d.conv \notin ToSet(Digits) \cup DOMAIN FlagOf \cup {"*", ".", "h", "l", "L", EOS}
    /\ d.conv \in {"m", "r"} => d.flags = {} /\ d.width = -1 /\ d.precision = -1

IsWord(a) ==
    /\ a.word \in 0..(WordSize - 1) /\ a.char \in STRING /\ a.text \in Seq(STRING)
    /\ a.bytes \in Seq(0..255) /\ Len(a.bytes) = 6
    /\ a.real.negative \in BOOLEAN /\ a.real.millionths \in Nat

\* The words a conversion takes: two for a floating-point number, none for
\* what is no conversion.
IsOwn(d) ==
    /\ d.own # <<>> => IsWord(d.arg) /\ d.own[1] = d.arg
    /\ d.conv = "f" => d.arg.real.millionths \div Million <= MaxInt
    /\ Len(d.own) = CASE d.conv = "f" -> 2 [] d.conv \in Conversions \ {"f"} -> 1 [] OTHER -> 0

\* A whole call is a directive with "z%d" behind it, to print 42.
IsWhole(c) ==
    LET d == c.directive
    IN  /\ IsDirective(d) /\ IsOwn(d)
        /\ c.fmt = Text(d) \o <<"z", "%", "d">>
        /\ Len(c.args) = Len(d.star) + Len(d.own) + 1
        /\ d.star = SubSeq(c.args, 1, Len(d.star))
        /\ d.own = SubSeq(c.args, Len(d.star) + 1, Len(c.args) - 1)
        /\ c.args[Len(c.args)].word = 42
        /\ c.tail = <<"z", "4", "2">>

ASSUME WholeCallsAssumption == \A c \in Calls : c.whole => IsWhole(c)
-----------------------------------------------------------------------------
Blanks(text) == \A k \in 1..Len(text) : text[k] = Blank

\* `text' in a field at least as wide as asked, at the side asked for.
InField(d, text, field) ==
    LET room == Max({Len(text), d.width}) - Len(text)
    IN  /\ Len(field) = Len(text) + room
        /\ IF "-" \in d.flags
           THEN IsPrefix(text, field) /\ Blanks(SubSeq(field, Len(text) + 1, Len(field)))
           ELSE IsSuffix(text, field) /\ Blanks(SubSeq(field, 1, room))

Magnitude(d) ==
    CASE d.conv = "f" -> d.arg.real.millionths
      [] d.conv \in {"d", "i"} -> LET n == Int32(d.arg.word) IN IF n < 0 THEN -n ELSE n
      [] OTHER -> d.arg.word

Negative(d) == \/ d.conv = "f" /\ d.arg.real.negative
               \/ d.conv \in {"d", "i"} /\ Int32(d.arg.word) < 0

\* The digits read back: a point stands before the last six of a real.
ReadsBack(d, digits) ==
    LET letters == IF d.conv \in {"x", "m"} THEN Lower ELSE Upper
        base    == IF d.conv = "f" THEN 10 ELSE BaseOf[d.conv]
        point   == Len(digits) - 6
        bare    == IF d.conv = "f" THEN RemoveAt(digits, point) ELSE digits
    IN  /\ d.conv = "f" => point > 1 /\ digits[point] = "."
        /\ \A k \in 1..Len(bare) : \E v \in 1..base : letters[v] = bare[k]
        /\ bare # <<>> /\ Value(bare, base, letters) = Magnitude(d)

\* A number: blanks, sign, prefix, digits, blanks.  It has the width and the
\* digits asked for and no more; zeros fill the field where the flag 0, or a
\* pointer without a width, says so and the flag - does not.
IsNumeral(d, text) ==
    LET width == IF d.conv = "p" /\ d.width = -1 THEN 8 ELSE d.width
        left  == "-" \in d.flags
        zeros == ~ left /\ ("0" \in d.flags \/ (d.conv = "p" /\ d.width = -1))
        sign  == IF Negative(d) THEN <<"-">>
                 ELSE IF "+" \in d.flags THEN <<"+">>
                 ELSE IF Blank \in d.flags THEN <<Blank>> ELSE <<>>
        head  == sign \o (CASE "#" \in d.flags /\ d.conv = "o" -> <<"0">>
                            [] "#" \in d.flags /\ d.conv = "x" -> <<"0", "x">>
                            [] "#" \in d.flags /\ d.conv \in {"X", "p"} -> <<"0", "X">>
                            [] OTHER -> <<>>)
        whole == IF d.conv = "f" THEN 8 ELSE 1      \* digits of 0
    IN  \E i \in 0..Len(text) : \E j \in i..Len(text) :
          LET body   == SubSeq(text, i + 1, j)
              digits == SubSeq(body, Len(head) + 1, Len(body))
              exact  == Len(digits) = Max({whole, d.precision}) \/ Head(digits) # "0"
          IN  /\ Blanks(SubSeq(text, 1, i)) /\ Blanks(SubSeq(text, j + 1, Len(text)))
              /\ i > 0 => ~ left /\ ~ zeros
              /\ j < Len(text) => left
              /\ IsPrefix(head, body) /\ ReadsBack(d, digits)
              /\ Len(digits) >= d.precision
              /\ exact \/ (zeros /\ Len(text) = width)
              /\ Len(text) >= width
              /\ Len(text) > width => i = 0 /\ j = Len(text) /\ exact

\* The texts between separators.
Fields(text, separator) ==
    LET fields[k \in 0..Len(text)] ==
          IF k = 0 THEN << <<>> >>
          ELSE LET before == fields[k - 1]
               IN  IF text[k] = separator THEN Append(before, <<>>)
                   ELSE Append(Front(before), Append(Last(before), text[k]))
    IN  fields[Len(text)]

AreBytes(text, bytes, separator, base) ==
    LET fields == Fields(text, separator)
    IN  /\ Len(fields) = Len(bytes)
        /\ \A k \in 1..Len(bytes) : Value(fields[k], base, Lower) = bytes[k]

Says(d, text) ==
    CASE d.conv \in DOMAIN BaseOf \cup {"f"} -> IsNumeral(d, text)
      [] d.conv = "c" -> InField(d, <<d.arg.char>>, text)
      [] d.conv = "s" ->
           LET shown == IF d.precision = -1 THEN Len(d.arg.text)
                        ELSE Min({d.precision, Len(d.arg.text)})
           IN  InField(d, SubSeq(d.arg.text, 1, shown), text)
      [] d.conv = "n" -> text = <<>> /\ stored = 0
      [] d.conv = "m" -> Len(text) = 17 /\ AreBytes(text, d.arg.bytes, ":", 16)
      [] d.conv = "r" -> AreBytes(text, SubSeq(d.arg.bytes, 1, 4), ".", 10)
      [] d.conv = "%" -> text = <<"%">>
      [] OTHER -> text = <<"%", d.conv>>

\* A directive whose width and precision an int holds, with what is counted off
\* them, is printed as it says, for every word, and for every floating-point
\* number whose whole part an int holds; and it takes the words that are its own:
\* what follows it in the format still finds its argument (stdio.c:33-178,
\* 202-432).
FormatCorrect ==
    at = "done" /\ call.whole =>
        /\ args = <<>>
        /\ IsSuffix(call.tail, str)
        /\ Says(call.directive, SubSeq(str, 1, Len(str) - Len(call.tail)))

\* However a format breaks off, the pointer into it stops at its end
\* (stdio.c:419-431).
FormatInBounds == fmt \in 1..(Len(call.fmt) + 1)
=============================================================================
