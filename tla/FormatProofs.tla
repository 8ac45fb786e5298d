---------------------------- MODULE FormatProofs ----------------------------
(***************************************************************************)
(* vsprintf for any calls: its pointer never leaves the format, and every  *)
(* directive of a format that is whole is printed as it says, if an int    *)
(* holds its width, its precision and the whole part of a real number.     *)
(*                                                                         *)
(* What is printed is read back.  The digits of a number have its value,   *)
(* with zeros in front of them or without (DigitsRead, ValueZeros); blanks,*)
(* sign, prefix and digits are therefore a numeral that says the argument  *)
(* (NumberSays, RealSays), fields between separators are the bytes of an   *)
(* address (MacSays, IpSays), and other texts are padded (PaddedFits).     *)
(* For the parser, the parts of a directive are placed in the format       *)
(* (WholeLaid): the invariant OnTheWay says where vsprintf is among them   *)
(* and what it has read, printed and taken from its arguments by then.     *)
(***************************************************************************)
EXTENDS Format, SequenceTheorems, WellFoundedInduction, TLAPS

\* A set of numbers that is not empty has a least one.
LEMMA LeastElement ==
    ASSUME NEW S \in SUBSET Nat, S # {}
    PROVE  \E x \in S : \A y \in S : x <= y
PROOF
  <1>. DEFINE R == OpToRel(<, Nat)
  <1>1. IsWellFoundedOn(R, Nat)
    BY NatLessThanWellFounded
  <1>2. R = {ss \in Nat \X Nat : ss[1] < ss[2]}
    BY DEF OpToRel
  <1>. HIDE DEF R
  <1>3. PICK x \in S : \A y \in S : ~ (<<y, x>> \in R)
    BY <1>1, WFMin
  <1>4. ASSUME NEW y \in S PROVE x <= y
    <2>1. <<y, x>> \notin R /\ x \in Nat /\ y \in Nat
      BY <1>3
    <2>2. ~ (y < x)
      BY <1>2, <2>1
    <2>. QED  BY <2>1, <2>2
  <1>. QED  BY <1>4
-----------------------------------------------------------------------------
(* Numbers and texts. *)

Bases == {2, 8, 10, 16}

\* A number is its quotient and its rest.
LEMMA Division ==
    ASSUME NEW base \in Bases, NEW k \in Nat
    PROVE  /\ k \div base \in Nat /\ k % base \in Nat /\ k % base < base
           /\ k \div base <= k /\ (k >= base => k \div base < k /\ k \div base > 0)
           /\ k = (k \div base) * base + (k % base) /\ 2 * (k \div base) <= k
  <1>1. CASE base = 2
    <2>1. /\ k \div 2 \in Nat /\ k % 2 \in Nat /\ k % 2 < 2 /\ k \div 2 <= k
          /\ k >= 2 => k \div 2 < k /\ k \div 2 > 0
          /\ k = (k \div 2) * 2 + (k % 2) /\ 2 * (k \div 2) <= k
      OBVIOUS
    <2> QED BY <1>1, <2>1
  <1>2. CASE base = 8
    <2>1. /\ k \div 8 \in Nat /\ k % 8 \in Nat /\ k % 8 < 8 /\ k \div 8 <= k
          /\ k >= 8 => k \div 8 < k /\ k \div 8 > 0
          /\ k = (k \div 8) * 8 + (k % 8) /\ 2 * (k \div 8) <= k
      OBVIOUS
    <2> QED BY <1>2, <2>1
  <1>3. CASE base = 10
    <2>1. /\ k \div 10 \in Nat /\ k % 10 \in Nat /\ k % 10 < 10 /\ k \div 10 <= k
          /\ k >= 10 => k \div 10 < k /\ k \div 10 > 0
          /\ k = (k \div 10) * 10 + (k % 10) /\ 2 * (k \div 10) <= k
      OBVIOUS
    <2> QED BY <1>3, <2>1
  <1>4. CASE base = 16
    <2>1. /\ k \div 16 \in Nat /\ k % 16 \in Nat /\ k % 16 < 16 /\ k \div 16 <= k
          /\ k >= 16 => k \div 16 < k /\ k \div 16 > 0
          /\ k = (k \div 16) * 16 + (k % 16) /\ 2 * (k \div 16) <= k
      OBVIOUS
    <2> QED BY <1>4, <2>1
  <1> QED BY <1>1, <1>2, <1>3, <1>4 DEF Bases

\* What holds of 0 and, with n, of n + 1 holds of every number.
LEMMA Induction ==
    ASSUME NEW S, 0 \in S, \A n \in Nat : n \in S => n + 1 \in S
    PROVE  Nat \subseteq S
  <1> DEFINE F == Nat \ S
  <1> SUFFICES ASSUME F # {} PROVE FALSE
    OBVIOUS
  <1>1. PICK x \in F : \A y \in F : x <= y
    BY LeastElement
  <1>2. x # 0 /\ x - 1 \in Nat /\ x - 1 \notin F
    BY <1>1
  <1> QED BY <1>1, <1>2

\* The equation of the digits of the numbers up to n.
DigitsUpTo(f, n, base, letters) ==
    f = [k \in 0..n |-> IF k < base THEN <<letters[k + 1]>>
                        ELSE Append(f[k \div base], letters[(k % base) + 1])]

\* There is a function that gives each number its digits.
LEMMA DigitsExist ==
    ASSUME NEW base \in Bases, NEW letters, NEW m \in Nat
    PROVE  \E f : DigitsUpTo(f, m, base, letters)
  <1> DEFINE S == {n \in Nat : \E f : DigitsUpTo(f, n, base, letters)}
             d(f, k) == IF k < base THEN <<letters[k + 1]>>
                        ELSE Append(f[k \div base], letters[(k % base) + 1])
  <1>1. 0 \in S
    <2> DEFINE f == [k \in 0..0 |-> <<letters[k + 1]>>]
    <2>1. \A k \in 0..0 : k < base
      BY DEF Bases
    <2>2. DigitsUpTo(f, 0, base, letters)
      BY <2>1 DEF DigitsUpTo
    <2> QED BY <2>2
  <1>2. ASSUME NEW n \in Nat, n \in S PROVE n + 1 \in S
    <2>1. PICK f : DigitsUpTo(f, n, base, letters)
      BY <1>2
    <2> DEFINE g == [k \in 0..(n + 1) |-> IF k <= n THEN f[k] ELSE d(f, k)]
    <2>2. \A k \in 0..n : f[k] = d(f, k)
      BY <2>1 DEF DigitsUpTo
    <2>3. ASSUME NEW k \in 0..(n + 1) PROVE g[k] = d(g, k)
      <3>1. k >= base => k \div base \in 0..n
        BY Division
      <3>2. k >= base => g[k \div base] = f[k \div base]
        BY <3>1
      <3>3. d(g, k) = d(f, k)
        BY <3>2, base \in Nat DEF Bases
      <3>4. k <= n \/ k = n + 1
        OBVIOUS
      <3>5. g[k] = IF k <= n THEN f[k] ELSE d(f, k)
        OBVIOUS
      <3> HIDE DEF g, d
      <3> QED BY <2>2, <3>3, <3>4, <3>5
    <2>4. g = [k \in 0..(n + 1) |-> d(g, k)]
      <3>1. g = [k \in 0..(n + 1) |-> g[k]]
        OBVIOUS
      <3> HIDE DEF g, d
      <3> QED BY <2>3, <3>1
    <2>5. DigitsUpTo(g, n + 1, base, letters)
      <3> HIDE DEF g
      <3> QED BY <2>4 DEF DigitsUpTo
    <2> QED BY <2>5
  <1> HIDE DEF S
  <1>3. m \in S
    BY <1>1, <1>2, Induction
  <1> QED BY <1>3 DEF S

\* And no two of them.
LEMMA DigitsAgree ==
    ASSUME NEW base \in Bases, NEW letters, NEW n \in Nat, NEW m \in Nat, NEW f, NEW g,
           DigitsUpTo(f, n, base, letters), DigitsUpTo(g, m, base, letters)
    PROVE  \A k \in 0..n \cap 0..m : f[k] = g[k]
  <1> DEFINE F == {k \in 0..n \cap 0..m : f[k] # g[k]}
  <1> SUFFICES ASSUME F # {} PROVE FALSE
    OBVIOUS
  <1>1. PICK x \in F : \A y \in F : x <= y
    <2>1. F \in SUBSET Nat
      OBVIOUS
    <2> HIDE DEF F
    <2> QED BY <2>1, LeastElement
  <1>2. x >= base => f[x \div base] = g[x \div base]
    BY <1>1, Division
  <1>3. /\ f[x] = IF x < base THEN <<letters[x + 1]>> ELSE Append(f[x \div base], letters[(x % base) + 1])
        /\ g[x] = IF x < base THEN <<letters[x + 1]>> ELSE Append(g[x \div base], letters[(x % base) + 1])
    BY DEF DigitsUpTo
  <1>4. x < base \/ x >= base
    BY DEF Bases
  <1> QED BY <1>1, <1>2, <1>3, <1>4

\* The digits of a number are those of its quotient and the digit of its rest.
LEMMA DigitsAre ==
    ASSUME NEW base \in Bases, NEW letters, NEW n \in Nat
    PROVE  DigitsOf(n, base, letters) =
             IF n < base THEN <<letters[n + 1]>>
             ELSE Append(DigitsOf(n \div base, base, letters), letters[(n % base) + 1])
  <1> DEFINE solution(m) == CHOOSE f : DigitsUpTo(f, m, base, letters)
  <1>1. ASSUME NEW m \in Nat
        PROVE  /\ DigitsUpTo(solution(m), m, base, letters)
               /\ DigitsOf(m, base, letters) = solution(m)[m]
    <2>1. DigitsUpTo(solution(m), m, base, letters)
      BY DigitsExist
    <2>2. DigitsOf(m, base, letters) = solution(m)[m]
      BY DEF DigitsOf, DigitsUpTo
    <2> QED BY <2>1, <2>2
  <1> HIDE DEF solution
  <1>2. solution(n)[n] = IF n < base THEN <<letters[n + 1]>>
                         ELSE Append(solution(n)[n \div base], letters[(n % base) + 1])
    <2>1. DigitsUpTo(solution(n), n, base, letters) /\ n \in 0..n
      BY <1>1
    <2> QED BY <2>1 DEF DigitsUpTo
  <1>3. CASE n < base
    BY <1>1, <1>2, <1>3
  <1>4. CASE n >= base
    <2>1. n \div base \in Nat /\ n \div base \in 0..n \cap 0..(n \div base)
      BY <1>4, Division
    <2>2. solution(n)[n \div base] = solution(n \div base)[n \div base]
      BY <1>1, <2>1, DigitsAgree
    <2> QED BY <1>1, <1>2, <2>1, <2>2
  <1> QED BY <1>3, <1>4 DEF Bases

-----------------------------------------------------------------------------
(* Texts read back. *)

Rank(ch, base, letters) == (CHOOSE d \in 1..base : letters[d] = ch) - 1

\* The equation of the values of the first n characters of a text.
ValuesUpTo(f, n, text, base, letters) ==
    f = [k \in 0..n |-> IF k = 0 THEN 0 ELSE f[k - 1] * base + Rank(text[k], base, letters)]

\* There is a function that gives each beginning of a text its value.
LEMMA ValuesExist ==
    ASSUME NEW text, NEW base, NEW letters, NEW m \in Nat
    PROVE  \E f : ValuesUpTo(f, m, text, base, letters)
  <1> DEFINE v(f, k) == IF k = 0 THEN 0 ELSE f[k - 1] * base + Rank(text[k], base, letters)
             S == {n \in Nat : \E f : ValuesUpTo(f, n, text, base, letters)}
  <1>1. 0 \in S
    <2>1. ValuesUpTo([k \in 0..0 |-> 0], 0, text, base, letters)
      BY DEF ValuesUpTo
    <2> QED BY <2>1
  <1>2. ASSUME NEW n \in Nat, n \in S PROVE n + 1 \in S
    <2>1. PICK f : ValuesUpTo(f, n, text, base, letters)
      BY <1>2
    <2> DEFINE g == [k \in 0..(n + 1) |-> IF k <= n THEN f[k] ELSE v(f, k)]
    <2>2. \A k \in 0..n : f[k] = v(f, k)
      BY <2>1 DEF ValuesUpTo
    <2>3. ASSUME NEW k \in 0..(n + 1) PROVE g[k] = v(g, k)
      <3>1. k # 0 => g[k - 1] = f[k - 1]
        OBVIOUS
      <3>2. v(g, k) = v(f, k)
        BY <3>1
      <3>3. (k \in 0..n \/ k = n + 1) /\ g[k] = IF k <= n THEN f[k] ELSE v(f, k)
        OBVIOUS
      <3> HIDE DEF g, v
      <3> QED BY <2>2, <3>2, <3>3
    <2>4. g = [k \in 0..(n + 1) |-> v(g, k)]
      <3>1. g = [k \in 0..(n + 1) |-> g[k]]
        OBVIOUS
      <3> HIDE DEF g, v
      <3> QED BY <2>3, <3>1
    <2>5. ValuesUpTo(g, n + 1, text, base, letters)
      <3> HIDE DEF g
      <3> QED BY <2>4 DEF ValuesUpTo
    <2> QED BY <2>5
  <1> HIDE DEF S
  <1>3. m \in S
    BY <1>1, <1>2, Induction
  <1> QED BY <1>3 DEF S

\* The value of a text is the last of the values of its beginnings.
LEMMA ValueIs ==
    ASSUME NEW text, NEW base, NEW letters, Len(text) \in Nat
    PROVE  \E f : /\ ValuesUpTo(f, Len(text), text, base, letters)
                 /\ Value(text, base, letters) = f[Len(text)]
  <1> DEFINE f == CHOOSE f : ValuesUpTo(f, Len(text), text, base, letters)
  <1>1. ValuesUpTo(f, Len(text), text, base, letters)
    BY ValuesExist
  <1>2. Value(text, base, letters) = f[Len(text)]
    BY DEF Value, ValuesUpTo, Rank
  <1> QED BY <1>1, <1>2

\* And no two of them.
LEMMA ValuesAgree ==
    ASSUME NEW s, NEW t, NEW base, NEW letters, NEW n \in Nat, NEW m \in Nat, NEW f, NEW g,
           ValuesUpTo(f, n, s, base, letters), ValuesUpTo(g, m, t, base, letters),
           n <= m, \A k \in 1..n : s[k] = t[k]
    PROVE  f[n] = g[n]
  <1> DEFINE S == {k \in Nat : k <= n => f[k] = g[k]}
  <1>1. 0 \in S
    BY DEF ValuesUpTo
  <1>2. ASSUME NEW k \in Nat, k \in S PROVE k + 1 \in S
    <2> SUFFICES ASSUME k + 1 <= n PROVE f[k + 1] = g[k + 1]
      OBVIOUS
    <2>1. k + 1 \in 1..n /\ k + 1 \in 0..n /\ k + 1 \in 0..m /\ k + 1 # 0 /\ (k + 1) - 1 = k
      OBVIOUS
    <2>2. /\ f[k + 1] = f[(k + 1) - 1] * base + Rank(s[k + 1], base, letters)
          /\ g[k + 1] = g[(k + 1) - 1] * base + Rank(t[k + 1], base, letters)
      BY <2>1 DEF ValuesUpTo
    <2>3. f[k] = g[k] /\ s[k + 1] = t[k + 1]
      BY <1>2, <2>1
    <2> QED BY <2>1, <2>2, <2>3
  <1> HIDE DEF S
  <1>3. n \in S
    BY <1>1, <1>2, Induction
  <1> QED BY <1>3 DEF S

\* A character behind a text is one more digit.
LEMMA ValueAppend ==
    ASSUME NEW S, NEW text \in Seq(S), NEW ch \in S, NEW base, NEW letters
    PROVE  /\ Value(<<>>, base, letters) = 0
           /\ Value(Append(text, ch), base, letters) =
                Value(text, base, letters) * base + Rank(ch, base, letters)
  <1>1. Value(<<>>, base, letters) = 0
    <2>1. Len(<<>>) = 0
      OBVIOUS
    <2>2. PICK f : ValuesUpTo(f, 0, <<>>, base, letters) /\ Value(<<>>, base, letters) = f[0]
      BY <2>1, ValueIs
    <2> QED BY <2>2 DEF ValuesUpTo
  <1>2. Value(Append(text, ch), base, letters) =
          Value(text, base, letters) * base + Rank(ch, base, letters)
    <2> DEFINE n == Len(text)
               t == Append(text, ch)
    <2>1. /\ n \in Nat /\ Len(t) = n + 1 /\ t[n + 1] = ch
          /\ \A k \in 1..n : text[k] = t[k]
      BY AppendProperties
    <2> HIDE DEF n, t
    <2>2. PICK f : ValuesUpTo(f, n, text, base, letters) /\ Value(text, base, letters) = f[n]
      BY <2>1, ValueIs DEF n
    <2>3. PICK g : ValuesUpTo(g, n + 1, t, base, letters) /\ Value(t, base, letters) = g[n + 1]
      BY <2>1, ValueIs
    <2>4. f[n] = g[n]
      BY <2>1, <2>2, <2>3, ValuesAgree
    <2>5. g[n + 1] = g[n] * base + Rank(t[n + 1], base, letters)
      <3>1. n + 1 \in 0..(n + 1) /\ n + 1 # 0 /\ (n + 1) - 1 = n
        BY <2>1
      <3>2. g[n + 1] = g[(n + 1) - 1] * base + Rank(t[n + 1], base, letters)
        BY <2>3, <3>1 DEF ValuesUpTo
      <3> QED BY <3>1, <3>2
    <2> QED BY <2>1, <2>2, <2>3, <2>4, <2>5 DEF t
  <1> QED BY <1>1, <1>2

\* The letters of the digits.
LEMMA LettersAre ==
    /\ Len(Digits) = 10 /\ Digits[1] = "0" /\ Digits[2] = "1" /\ Digits[3] = "2"
    /\ Digits[4] = "3" /\ Digits[5] = "4" /\ Digits[6] = "5" /\ Digits[7] = "6"
    /\ Digits[8] = "7" /\ Digits[9] = "8" /\ Digits[10] = "9"
    /\ \A d \in 1..10 : Upper[d] = Digits[d] /\ Lower[d] = Digits[d]
    /\ Upper[11] = "A" /\ Upper[12] = "B" /\ Upper[13] = "C"
    /\ Upper[14] = "D" /\ Upper[15] = "E" /\ Upper[16] = "F"
    /\ Lower[11] = "a" /\ Lower[12] = "b" /\ Lower[13] = "c"
    /\ Lower[14] = "d" /\ Lower[15] = "e" /\ Lower[16] = "f"
  <1>1. /\ Len(Digits) = 10 /\ Digits[1] = "0" /\ Digits[2] = "1" /\ Digits[3] = "2"
        /\ Digits[4] = "3" /\ Digits[5] = "4" /\ Digits[6] = "5" /\ Digits[7] = "6"
        /\ Digits[8] = "7" /\ Digits[9] = "8" /\ Digits[10] = "9"
    BY DEF Digits
  <1>2. ASSUME NEW d \in 1..16
        PROVE  d \in {1, 2, 3, 4, 5, 6, 7, 8, 9, 10, 11, 12, 13, 14, 15, 16}
    OBVIOUS
  <1>3. /\ \A d \in 1..10 : Upper[d] = Digits[d] /\ Lower[d] = Digits[d]
        /\ Upper[11] = "A" /\ Upper[12] = "B" /\ Upper[13] = "C"
        /\ Upper[14] = "D" /\ Upper[15] = "E" /\ Upper[16] = "F"
        /\ Lower[11] = "a" /\ Lower[12] = "b" /\ Lower[13] = "c"
        /\ Lower[14] = "d" /\ Lower[15] = "e" /\ Lower[16] = "f"
    <2> DEFINE A == <<"A", "B", "C", "D", "E", "F">>
               a == <<"a", "b", "c", "d", "e", "f">>
             S == {Digits[i] : i \in 1..10} \cup {A[i] : i \in 1..6} \cup {a[i] : i \in 1..6}
    <2>1. /\ Digits \in Seq(S) /\ A \in Seq(S) /\ a \in Seq(S)
          /\ Len(A) = 6 /\ Len(a) = 6
          /\ A[1] = "A" /\ A[2] = "B" /\ A[3] = "C" /\ A[4] = "D" /\ A[5] = "E" /\ A[6] = "F"
          /\ a[1] = "a" /\ a[2] = "b" /\ a[3] = "c" /\ a[4] = "d" /\ a[5] = "e" /\ a[6] = "f"
      <3>1. Digits \in Seq({Digits[i] : i \in 1..10})
        BY <1>1 DEF Digits
      <3>2. A \in Seq({A[i] : i \in 1..6}) /\ a \in Seq({a[i] : i \in 1..6})
        OBVIOUS
      <3>3. /\ Len(A) = 6
            /\ A[1] = "A" /\ A[2] = "B" /\ A[3] = "C" /\ A[4] = "D" /\ A[5] = "E" /\ A[6] = "F"
        OBVIOUS
      <3>4. /\ Len(a) = 6
            /\ a[1] = "a" /\ a[2] = "b" /\ a[3] = "c" /\ a[4] = "d" /\ a[5] = "e" /\ a[6] = "f"
        OBVIOUS
      <3> HIDE DEF A, a
      <3>5. Digits \in Seq(S) /\ A \in Seq(S) /\ a \in Seq(S)
        BY <3>1, <3>2, SeqMonotonic
      <3> QED BY <3>3, <3>4, <3>5
    <2>2. Upper = Digits \o A /\ Lower = Digits \o a
      BY DEF Upper, Lower
    <2> HIDE DEF A, a, S
    <2>3. \A i \in 1..16 : /\ Upper[i] = IF i <= 10 THEN Digits[i] ELSE A[i - 10]
                          /\ Lower[i] = IF i <= 10 THEN Digits[i] ELSE a[i - 10]
      <3>1. Len(Digits) = 10 /\ 10 + 6 = 16
        BY <1>1
      <3>2. \A i \in 1..(10 + 6) : Upper[i] = IF i <= 10 THEN Digits[i] ELSE A[i - 10]
        <4>1. \A i \in 1..(Len(Digits) + Len(A)) :
                (Digits \o A)[i] = IF i <= Len(Digits) THEN Digits[i] ELSE A[i - Len(Digits)]
          BY <2>1, ConcatProperties
        <4> QED BY <2>1, <2>2, <3>1, <4>1
      <3>3. \A i \in 1..(10 + 6) : Lower[i] = IF i <= 10 THEN Digits[i] ELSE a[i - 10]
        <4>1. \A i \in 1..(Len(Digits) + Len(a)) :
                (Digits \o a)[i] = IF i <= Len(Digits) THEN Digits[i] ELSE a[i - Len(Digits)]
          BY <2>1, ConcatProperties
        <4> QED BY <2>1, <2>2, <3>1, <4>1
      <3> QED BY <3>1, <3>2, <3>3
    <2> QED BY <2>1, <2>3
  <1> QED BY <1>1, <1>3

\* The digits of a base are different characters, and the first one is 0.
Alphabet(letters, base) ==
    /\ letters[1] = "0"
    /\ \A d, e \in 1..base : letters[d] = letters[e] => d = e

\* vsprintf's digits, in lower case and in upper case, are alphabets.
LEMMA Alphabets ==
    /\ \A base \in Bases : Alphabet(Upper, base) /\ Alphabet(Lower, base)
    /\ Alphabet(Digits, 10)
  <1>1. ASSUME NEW d \in 1..16
        PROVE  d \in {1, 2, 3, 4, 5, 6, 7, 8, 9, 10, 11, 12, 13, 14, 15, 16}
    OBVIOUS
  <1> DEFINE place(ch) ==
               CASE ch = "0" -> 1 [] ch = "1" -> 2 [] ch = "2" -> 3 [] ch = "3" -> 4
                 [] ch = "4" -> 5 [] ch = "5" -> 6 [] ch = "6" -> 7 [] ch = "7" -> 8
                 [] ch = "8" -> 9 [] ch = "9" -> 10
                 [] ch \in {"A", "a"} -> 11 [] ch \in {"B", "b"} -> 12 [] ch \in {"C", "c"} -> 13
                 [] ch \in {"D", "d"} -> 14 [] ch \in {"E", "e"} -> 15 [] ch \in {"F", "f"} -> 16
  <1>4. ASSUME NEW d \in 1..16
        PROVE  /\ place(Upper[d]) = d /\ place(Lower[d]) = d
               /\ d <= 10 => place(Digits[d]) = d
    <2>0. /\ place("0") = 1 /\ place("1") = 2 /\ place("2") = 3 /\ place("3") = 4
          /\ place("4") = 5 /\ place("5") = 6 /\ place("6") = 7 /\ place("7") = 8
          /\ place("8") = 9 /\ place("9") = 10
          /\ place("A") = 11 /\ place("B") = 12 /\ place("C") = 13
          /\ place("D") = 14 /\ place("E") = 15 /\ place("F") = 16
          /\ place("a") = 11 /\ place("b") = 12 /\ place("c") = 13
          /\ place("d") = 14 /\ place("e") = 15 /\ place("f") = 16
      OBVIOUS
    <2> HIDE DEF place
    <2>1. d <= 10 => /\ place(Digits[d]) = d
                     /\ Upper[d] = Digits[d] /\ Lower[d] = Digits[d]
      BY <1>1, LettersAre, <2>0
    <2>2. d > 10 => place(Upper[d]) = d /\ place(Lower[d]) = d
      BY <1>1, LettersAre, <2>0
    <2> QED BY <2>1, <2>2
  <1> HIDE DEF place
  <1>5. Alphabet(Upper, 16) /\ Alphabet(Lower, 16) /\ Alphabet(Digits, 10)
    <2>1. /\ Upper[1] = "0" /\ Lower[1] = "0" /\ Digits[1] = "0"
          /\ \A d \in 1..10 : d \in 1..16 /\ d <= 10
      BY LettersAre
    <2> QED BY <1>4, <2>1 DEF Alphabet
  <1>6. ASSUME NEW base \in Bases PROVE base \in 1..16
    BY DEF Bases
  <1> QED BY <1>5, <1>6 DEF Alphabet

\* The rank of a letter of an alphabet is the digit it stands for.
LEMMA RankIs ==
    ASSUME NEW base \in Nat, NEW letters, Alphabet(letters, base), NEW d \in 1..base
    PROVE  Rank(letters[d], base, letters) = d - 1
  <1> DEFINE e == CHOOSE e \in 1..base : letters[e] = letters[d]
  <1>1. e \in 1..base /\ letters[e] = letters[d]
    OBVIOUS
  <1>2. Rank(letters[d], base, letters) = e - 1
    BY DEF Rank
  <1> HIDE DEF e
  <1> QED BY <1>1, <1>2 DEF Alphabet

Letters(letters, base) == {letters[d] : d \in 1..base}

\* The digits of a number are read back as the number, and begin with a 0 only
\* if they are one digit.
DigitsRight(n, base, letters) ==
    LET text == DigitsOf(n, base, letters)
    IN  /\ text \in Seq(Letters(letters, base)) /\ Len(text) >= 1
        /\ Value(text, base, letters) = n
        /\ IF n = 0 THEN Len(text) = 1 ELSE text[1] # "0"

LEMMA DigitsRead ==
    ASSUME NEW base \in Bases, NEW letters, Alphabet(letters, base), NEW m \in Nat
    PROVE  DigitsRight(m, base, letters)
  <1> DEFINE F == {n \in Nat : ~ DigitsRight(n, base, letters)}
  <1> SUFFICES F = {}
    OBVIOUS
  <1> SUFFICES ASSUME F # {} PROVE FALSE
    OBVIOUS
  <1>1. PICK n \in F : \A k \in F : n <= k
    <2>1. F \in SUBSET Nat
      OBVIOUS
    <2> HIDE DEF F
    <2> QED BY <2>1, LeastElement
  <1>2. base \in Nat /\ base > 1 /\ n \in Nat
    BY <1>1 DEF Bases
  <1>3. ASSUME NEW k \in 0..(base - 1)
        PROVE  letters[k + 1] \in Letters(letters, base) /\ Rank(letters[k + 1], base, letters) = k
               /\ (k > 0 => letters[k + 1] # "0")
    <2>1. k + 1 \in 1..base /\ 1 \in 1..base
      BY <1>2
    <2>2. Rank(letters[k + 1], base, letters) = (k + 1) - 1
      BY <1>2, <2>1, RankIs
    <2> QED BY <2>1, <2>2 DEF Alphabet, Letters
  <1>5. CASE n < base
    <2> DEFINE ch == letters[n + 1]
    <2>1. ch \in Letters(letters, base) /\ Rank(ch, base, letters) = n
          /\ (n > 0 => ch # "0")
      BY <1>2, <1>3, <1>5
    <2>2. DigitsOf(n, base, letters) = <<ch>>
      BY <1>2, <1>5, DigitsAre
    <2> HIDE DEF ch
    <2>3. Value(<<ch>>, base, letters) = n
      <3>1. <<>> \in Seq(Letters(letters, base)) /\ Append(<<>>, ch) = <<ch>>
        OBVIOUS
      <3> DEFINE empty == <<>>
      <3>2. Value(empty, base, letters) = 0
        BY <2>1, <3>1, ValueAppend
      <3>4. Value(Append(empty, ch), base, letters) =
              Value(empty, base, letters) * base + Rank(ch, base, letters)
        <4>1. empty \in Seq(Letters(letters, base)) /\ ch \in Letters(letters, base)
          BY <2>1, <3>1
        <4> HIDE DEF empty
        <4> QED BY <4>1, ValueAppend
      <3>3. Value(<<ch>>, base, letters) = 0 * base + n
        BY <2>1, <3>1, <3>2, <3>4
      <3> QED BY <1>2, <3>3
    <2>4. DigitsRight(n, base, letters)
      BY <1>2, <2>1, <2>2, <2>3 DEF DigitsRight
    <2> QED BY <1>1, <2>4
  <1>6. CASE n >= base
    <2> DEFINE q == n \div base
               ch == letters[(n % base) + 1]
               t == DigitsOf(q, base, letters)
    <2>1. q \in Nat /\ q < n /\ q > 0 /\ n % base \in 0..(base - 1) /\ n = q * base + (n % base)
      BY <1>2, <1>6, Division
    <2>2. ch \in Letters(letters, base) /\ Rank(ch, base, letters) = n % base
      BY <1>3, <2>1
    <2>3. DigitsRight(q, base, letters)
      <3>1. q \in Nat /\ q \notin F
        BY <1>1, <2>1
      <3> HIDE DEF q
      <3> QED BY <3>1
    <2>4. DigitsOf(n, base, letters) = Append(t, ch)
      BY <1>2, <1>6, DigitsAre
    <2>5. t \in Seq(Letters(letters, base)) /\ Len(t) >= 1 /\ Value(t, base, letters) = q /\ t[1] # "0"
      BY <2>1, <2>3 DEF DigitsRight
    <2> HIDE DEF q, ch, t
    <2>7. Value(Append(t, ch), base, letters) = n
      <3>1. Value(Append(t, ch), base, letters) = q * base + (n % base)
        BY <2>2, <2>5, ValueAppend
      <3> QED BY <2>1, <3>1
    <2>8. Append(t, ch) \in Seq(Letters(letters, base)) /\ Len(Append(t, ch)) >= 1
          /\ Append(t, ch)[1] # "0"
      <3>1. Len(Append(t, ch)) = Len(t) + 1 /\ Append(t, ch)[1] = t[1]
            /\ Append(t, ch) \in Seq(Letters(letters, base))
        BY <2>2, <2>5, AppendProperties
      <3> QED BY <2>5, <3>1
    <2>9. DigitsRight(n, base, letters)
      BY <1>2, <2>1, <2>4, <2>7, <2>8 DEF DigitsRight
    <2> QED BY <1>1, <2>9
  <1> QED BY <1>2, <1>5, <1>6
-----------------------------------------------------------------------------
(* Texts put together. *)

\* A part of a text, character by character.
LEMMA PartIs ==
    ASSUME NEW S, NEW s \in Seq(S), NEW m \in Nat, NEW n \in Nat, NEW t \in Seq(S),
           m + Len(t) = n, n <= Len(s), \A k \in 1..Len(t) : s[m + k] = t[k]
    PROVE  SubSeq(s, m + 1, n) = t
  <1> DEFINE u == SubSeq(s, m + 1, n)
  <1>1. /\ \A i \in (m + 1)..n : s[i] \in S
        /\ Len(t) \in Nat /\ n - (m + 1) + 1 = Len(t) /\ n - m = Len(t)
    <2>1. \A i \in 1..Len(s) : s[i] \in S
      BY ElementOfSeq
    <2> QED BY <2>1, LenProperties
  <1>2. /\ u \in Seq(S) /\ Len(u) = IF m + 1 <= n THEN n - (m + 1) + 1 ELSE 0
        /\ \A i \in 1..(n - (m + 1) + 1) : u[i] = s[m + 1 + i - 1]
    <2> DEFINE a == m + 1
    <2>1. a \in Int /\ n \in Int /\ \A i \in a..n : s[i] \in S
      BY <1>1
    <2> HIDE DEF a
    <2>2. /\ SubSeq(s, a, n) \in Seq(S)
          /\ Len(SubSeq(s, a, n)) = IF a <= n THEN n - a + 1 ELSE 0
          /\ \A i \in 1..(n - a + 1) : SubSeq(s, a, n)[i] = s[a + i - 1]
      BY SMTT(60), <2>1, SubSeqProperties
    <2> QED BY <2>2 DEF a
  <1>3. Len(u) = Len(t)
    BY <1>1, <1>2
  <1>4. \A i \in 1..Len(t) : u[i] = t[i]
    <2> TAKE i \in 1..Len(t)
    <2>1. m + 1 + i - 1 = m + i
      BY <1>1
    <2> QED BY <1>1, <1>2, <2>1
  <1> HIDE DEF u
  <1>5. u = t
    BY <1>2, <1>3, <1>4, SeqEqual
  <1> QED BY <1>5 DEF u

\* The parts a text was put together from.
LEMMA PartsOf ==
    ASSUME NEW S, NEW s \in Seq(S), NEW t \in Seq(S)
    PROVE  /\ SubSeq(s \o t, 1, Len(s)) = s
           /\ SubSeq(s \o t, Len(s) + 1, Len(s \o t)) = t
           /\ IsPrefix(s, s \o t) /\ IsSuffix(t, s \o t)
  <1> DEFINE u == s \o t
  <1>1. /\ u \in Seq(S) /\ Len(u) = Len(s) + Len(t) /\ Len(s) \in Nat /\ Len(t) \in Nat
        /\ \A k \in 1..(Len(s) + Len(t)) : u[k] = IF k <= Len(s) THEN s[k] ELSE t[k - Len(s)]
    BY ConcatProperties, LenProperties
  <1> HIDE DEF u
  <1>2. SubSeq(u, 1, Len(s)) = s
    <2>1. 0 \in Nat /\ 0 + Len(s) = Len(s) /\ 0 + 1 = 1 /\ Len(s) <= Len(u)
          /\ \A k \in 1..Len(s) : u[0 + k] = s[k]
      BY <1>1
    <2>2. SubSeq(u, 0 + 1, Len(s)) = s
      BY <1>1, <2>1, PartIs
    <2> QED BY <2>1, <2>2
  <1>3. SubSeq(u, Len(s) + 1, Len(u)) = t
    <2>1. \A k \in 1..Len(t) : u[Len(s) + k] = t[k]
      BY SMTT(60), <1>1
    <2> QED BY <1>1, <2>1, PartIs
  <1>4. IsPrefix(s, u)
    BY <1>1, <1>2, SubSeqFull DEF IsPrefix
  <1>5. IsSuffix(t, u)
    <2> DEFINE a == Reverse(t)
               b == Reverse(u)
    <2>1. /\ a = [i \in 1..Len(t) |-> t[Len(t) - i + 1]]
          /\ b = [i \in 1..Len(u) |-> u[Len(u) - i + 1]]
      BY DEF Reverse
    <2> HIDE DEF a, b
    <2>2. a \in Seq(S) /\ Len(a) = Len(t) /\ b \in Seq(S) /\ Len(b) = Len(u)
      <3>1. \A i \in 1..Len(t) : t[Len(t) - i + 1] \in S
        BY <1>1, ElementOfSeq
      <3>2. \A i \in 1..Len(u) : u[Len(u) - i + 1] \in S
        BY <1>1, ElementOfSeq
      <3> QED BY <1>1, <2>1, <3>1, <3>2, IsASeq
    <2>3. \A k \in 1..Len(t) : b[0 + k] = a[k]
      BY <1>1, <2>1
    <2>4. SubSeq(b, 0 + 1, Len(t)) = a
      BY <1>1, <2>2, <2>3, PartIs
    <2>5. SubSeq(b, 1, Len(a)) = SubSeq(a, 1, Len(a)) /\ Len(a) <= Len(b)
      BY <1>1, <2>2, <2>4, SubSeqFull
    <2> QED BY <2>5 DEF IsSuffix, IsPrefix, a, b
  <1> QED BY <1>2, <1>3, <1>4, <1>5 DEF u

\* Three texts, one behind the other.
Chain(s, t) == s \o t

LEMMA Regrouped ==
    ASSUME NEW S, NEW s \in Seq(S), NEW t \in Seq(S), NEW u \in Seq(S)
    PROVE  Chain(Chain(s, t), u) = Chain(s, Chain(t, u))
  BY ConcatAssociative DEF Chain

\* A text behind another may be put there character by character.
LEMMA ConcatAppend ==
    ASSUME NEW S, NEW s \in Seq(S), NEW t \in Seq(S), NEW e \in S
    PROVE  s \o Append(t, e) = Append(s \o t, e)
  <1>1. <<e>> \in Seq(S) /\ s \o t \in Seq(S)
    BY ConcatProperties
  <1>2. Append(t, e) = t \o <<e>> /\ Append(s \o t, e) = (s \o t) \o <<e>>
    BY <1>1, AppendIsConcat
  <1> QED BY <1>1, <1>2, ConcatAssociative

\* A text that stands behind texts of equal values makes texts of equal values.
LEMMA ValueBehind ==
    ASSUME NEW S, NEW s \in Seq(S), NEW r \in Seq(S), NEW t \in Seq(S), NEW base, NEW letters,
           Value(s, base, letters) = Value(r, base, letters)
    PROVE  Value(s \o t, base, letters) = Value(r \o t, base, letters)
  <1> DEFINE N == {n \in Nat : \A u \in Seq(S) : Len(u) = n =>
                     Value(s \o u, base, letters) = Value(r \o u, base, letters)}
  <1>1. 0 \in N
    <2> SUFFICES ASSUME NEW u \in Seq(S), Len(u) = 0
                 PROVE  Value(s \o u, base, letters) = Value(r \o u, base, letters)
      OBVIOUS
    <2>1. u = <<>>
      BY EmptySeq
    <2>2. s \o u = s /\ r \o u = r
      BY <2>1, ConcatEmptySeq
    <2> QED BY <2>2
  <1>2. ASSUME NEW n \in Nat, n \in N PROVE n + 1 \in N
    <2> SUFFICES ASSUME NEW u \in Seq(S), Len(u) = n + 1
                 PROVE  Value(s \o u, base, letters) = Value(r \o u, base, letters)
      OBVIOUS
    <2>1. PICK v \in Seq(S), e \in S : u = Append(v, e)
      <3>1. u # <<>>
        BY EmptySeq
      <3> QED BY <3>1, SequenceEmptyOrAppend
    <2>2. Len(v) = n
      BY <2>1, AppendProperties, LenProperties
    <2>3. Value(s \o v, base, letters) = Value(r \o v, base, letters)
      BY <1>2, <2>2
    <2>4. /\ s \o u = Append(s \o v, e) /\ r \o u = Append(r \o v, e)
          /\ s \o v \in Seq(S) /\ r \o v \in Seq(S)
      BY SMTT(60), <2>1, ConcatAppend, ConcatProperties
    <2> DEFINE a == s \o v
               b == r \o v
    <2>5. a \in Seq(S) /\ b \in Seq(S) /\ e \in S
      BY <2>4
    <2> HIDE DEF a, b
    <2>6. Value(Append(a, e), base, letters) = Value(a, base, letters) * base + Rank(e, base, letters)
      BY <2>5, ValueAppend
    <2>7. Value(Append(b, e), base, letters) = Value(b, base, letters) * base + Rank(e, base, letters)
      BY <2>5, ValueAppend
    <2>8. s \o u = Append(a, e) /\ r \o u = Append(b, e)
          /\ Value(a, base, letters) = Value(b, base, letters)
      BY <2>3, <2>4 DEF a, b
    <2> QED BY <2>6, <2>7, <2>8
  <1> HIDE DEF N
  <1>3. Nat \subseteq N
    BY <1>1, <1>2, Induction
  <1>4. Len(t) \in N
    BY <1>3, LenProperties
  <1> QED BY <1>4 DEF N

\* Copies of a character, as a text.
LEMMA CopiesAre ==
    ASSUME NEW ch, NEW n \in Int
    PROVE  /\ Copies(ch, n) \in Seq({ch})
           /\ Len(Copies(ch, n)) = IF n <= 0 THEN 0 ELSE n
           /\ \A k \in 1..n : Copies(ch, n)[k] = ch
           /\ n <= 0 => Copies(ch, n) = <<>>
  BY DEF Copies

\* Zeros in front of a number do not change it.
LEMMA ValueZeros ==
    ASSUME NEW S, "0" \in S, NEW t \in Seq(S), NEW base \in Nat, base > 0, NEW letters,
           Alphabet(letters, base), NEW z \in Int
    PROVE  Value(Copies("0", z) \o t, base, letters) = Value(t, base, letters)
  <1> DEFINE N == {n \in Nat : Value(Copies("0", n), base, letters) = 0}
             ch == "0"
  <1>0. /\ Value(<<>>, base, letters) = 0 /\ ch \in {ch} /\ <<>> \in Seq({ch}) /\ <<>> \in Seq(S)
        /\ Rank(ch, base, letters) = 0
    <2>1. Rank(letters[1], base, letters) = 1 - 1
      BY RankIs
    <2>2. <<>> \in Seq({ch}) /\ <<>> \in Seq(S)
      OBVIOUS
    <2>3. Value(<<>>, base, letters) = 0
      <3> DEFINE e == <<>>
      <3>1. e \in Seq({ch}) /\ ch \in {ch}
        OBVIOUS
      <3> HIDE DEF ch
      <3> QED BY <3>1, ValueAppend
    <2> QED BY <2>1, <2>2, <2>3 DEF Alphabet
  <1>1. 0 \in N
    <2>1. Copies("0", 0) = <<>>
      BY DEF Copies
    <2> QED BY <1>0, <2>1
  <1>2. ASSUME NEW n \in Nat, n \in N PROVE n + 1 \in N
    <2> DEFINE c == Copies(ch, n)
    <2>1. c \in Seq({ch}) /\ Len(c) = n /\ \A k \in 1..n : c[k] = ch
      <3>1. n \in Int /\ (IF n <= 0 THEN 0 ELSE n) = n
        OBVIOUS
      <3> HIDE DEF ch
      <3> QED BY <3>1, CopiesAre
    <2>2. Copies(ch, n + 1) = Append(c, ch)
      <3>1. Append(c, ch) \in Seq({ch}) /\ Len(Append(c, ch)) = n + 1
            /\ \A k \in 1..(n + 1) : Append(c, ch)[k] = ch
        BY <2>1, AppendProperties
      <3>2. Copies(ch, n + 1) \in Seq({ch}) /\ Len(Copies(ch, n + 1)) = n + 1
            /\ \A k \in 1..(n + 1) : Copies(ch, n + 1)[k] = ch
        <4>1. n + 1 \in Int /\ (IF n + 1 <= 0 THEN 0 ELSE n + 1) = n + 1
          OBVIOUS
        <4> HIDE DEF ch
        <4> QED BY <4>1, CopiesAre
      <3> HIDE DEF c, ch
      <3> QED BY <3>1, <3>2, SeqEqual
    <2>3. Value(c, base, letters) = 0
      BY <1>2
    <2>4. Value(Append(c, ch), base, letters) = 0 * base + 0
      <3>1. c \in Seq({ch}) /\ ch \in {ch}
        BY <2>1
      <3> HIDE DEF c, ch
      <3>2. Value(Append(c, ch), base, letters) = Value(c, base, letters) * base + Rank(ch, base, letters)
        BY <3>1, ValueAppend
      <3>3. Value(c, base, letters) = 0 /\ Rank(ch, base, letters) = 0
        BY <1>0, <2>3
      <3> QED BY <3>2, <3>3
    <2>5. 0 * base + 0 = 0
      OBVIOUS
    <2> HIDE DEF c
    <2>6. Value(Copies("0", n + 1), base, letters) = 0
      BY <2>2, <2>4, <2>5
    <2> QED BY <2>6
  <1> HIDE DEF N, ch
  <1>3. Nat \subseteq N
    BY <1>1, <1>2, Induction
  <1> DEFINE c == Copies("0", z)
  <1>4. Value(c, base, letters) = 0
    <2>1. CASE z <= 0
      BY <1>0, <2>1 DEF Copies
    <2>2. CASE z > 0
      BY <1>3, <2>2 DEF N
    <2> QED BY <2>1, <2>2
  <1>5. c \in Seq(S)
    <2>1. c \in Seq({"0"})
      BY CopiesAre
    <2> HIDE DEF c
    <2> QED BY <2>1, SeqMonotonic
  <1> HIDE DEF c
  <1>6. Value(c \o t, base, letters) = Value(<<>> \o t, base, letters)
    <2> DEFINE e == <<>>
    <2>1. e \in Seq(S) /\ Value(c, base, letters) = Value(e, base, letters)
      BY <1>0, <1>4
    <2> HIDE DEF e
    <2>2. Value(c \o t, base, letters) = Value(e \o t, base, letters)
      BY <1>5, <2>1, ValueBehind
    <2> QED BY <2>2 DEF e
  <1>7. <<>> \o t = t
    BY ConcatEmptySeq
  <1> QED BY <1>6, <1>7 DEF c

(* Numbers in their fields. *)

NLeft(d)  == "-" \in d.flags
NBare(d)  == d.conv = "p" /\ d.width = -1
NWidth(d) == IF NBare(d) THEN 8 ELSE d.width
NZeros(d) == ~ NLeft(d) /\ ("0" \in d.flags \/ NBare(d))
NSign(d)  == IF Negative(d) THEN <<"-">>
             ELSE IF "+" \in d.flags THEN <<"+">>
             ELSE IF Blank \in d.flags THEN <<Blank>> ELSE <<>>
NPrefix(d) == CASE "#" \in d.flags /\ d.conv = "o" -> <<"0">>
                [] "#" \in d.flags /\ d.conv = "x" -> <<"0", "x">>
                [] "#" \in d.flags /\ d.conv \in {"X", "p"} -> <<"0", "X">>
                [] OTHER -> <<>>
NHead(d)  == NSign(d) \o NPrefix(d)
NWhole(d) == IF d.conv = "f" THEN 8 ELSE 1
NExact(d, digits) == Len(digits) = Max({NWhole(d), d.precision}) \/ Head(digits) # "0"

\* The lengths and parts of a text that is put together from four.
Parts(S, b, h, g, e, body, front, text) ==
    /\ text \in Seq(S) /\ Len(body) = Len(h) + Len(g)
    /\ Len(front) = Len(b) + Len(body) /\ Len(text) = Len(front) + Len(e)
    /\ Len(b) \in Nat /\ Len(h) \in Nat /\ Len(g) \in Nat /\ Len(e) \in Nat
    /\ SubSeq(body, Len(h) + 1, Len(body)) = g /\ IsPrefix(h, body)
    /\ SubSeq(text, 1, Len(b)) = b
    /\ SubSeq(text, Len(b) + 1, Len(front)) = body
    /\ SubSeq(text, Len(front) + 1, Len(text)) = e

LEMMA FourParts ==
    ASSUME NEW S, NEW b \in Seq(S), NEW h \in Seq(S), NEW g \in Seq(S), NEW e \in Seq(S),
           NEW body, body = h \o g, NEW front, front = b \o body, NEW text, text = front \o e
    PROVE  Parts(S, b, h, g, e, body, front, text)
  <1>1. Len(b) \in Nat /\ Len(h) \in Nat /\ Len(g) \in Nat /\ Len(e) \in Nat
    BY LenProperties
  <1>2. /\ body \in Seq(S) /\ Len(body) = Len(h) + Len(g)
        /\ SubSeq(body, Len(h) + 1, Len(body)) = g /\ IsPrefix(h, body)
    BY ConcatProperties, PartsOf
  <1>3. /\ front \in Seq(S) /\ Len(front) = Len(b) + Len(body)
        /\ \A k \in 1..(Len(b) + Len(body)) :
             front[k] = IF k <= Len(b) THEN b[k] ELSE body[k - Len(b)]
    BY <1>2, ConcatProperties
  <1>4. /\ text \in Seq(S) /\ Len(text) = Len(front) + Len(e)
        /\ \A k \in 1..(Len(front) + Len(e)) :
             text[k] = IF k <= Len(front) THEN front[k] ELSE e[k - Len(front)]
    BY <1>3, ConcatProperties
  <1>5. SubSeq(text, Len(front) + 1, Len(text)) = e
    BY <1>3, <1>4, PartsOf
  <1>6. /\ \A k \in 1..Len(b) : text[0 + k] = b[k]
        /\ \A k \in 1..Len(body) : text[Len(b) + k] = body[k]
    BY <1>1, <1>2, <1>3, <1>4
  <1>7. SubSeq(text, 0 + 1, Len(b)) = b
    <2>1. 0 \in Nat /\ 0 + Len(b) = Len(b) /\ Len(b) <= Len(text)
      BY <1>1, <1>2, <1>3, <1>4
    <2> QED BY <1>1, <1>4, <1>6, <2>1, PartIs
  <1>8. SubSeq(text, Len(b) + 1, Len(front)) = body
    <2>1. Len(b) + Len(body) = Len(front) /\ Len(front) <= Len(text) /\ Len(front) \in Nat
      BY <1>1, <1>2, <1>3, <1>4
    <2>2. text \in Seq(S) /\ body \in Seq(S) /\ Len(b) \in Nat
          /\ \A k \in 1..Len(body) : text[Len(b) + k] = body[k]
      BY <1>1, <1>2, <1>4, <1>6
    <2> QED BY SMTT(60), <2>1, <2>2, PartIs
  <1>9. 0 + 1 = 1
    OBVIOUS
  <1> QED BY <1>1, <1>2, <1>3, <1>4, <1>5, <1>7, <1>8, <1>9 DEF Parts

\* Blanks, sign, prefix, digits and blanks are a numeral.
LEMMA NumeralShape ==
    ASSUME NEW d, NEW S, NEW b \in Seq(S), NEW g \in Seq(S), NEW e \in Seq(S),
           NEW h \in Seq(S), h = NHead(d), NEW body, NEW front, NEW text,
           Parts(S, b, h, g, e, body, front, text),
           Blanks(b), Blanks(e),
           Len(b) > 0 => ~ NLeft(d) /\ ~ NZeros(d), Len(e) > 0 => NLeft(d),
           ReadsBack(d, g), Len(g) >= d.precision,
           NEW n, n = Len(b) + (Len(h) + Len(g)) + Len(e),
           NExact(d, g) \/ (NZeros(d) /\ n = NWidth(d)),
           n >= NWidth(d),
           n > NWidth(d) => Len(b) = 0 /\ Len(e) = 0 /\ NExact(d, g)
    PROVE  IsNumeral(d, text)
  <1> DEFINE i == Len(b)
             j == Len(front)
  <1>1. /\ text \in Seq(S) /\ Len(body) = Len(h) + Len(g)
        /\ Len(front) = Len(b) + Len(body) /\ Len(text) = Len(front) + Len(e)
        /\ Len(b) \in Nat /\ Len(h) \in Nat /\ Len(g) \in Nat /\ Len(e) \in Nat
        /\ SubSeq(body, Len(h) + 1, Len(body)) = g /\ IsPrefix(h, body)
        /\ SubSeq(text, 1, Len(b)) = b
        /\ SubSeq(text, Len(b) + 1, Len(front)) = body
        /\ SubSeq(text, Len(front) + 1, Len(text)) = e
    BY DEF Parts
  <1>6. i \in 0..Len(text) /\ j \in i..Len(text)
    BY <1>1
  <1>y. n = Len(text)
    BY <1>1
  <1>7. /\ i > 0 => ~ NLeft(d) /\ ~ NZeros(d)
        /\ j < Len(text) => NLeft(d)
        /\ NExact(d, g) \/ (NZeros(d) /\ Len(text) = NWidth(d))
        /\ Len(text) >= NWidth(d)
        /\ Len(text) > NWidth(d) => i = 0 /\ j = Len(text) /\ NExact(d, g)
    <2>1. (j < Len(text) => Len(e) > 0) /\ (Len(e) = 0 => j = Len(text))
      <3>1. Len(text) = Len(front) + Len(e) /\ Len(e) \in Nat /\ Len(front) \in Nat
        BY <1>1
      <3> QED BY <3>1
    <2> QED BY <1>y, <2>1
  <1>8. IsNumeral(d, text)
    <2> DEFINE cut == SubSeq(text, i + 1, j)
               digits == SubSeq(cut, Len(h) + 1, Len(cut))
    <2>1. cut = body /\ digits = g
      BY <1>1
    <2>2. /\ Blanks(SubSeq(text, 1, i)) /\ Blanks(SubSeq(text, j + 1, Len(text)))
          /\ i > 0 => ~ NLeft(d) /\ ~ NZeros(d)
          /\ j < Len(text) => NLeft(d)
          /\ IsPrefix(h, cut) /\ ReadsBack(d, digits)
          /\ Len(digits) >= d.precision
          /\ NExact(d, digits) \/ (NZeros(d) /\ Len(text) = NWidth(d))
          /\ Len(text) >= NWidth(d)
          /\ Len(text) > NWidth(d) => i = 0 /\ j = Len(text) /\ NExact(d, digits)
      BY <1>1, <1>7, <2>1
    <2> HIDE DEF i, j
    <2> QED BY <1>6, <2>2 DEF IsNumeral, NLeft, NZeros, NWidth, NBare, NHead, NSign, NPrefix,
                              NExact, NWhole
  <1> QED BY <1>8

\* The least element of a set of numbers is any element no larger than the
\* others.
LEMMA MinIs ==
    ASSUME NEW S \in SUBSET Int, NEW x \in S, \A y \in S : x <= y
    PROVE  Min(S) = x
PROOF
  <1>1. \E z \in S : \A y \in S : z =< y
    OBVIOUS
  <1>2. /\ Min(S) \in S
        /\ \A y \in S : Min(S) =< y
    BY <1>1 DEF Min
  <1>3. Min(S) \in Int /\ x \in Int /\ x <= Min(S) /\ Min(S) <= x
    BY <1>2
  <1>. QED  BY <1>3

\* And the greatest one is any element no smaller.
LEMMA MaxIs ==
    ASSUME NEW S \in SUBSET Int, NEW x \in S, \A y \in S : x >= y
    PROVE  Max(S) = x
PROOF
  <1>1. \E z \in S : \A y \in S : z >= y
    OBVIOUS
  <1>2. /\ Max(S) \in S
        /\ \A y \in S : Max(S) >= y
    BY <1>1 DEF Max
  <1>3. Max(S) \in Int /\ x \in Int /\ x >= Max(S) /\ Max(S) >= x
    BY <1>2
  <1>. QED  BY <1>3

\* Copies behind copies.
Both(a, b) == (IF a <= 0 THEN 0 ELSE a) + (IF b <= 0 THEN 0 ELSE b)

LEMMA CopiesConcat ==
    ASSUME NEW ch, NEW a \in Int, NEW b \in Int
    PROVE  Copies(ch, a) \o Copies(ch, b) = Copies(ch, Both(a, b)) /\ Both(a, b) \in Int
  <1> DEFINE n == Both(a, b)
  <1>0. n \in Int /\ n = (IF a <= 0 THEN 0 ELSE a) + (IF b <= 0 THEN 0 ELSE b)
    BY DEF Both
  <1> DEFINE s == Copies(ch, a)
             t == Copies(ch, b)
             u == Copies(ch, n)
  <1>1. /\ s \in Seq({ch}) /\ Len(s) = IF a <= 0 THEN 0 ELSE a
        /\ t \in Seq({ch}) /\ Len(t) = IF b <= 0 THEN 0 ELSE b
        /\ u \in Seq({ch}) /\ Len(u) = IF n <= 0 THEN 0 ELSE n
    BY <1>0, CopiesAre
  <1> HIDE DEF s, t, u, n
  <1>2. s \o t \in Seq({ch}) /\ Len(s \o t) = Len(s) + Len(t)
    BY <1>1, ConcatProperties
  <1>3. Len(s \o t) = Len(u)
    BY <1>0, <1>1, <1>2
  <1> DEFINE v == s \o t
  <1>4. \A i \in 1..Len(v) : v[i] = u[i]
    <2> TAKE i \in 1..Len(v)
    <2>1. v[i] \in {ch} /\ u[i] \in {ch}
      BY <1>1, <1>2, <1>3, ElementOfSeq
    <2> QED BY <2>1
  <1> HIDE DEF v
  <1>5. v = u
    BY <1>1, <1>2, <1>3, <1>4, SeqEqual DEF v
  <1> QED BY <1>0, <1>5 DEF v, s, t, u, n

\* Whatever zeros stand in front of the digits, they say what they should.
Readable(d, tmp) == \A z \in Int : ReadsBack(d, Copies("0", z) \o tmp)

IsBody(d, S, body) == /\ body \in Seq(S) /\ ReadsBack(d, body)
                      /\ Len(body) >= d.precision /\ NExact(d, body)

\* The digits with their least number of them.
LEMMA BodyIs ==
    ASSUME NEW d, NEW S, "0" \in S, NEW tmp \in Seq(S), d.precision \in Int,
           Readable(d, tmp), Len(tmp) >= NWhole(d),
           Len(tmp) = NWhole(d) \/ Head(tmp) # "0"
    PROVE  IsBody(d, S, Copies("0", d.precision - Len(tmp)) \o tmp)
  <1> DEFINE zeros == Copies("0", d.precision - Len(tmp))
             body == zeros \o tmp
  <1>1. Len(tmp) \in Nat /\ d.precision - Len(tmp) \in Int /\ NWhole(d) \in Nat
    BY LenProperties DEF NWhole
  <1>2. zeros \in Seq(S) /\ Len(zeros) = IF d.precision - Len(tmp) <= 0 THEN 0 ELSE d.precision - Len(tmp)
    <2>1. zeros \in Seq({"0"}) /\ Len(zeros) = IF d.precision - Len(tmp) <= 0 THEN 0 ELSE d.precision - Len(tmp)
      BY <1>1, CopiesAre
    <2> HIDE DEF zeros
    <2> QED BY <2>1, SeqMonotonic
  <1> HIDE DEF zeros
  <1>3. body \in Seq(S) /\ Len(body) = Len(zeros) + Len(tmp)
    BY <1>2, ConcatProperties
  <1>4. ReadsBack(d, body)
    BY <1>1 DEF Readable, zeros
  <1> HIDE DEF body
  <1>5. Len(body) >= d.precision
    BY <1>1, <1>2, <1>3
  <1>6. NExact(d, body)
    <2>1. CASE d.precision > Len(tmp)
      <3>1. Len(body) = d.precision
        BY <1>1, <1>2, <1>3, <2>1
      <3>2. Max({NWhole(d), d.precision}) = d.precision
        <4>1. {NWhole(d), d.precision} \in SUBSET Int
              /\ d.precision \in {NWhole(d), d.precision}
              /\ \A y \in {NWhole(d), d.precision} : d.precision >= y
          BY <1>1, <2>1
        <4> QED BY <4>1, MaxIs
      <3> QED BY <3>1, <3>2 DEF NExact
    <2>2. CASE ~ d.precision > Len(tmp)
      <3>1. body = tmp
        <4>1. zeros = <<>>
          BY <1>1, <2>2 DEF Copies, zeros
        <4> QED BY <4>1, ConcatEmptySeq DEF body
      <3>2. Len(tmp) = NWhole(d) => Max({NWhole(d), d.precision}) = NWhole(d)
        <4>1. Len(tmp) = NWhole(d) =>
              {NWhole(d), d.precision} \in SUBSET Int
              /\ NWhole(d) \in {NWhole(d), d.precision}
              /\ \A y \in {NWhole(d), d.precision} : NWhole(d) >= y
          BY <1>1, <2>2
        <4> QED BY <4>1, MaxIs
      <3> QED BY <3>1, <3>2 DEF NExact
    <2> QED BY <2>1, <2>2
  <1> QED BY <1>2, <1>3, <1>4, <1>5, <1>6 DEF IsBody, body, zeros

\* Blanks, a head, digits and blanks that are a numeral put together.
Fits(d, b, h, g, e) ==
    LET n == Len(b) + (Len(h) + Len(g)) + Len(e)
    IN  /\ h = NHead(d) /\ Blanks(b) /\ Blanks(e)
        /\ Len(b) > 0 => ~ NLeft(d) /\ ~ NZeros(d)
        /\ Len(e) > 0 => NLeft(d)
        /\ ReadsBack(d, g) /\ Len(g) >= d.precision
        /\ NExact(d, g) \/ (NZeros(d) /\ n = NWidth(d))
        /\ n >= NWidth(d)
        /\ n > NWidth(d) => Len(b) = 0 /\ Len(e) = 0 /\ NExact(d, g)

LEMMA NumeralFrom ==
    ASSUME NEW d, NEW S, NEW b \in Seq(S), NEW h \in Seq(S), NEW g \in Seq(S), NEW e \in Seq(S),
           Fits(d, b, h, g, e)
    PROVE  IsNumeral(d, (b \o (h \o g)) \o e)
  <1> DEFINE body == h \o g
             front == b \o body
             text == front \o e
             n == Len(b) + (Len(h) + Len(g)) + Len(e)
  <1>1. Parts(S, b, h, g, e, body, front, text)
    <2>1. body = h \o g /\ front = b \o body /\ text = front \o e
      OBVIOUS
    <2> HIDE DEF body, front, text
    <2> QED BY <2>1, FourParts
  <1>2. /\ h = NHead(d) /\ Blanks(b) /\ Blanks(e)
        /\ Len(b) > 0 => ~ NLeft(d) /\ ~ NZeros(d)
        /\ Len(e) > 0 => NLeft(d)
        /\ ReadsBack(d, g) /\ Len(g) >= d.precision
        /\ NExact(d, g) \/ (NZeros(d) /\ n = NWidth(d))
        /\ n >= NWidth(d)
        /\ n > NWidth(d) => Len(b) = 0 /\ Len(e) = 0 /\ NExact(d, g)
    BY DEF Fits
  <1>3. n = Len(b) + (Len(h) + Len(g)) + Len(e)
    OBVIOUS
  <1> HIDE DEF body, front, text, n
  <1>4. IsNumeral(d, text)
    BY <1>1, <1>2, <1>3, NumeralShape
  <1> QED BY <1>4 DEF text, front, body

\* A text of blanks alone.
LEMMA BlanksAre ==
    ASSUME NEW n \in Int
    PROVE  Blanks(Copies(Blank, n)) /\ Blanks(<<>>)
  <1>1. Blanks(<<>>)
    <2> DEFINE none == <<>>
    <2>1. Len(none) = 0
      OBVIOUS
    <2> HIDE DEF none
    <2>2. Blanks(none)
      BY <2>1 DEF Blanks
    <2> QED BY <2>2 DEF none
  <1>2. Blanks(Copies(Blank, n))
    <2>1. CASE n <= 0
      BY <1>1, <2>1 DEF Copies
    <2>2. CASE n > 0
      <3> DEFINE ch == Blank
                 c  == Copies(ch, n)
      <3>1. Len(c) = n /\ \A k \in 1..n : c[k] = ch
        <4> HIDE DEF ch
        <4>1. /\ Len(Copies(ch, n)) = IF n <= 0 THEN 0 ELSE n
              /\ \A k \in 1..n : Copies(ch, n)[k] = ch
          BY CopiesAre
        <4> QED BY <2>2, <4>1
      <3> HIDE DEF c
      <3>2. Blanks(c)
        BY <3>1 DEF Blanks
      <3> QED BY <3>2 DEF c
    <2> QED BY <2>1, <2>2
  <1> QED BY <1>1, <1>2

\* Copies of a blank or of a zero are text.
LEMMA CopiesLie ==
    ASSUME NEW S, NEW ch \in S, NEW n \in Int
    PROVE  Copies(ch, n) \in Seq(S) /\ Len(Copies(ch, n)) = IF n <= 0 THEN 0 ELSE n
  <1>1. Copies(ch, n) \in Seq({ch}) /\ Len(Copies(ch, n)) = IF n <= 0 THEN 0 ELSE n
    BY CopiesAre
  <1> DEFINE c == Copies(ch, n)
  <1> HIDE DEF c
  <1>2. c \in Seq({ch}) /\ {ch} \subseteq S
    BY <1>1 DEF c
  <1>3. c \in Seq(S)
    BY <1>2, SeqMonotonic
  <1> QED BY <1>1, <1>3 DEF c

(* Numbers that an int holds. *)

\* The largest int.
LEMMA IntBounds == /\ MaxInt \in Nat /\ MaxInt >= 127 /\ WordSize \in Nat
                   /\ 2 * MaxInt + 2 <= WordSize /\ WordSize <= 2 * MaxInt + 3
                   /\ WordSize \div 2 = MaxInt + 1
  BY WordSizeAssumption DEF MaxInt

\* What an int holds, it keeps.
LEMMA WrapKeeps ==
    ASSUME NEW n \in Int, - (MaxInt + 1) <= n, n <= MaxInt
    PROVE  Wrap(n) = n
  <1> DEFINE W == WordSize
             r == n % W
             q == n \div W
             half == W \div 2
  <1>1. W \in Nat /\ W > 0 /\ half = MaxInt + 1 /\ 2 * MaxInt + 2 <= W /\ MaxInt \in Nat
    BY IntBounds
  <1>2. q \in Int /\ r \in Int /\ 0 <= r /\ r < W /\ n = W * q + r
    <2> HIDE DEF W
    <2> QED BY <1>1
  <1> HIDE DEF W, r, q, half
  <1>3. q <= 0
    <2> SUFFICES ASSUME q >= 1 PROVE FALSE
      BY <1>2
    <2>1. W * q >= W
      BY <1>1, <1>2
    <2> QED BY <1>1, <1>2, <2>1
  <1>4. q >= -1
    <2> SUFFICES ASSUME q <= -2 PROVE FALSE
      BY <1>2
    <2>1. W * q <= W * (-2)
      BY <1>1, <1>2
    <2> QED BY <1>1, <1>2, <2>1
  <1>5. r = IF n >= 0 THEN n ELSE n + W
    <2>1. q = 0 \/ q = -1
      BY <1>2, <1>3, <1>4
    <2>2. CASE q = 0
      BY <1>1, <1>2, <2>2
    <2>3. CASE q = -1
      <3>1. W * q = - W
        BY <1>1, <2>3
      <3> QED BY <1>1, <1>2, <3>1
    <2> QED BY <2>1, <2>2, <2>3
  <1>6. Wrap(n) = IF r >= half THEN r - W ELSE r
    BY DEF Wrap, Int32, r, W, half
  <1> QED BY <1>1, <1>2, <1>5, <1>6

\* A number has far fewer digits than its amount.
Short(n, base, letters) ==
    LET l == Len(DigitsOf(n, base, letters))
    IN  /\ l \in Nat /\ 4 * l <= n + 8
        /\ (n < 2 => l = 1) /\ (n < 4 => l <= 2) /\ (n < 8 => l <= 3)

LEMMA DigitsShort ==
    ASSUME NEW base \in Bases, NEW letters, Alphabet(letters, base), NEW m \in Nat
    PROVE  Short(m, base, letters)
  <1> DEFINE F == {n \in Nat : ~ Short(n, base, letters)}
  <1> SUFFICES F = {}
    OBVIOUS
  <1> SUFFICES ASSUME F # {} PROVE FALSE
    OBVIOUS
  <1>1. PICK n \in F : \A k \in F : n <= k
    <2>1. F \in SUBSET Nat
      OBVIOUS
    <2> HIDE DEF F
    <2> QED BY <2>1, LeastElement
  <1>2. base \in Nat /\ base > 1 /\ n \in Nat
    BY <1>1 DEF Bases
  <1> DEFINE text == DigitsOf(n, base, letters)
  <1>3. CASE n < base
    <2>1. text = <<letters[n + 1]>>
      BY <1>2, <1>3, DigitsAre
    <2>2. Len(text) = 1
      BY <2>1
    <2> HIDE DEF text
    <2>3. /\ Len(text) \in Nat /\ 4 * Len(text) <= n + 8
          /\ (n < 2 => Len(text) = 1) /\ (n < 4 => Len(text) <= 2) /\ (n < 8 => Len(text) <= 3)
      BY <1>2, <2>2
    <2>4. Short(n, base, letters)
      BY <2>3 DEF Short, text
    <2> QED BY <1>1, <2>4
  <1>4. CASE n >= base
    <2> DEFINE q == n \div base
               t == DigitsOf(q, base, letters)
               ch == letters[(n % base) + 1]
    <2>1. q \in Nat /\ q < n /\ 2 * q <= n
      BY <1>2, <1>4, Division
    <2>2. Short(q, base, letters)
      <3>1. q \in Nat /\ q \notin F
        BY <1>1, <2>1
      <3> HIDE DEF q
      <3> QED BY <3>1
    <2>3. t \in Seq(Letters(letters, base))
      BY <2>1, DigitsRead DEF DigitsRight
    <2>4. text = Append(t, ch)
      BY <1>2, <1>4, DigitsAre
    <2> DEFINE l == Len(t)
    <2>5. /\ l \in Nat /\ 4 * l <= q + 8
          /\ (q < 2 => l = 1) /\ (q < 4 => l <= 2)
      BY <2>2 DEF Short
    <2>6. Len(text) = l + 1
      <3> HIDE DEF text, t, ch
      <3> QED BY <2>3, <2>4
    <2> HIDE DEF l, q, text
    <2>7. /\ Len(text) \in Nat /\ 4 * Len(text) <= n + 8
          /\ (n < 2 => Len(text) = 1) /\ (n < 4 => Len(text) <= 2) /\ (n < 8 => Len(text) <= 3)
      BY <1>2, <1>4, <2>1, <2>5, <2>6
    <2>8. Short(n, base, letters)
      BY <2>7 DEF Short, text
    <2> QED BY <1>1, <2>8
  <1> QED BY <1>2, <1>3, <1>4

\* The digits of a word leave an int room for sign, prefix and two tests.
LEMMA DigitsRoom ==
    ASSUME NEW base \in Bases, NEW letters, Alphabet(letters, base), NEW n \in Nat, n < WordSize
    PROVE  /\ Len(DigitsOf(n, base, letters)) <= MaxInt - 5
           /\ n <= MaxInt => Len(DigitsOf(n, base, letters)) + 7 <= MaxInt - 5
  <1> DEFINE l == Len(DigitsOf(n, base, letters))
  <1>1. l \in Nat /\ 4 * l <= n + 8
    BY DigitsShort DEF Short
  <1>2. MaxInt \in Nat /\ MaxInt >= 127 /\ WordSize <= 2 * MaxInt + 3 /\ WordSize \in Nat
    BY IntBounds
  <1> HIDE DEF l
  <1>3. l <= MaxInt - 5 /\ (n <= MaxInt => l + 7 <= MaxInt - 5)
    BY <1>1, <1>2
  <1> QED BY <1>3 DEF l

(* What Layout puts together when an int holds its sizes. *)

\* The room that is left of a field.
Room(sign, prefix, tmp, size, least) ==
    size - Len(sign) - Len(prefix) - Len(Copies("0", least - Len(tmp)) \o tmp)

\* One of the three loops fills it.
Filled(sign, prefix, tmp, size, least, f) ==
    LET body == Copies("0", least - Len(tmp)) \o tmp
        room == Room(sign, prefix, tmp, size, least)
    IN  IF "LEFT" \in f THEN sign \o prefix \o body \o Copies(Blank, room)
        ELSE IF "ZEROPAD" \in f THEN sign \o prefix \o Copies("0", room) \o body
        ELSE Copies(Blank, room) \o sign \o prefix \o body

\* The sizes of a field that an int holds.
Held(sign, prefix, tmp, size, least) ==
    /\ size \in Int /\ -1 <= size /\ size <= MaxInt
    /\ least \in Int /\ least <= MaxInt - 5 /\ Len(tmp) <= MaxInt - 5
    /\ Len(sign) <= 1 /\ Len(prefix) <= 2

LEMMA LayoutFilled ==
    ASSUME NEW S, NEW sign \in Seq(S), NEW prefix \in Seq(S), NEW tmp \in Seq(S), NEW f,
           NEW size, NEW least, Held(sign, prefix, tmp, size, least), "0" \in S, Blank \in S
    PROVE  Layout(sign, prefix, tmp, size, least, f) = Filled(sign, prefix, tmp, size, least, f)
  <1> DEFINE zeros == Copies("0", least - Len(tmp))
             body == zeros \o tmp
             room == Room(sign, prefix, tmp, size, least)
             none == <<>>
             zero == Copies("0", room)
             blank == Copies(Blank, room)
             left == "LEFT" \in f
             pads == "ZEROPAD" \in f
             once == Wrap(size - Len(sign) - Len(prefix) - Max({least, Len(tmp)}))
             room2 == IF left \/ pads THEN room ELSE Remains(room)
             room3 == IF left THEN room2 ELSE Remains(room2)
             front == IF left \/ pads THEN none ELSE blank
             pad == IF left THEN none ELSE Copies(IF pads THEN "0" ELSE Blank, room2)
  <1>0. /\ size \in Int /\ -1 <= size /\ size <= MaxInt
        /\ least \in Int /\ least <= MaxInt - 5 /\ Len(tmp) <= MaxInt - 5
        /\ Len(sign) <= 1 /\ Len(prefix) <= 2 /\ MaxInt \in Nat /\ MaxInt >= 127
    BY IntBounds DEF Held
  <1>1. Len(sign) \in Nat /\ Len(prefix) \in Nat /\ Len(tmp) \in Nat
    BY LenProperties
  <1>2. zeros \in Seq(S) /\ Len(zeros) = IF least - Len(tmp) <= 0 THEN 0 ELSE least - Len(tmp)
    <2>1. least - Len(tmp) \in Int
      BY <1>0, <1>1
    <2> QED BY <2>1, CopiesLie
  <1>3. body \in Seq(S) /\ Len(body) = Len(zeros) + Len(tmp)
    <2> HIDE DEF zeros
    <2> QED BY <1>2, ConcatProperties
  <1>4. Max({least, Len(tmp)}) = Len(body)
    <2> HIDE DEF zeros, body
    <2>1. /\ {least, Len(tmp)} \in SUBSET Int /\ Len(body) \in {least, Len(tmp)}
          /\ \A y \in {least, Len(tmp)} : Len(body) >= y
      BY <1>0, <1>1, <1>2, <1>3
    <2> QED BY <2>1, MaxIs
  <1>5. room = size - Len(sign) - Len(prefix) - Len(body)
    BY DEF Room
  <1>6. Len(body) \in Nat /\ Len(body) <= MaxInt - 5
    <2> HIDE DEF zeros, body
    <2> QED BY <1>0, <1>1, <1>2, <1>3
  <1> HIDE DEF room, body, zeros
  <1>7. room \in Int /\ room <= MaxInt /\ room >= 1 - MaxInt
    BY <1>0, <1>1, <1>5, <1>6
  <1>8. once = room
    <2>1. size - Len(sign) - Len(prefix) - Max({least, Len(tmp)}) = room
      BY <1>4, <1>5
    <2> QED BY <1>0, <1>7, <2>1, WrapKeeps
  <1>9. Remains(room) \in Int /\ Remains(room) <= -1 /\ Remains(room) >= - MaxInt
    <2>1. CASE room > 0
      BY <1>0, <2>1 DEF Remains
    <2>2. CASE ~ room > 0
      <3>1. Wrap(room - 1) = room - 1
        BY <1>0, <1>7, <2>2, WrapKeeps
      <3> QED BY <1>0, <1>7, <2>2, <3>1 DEF Remains
    <2> QED BY <2>1, <2>2
  <1>10. Remains(Remains(room)) \in Int /\ Remains(Remains(room)) <= -1
    <2> DEFINE r == Remains(room)
    <2> HIDE DEF r
    <2>1. r \in Int /\ r <= -1 /\ r >= - MaxInt
      BY <1>9 DEF r
    <2>2. Wrap(r - 1) = r - 1
      BY <1>0, <2>1, WrapKeeps
    <2>3. Remains(r) = r - 1
      BY <2>1, <2>2 DEF Remains
    <2> QED BY <2>1, <2>3 DEF r
  <1>11. ASSUME NEW ch, NEW n \in Int, n <= -1 PROVE Copies(ch, n) = none
    BY <1>11 DEF Copies
  <1>12. zero \in Seq(S) /\ blank \in Seq(S)
    BY <1>7, CopiesLie
  <1>13. Layout(sign, prefix, tmp, size, least, f) =
           (((((front \o sign) \o prefix) \o pad) \o body) \o Copies(Blank, room3))
    <2>1. Layout(sign, prefix, tmp, size, least, f) =
            LET r2 == IF left \/ pads THEN once ELSE Remains(once)
                r3 == IF left THEN r2 ELSE Remains(r2)
                fr == IF left \/ pads THEN <<>> ELSE Copies(Blank, once)
                pa == IF left THEN <<>> ELSE Copies(IF pads THEN "0" ELSE Blank, r2)
            IN  (((((fr \o sign) \o prefix) \o pa) \o body) \o Copies(Blank, r3))
      BY DEF Layout, body, zeros
    <2> HIDE DEF once, left, pads
    <2> QED BY <1>8, <2>1
  <1>14. Filled(sign, prefix, tmp, size, least, f) =
           IF left THEN ((sign \o prefix) \o body) \o blank
           ELSE IF pads THEN ((sign \o prefix) \o zero) \o body
           ELSE ((blank \o sign) \o prefix) \o body
    BY DEF Filled, body, zeros, room
  <1> HIDE DEF once, blank, zero, none
  <1> DEFINE h == sign \o prefix
  <1>15. none \o sign = sign /\ h \in Seq(S) /\ h \o none = h
    <2>1. h \in Seq(S)
      BY ConcatProperties
    <2> HIDE DEF h
    <2> QED BY <2>1, ConcatEmptySeq DEF none
  <1>16. CASE left
    <2>1. front = none /\ pad = none /\ Copies(Blank, room3) = blank
      BY <1>16 DEF blank
    <2> QED BY <1>13, <1>14, <1>15, <1>16, <2>1
  <1>17. CASE ~ left /\ pads
    <2>1. front = none /\ pad = zero /\ Copies(Blank, room3) = none
      BY <1>9, <1>11, <1>17 DEF zero
    <2> DEFINE g == (h \o zero) \o body
    <2>2. g \in Seq(S)
      <3> HIDE DEF h
      <3> QED BY <1>3, <1>12, <1>15, ConcatProperties
    <2>3. g \o none = g
      <3> HIDE DEF g
      <3> QED BY <2>2, ConcatEmptySeq DEF none
    <2> QED BY <1>13, <1>14, <1>15, <1>17, <2>1, <2>3
  <1>18. CASE ~ left /\ ~ pads
    <2>1. front = blank /\ pad = none /\ Copies(Blank, room3) = none
      BY <1>9, <1>10, <1>11, <1>18 DEF blank
    <2> DEFINE x == (blank \o sign) \o prefix
               g == x \o body
    <2>2. x \in Seq(S)
      BY <1>12, ConcatProperties
    <2>3. x \o none = x
      <3> HIDE DEF x
      <3> QED BY <2>2, ConcatEmptySeq DEF none
    <2>4. g \in Seq(S)
      <3> HIDE DEF x
      <3> QED BY <1>3, <2>2, ConcatProperties
    <2>5. g \o none = g
      <3> HIDE DEF g
      <3> QED BY <2>4, ConcatEmptySeq DEF none
    <2> QED BY <1>13, <1>14, <1>18, <2>1, <2>3, <2>5
  <1> QED BY <1>16, <1>17, <1>18

\* The parts of the numeral of a directive.
NumeralParts(d, S, sign, prefix, tmp, f) ==
    /\ "0" \in S /\ Blank \in S
    /\ sign \in Seq(S) /\ prefix \in Seq(S) /\ tmp \in Seq(S)
    /\ sign = NSign(d) /\ prefix = NPrefix(d)
    /\ d.precision \in Int /\ NWidth(d) \in Int
    /\ Held(sign, prefix, tmp, NWidth(d), d.precision)
    /\ Readable(d, tmp) /\ Len(tmp) >= NWhole(d)
    /\ Len(tmp) = NWhole(d) \/ Head(tmp) # "0"
    /\ "LEFT" \in f <=> NLeft(d)
    /\ ~ NLeft(d) => ("ZEROPAD" \in f <=> NZeros(d))

\* What is put together of them is a numeral.
LEMMA FilledNumeral ==
    ASSUME NEW d, NEW S, NEW sign, NEW prefix, NEW tmp, NEW f,
           NumeralParts(d, S, sign, prefix, tmp, f)
    PROVE  IsNumeral(d, Filled(sign, prefix, tmp, NWidth(d), d.precision, f))
  <1> DEFINE zeros == Copies("0", d.precision - Len(tmp))
             body == zeros \o tmp
             room == NWidth(d) - Len(sign) - Len(prefix) - Len(body)
             h == sign \o prefix
             none == <<>>
             blanks == Copies(Blank, room)
             fill == Copies("0", room)
             text == Filled(sign, prefix, tmp, NWidth(d), d.precision, f)
  <1>1. /\ body \in Seq(S) /\ ReadsBack(d, body)
        /\ Len(body) >= d.precision /\ NExact(d, body)
    BY BodyIs DEF IsBody, NumeralParts
  <1>0. /\ "0" \in S /\ Blank \in S
        /\ sign \in Seq(S) /\ prefix \in Seq(S) /\ tmp \in Seq(S)
        /\ d.precision \in Int /\ NWidth(d) \in Int
    BY DEF NumeralParts
  <1>2. h \in Seq(S) /\ Len(h) = Len(sign) + Len(prefix) /\ h = NHead(d)
    <2>1. h \in Seq(S) /\ Len(h) = Len(sign) + Len(prefix)
      BY <1>0, ConcatProperties
    <2> QED BY <2>1 DEF NumeralParts, NHead
  <1>3. /\ "LEFT" \in f => text = (h \o body) \o blanks
        /\ "LEFT" \notin f /\ "ZEROPAD" \in f => text = (h \o fill) \o body
        /\ "LEFT" \notin f /\ "ZEROPAD" \notin f => text = ((blanks \o sign) \o prefix) \o body
    <2>1. CASE "LEFT" \in f
      BY <2>1 DEF Filled, Room
    <2>2. CASE "LEFT" \notin f /\ "ZEROPAD" \in f
      BY <2>2 DEF Filled, Room
    <2>3. CASE "LEFT" \notin f /\ "ZEROPAD" \notin f
      BY <2>3 DEF Filled, Room
    <2> QED BY <2>1, <2>2, <2>3
  <1>f. /\ "LEFT" \in f <=> NLeft(d)
        /\ ~ NLeft(d) => ("ZEROPAD" \in f <=> NZeros(d))
    BY DEF NumeralParts
  <1>4. none \in Seq(S) /\ Len(none) = 0 /\ Blanks(none)
    BY EmptySeq, BlanksAre
  <1>5. Len(h) \in Nat /\ Len(body) \in Nat /\ room = NWidth(d) - Len(h) - Len(body) /\ room \in Int
    <2>1. Len(sign) \in Nat /\ Len(prefix) \in Nat /\ Len(body) \in Nat
      <3> HIDE DEF body
      <3> QED BY <1>0, <1>1, LenProperties
    <2>2. room = NWidth(d) - Len(sign) - Len(prefix) - Len(body)
      OBVIOUS
    <2> HIDE DEF room, body, h
    <2> QED BY <1>0, <1>2, <2>1, <2>2
  <1> HIDE DEF body, text, h, none, room
  <1>6. /\ blanks \in Seq(S) /\ Len(blanks) = (IF room <= 0 THEN 0 ELSE room) /\ Blanks(blanks)
        /\ fill \in Seq(S) /\ Len(fill) = IF room <= 0 THEN 0 ELSE room
    BY <1>0, <1>5, CopiesLie, BlanksAre
  <1> HIDE DEF blanks, fill
  <1>7. CASE NLeft(d)
    <2>1. text = (h \o body) \o blanks
      BY <1>3, <1>7, <1>f
    <2>2. Fits(d, none, h, body, blanks)
      <3> DEFINE n == Len(none) + (Len(h) + Len(body)) + Len(blanks)
      <3>1. n >= NWidth(d) /\ (n > NWidth(d) => Len(blanks) = 0)
        BY <1>0, <1>4, <1>5, <1>6
      <3>2. ~ Len(none) > 0
        BY <1>4
      <3>3. n = Len(none) + (Len(h) + Len(body)) + Len(blanks)
        OBVIOUS
      <3> HIDE DEF n
      <3> QED BY <1>1, <1>2, <1>4, <1>6, <1>7, <3>1, <3>2, <3>3 DEF Fits
    <2>3. IsNumeral(d, (none \o (h \o body)) \o blanks)
      BY <1>1, <1>2, <1>4, <1>6, <2>2, NumeralFrom
    <2>4. none \o (h \o body) = h \o body
      BY <1>1, <1>2, ConcatProperties, ConcatEmptySeq DEF none
    <2> QED BY <2>1, <2>3, <2>4 DEF text
  <1>8. CASE ~ NLeft(d) /\ NZeros(d)
    <2>1. text = (h \o fill) \o body
      BY <1>3, <1>8, <1>f
    <2> DEFINE g == fill \o body
    <2>2. g \in Seq(S) /\ Len(g) = Len(fill) + Len(body)
      BY <1>1, <1>6, ConcatProperties
    <2>3. ReadsBack(d, g)
      <3> DEFINE a == d.precision - Len(tmp)
                 n == Both(room, a)
      <3>1. a \in Int
        BY <1>0, <1>5, LenProperties
      <3>2. fill \o zeros = Copies("0", n) /\ n \in Int
        <4>2. zeros = Copies("0", a)
          OBVIOUS
        <4>3. fill = Copies("0", room)
          BY DEF fill
        <4>4. room \in Int
          BY <1>5
        <4> HIDE DEF a, zeros
        <4> QED BY <3>1, <4>2, <4>3, <4>4, CopiesConcat
      <3>3. zeros \in Seq(S)
        BY <1>0, <3>1, CopiesLie
      <3> HIDE DEF a, n, zeros
      <3>4. g = (fill \o zeros) \o tmp
        <4>1. fill \in Seq(S) /\ tmp \in Seq(S) /\ body = zeros \o tmp
          BY <1>0, <1>6 DEF body
        <4>2. Chain(Chain(fill, zeros), tmp) = Chain(fill, Chain(zeros, tmp))
          BY <3>3, <4>1, Regrouped
        <4> QED BY <4>1, <4>2 DEF Chain
      <3> QED BY <3>1, <3>2, <3>4 DEF Readable, NumeralParts
    <2>4. fill = none => g = body
      BY <1>1, ConcatEmptySeq DEF none
    <2>5. room <= 0 => fill = none
      BY DEF fill, none, Copies
    <2> HIDE DEF g
    <2>6. Fits(d, none, h, g, none)
      <3> DEFINE n == Len(none) + (Len(h) + Len(g)) + Len(none)
      <3>1. /\ n >= NWidth(d) /\ (room > 0 => n = NWidth(d)) /\ (n > NWidth(d) => room <= 0)
            /\ Len(g) >= Len(body)
        BY SMTT(60), <1>0, <1>4, <1>5, <1>6, <2>2
      <3>2. ~ Len(none) > 0 /\ (room > 0 \/ room <= 0)
        BY <1>4, <1>5
      <3>3. n = Len(none) + (Len(h) + Len(g)) + Len(none)
        OBVIOUS
      <3>4. Len(g) >= d.precision
        BY SMTT(60), <1>0, <1>1, <1>5, <1>6, <2>2
      <3>5. room <= 0 => NExact(d, g)
        BY <1>1, <2>4, <2>5
      <3> HIDE DEF n
      <3> QED BY <1>2, <1>4, <1>8, <2>3, <3>1, <3>2, <3>3, <3>4, <3>5 DEF Fits
    <2>7. IsNumeral(d, (none \o (h \o g)) \o none)
      BY <1>2, <1>4, <2>2, <2>6, NumeralFrom
    <2>8. none \o (h \o g) = h \o g /\ (h \o g) \o none = h \o g
      <3>1. h \o g \in Seq(S)
        BY <1>2, <2>2, ConcatProperties
      <3> QED BY <3>1, ConcatEmptySeq DEF none
    <2>9. h \o g = text
      <3>1. g = fill \o body /\ h \in Seq(S) /\ fill \in Seq(S) /\ body \in Seq(S)
        BY <1>1, <1>2, <1>6 DEF g
      <3>2. (h \o fill) \o body = h \o (fill \o body)
        <4>1. Chain(Chain(h, fill), body) = Chain(h, Chain(fill, body))
          BY <3>1, Regrouped
        <4> QED BY <4>1 DEF Chain
      <3> QED BY <2>1, <3>1, <3>2
    <2> QED BY <2>7, <2>8, <2>9 DEF text
  <1>9. CASE ~ NLeft(d) /\ ~ NZeros(d)
    <2>1. text = ((blanks \o sign) \o prefix) \o body
      BY <1>3, <1>9, <1>f
    <2>2. Fits(d, blanks, h, body, none)
      <3> DEFINE n == Len(blanks) + (Len(h) + Len(body)) + Len(none)
      <3>1. n >= NWidth(d) /\ (n > NWidth(d) => Len(blanks) = 0)
        BY SMTT(60), <1>0, <1>4, <1>5, <1>6
      <3>2. ~ Len(none) > 0
        BY <1>4
      <3>3. n = Len(blanks) + (Len(h) + Len(body)) + Len(none)
        OBVIOUS
      <3> HIDE DEF n
      <3> QED BY <1>1, <1>2, <1>4, <1>6, <1>9, <3>1, <3>2, <3>3 DEF Fits
    <2>3. IsNumeral(d, (blanks \o (h \o body)) \o none)
      BY <1>1, <1>2, <1>4, <1>6, <2>2, NumeralFrom
    <2>4. (blanks \o (h \o body)) \o none = blanks \o (h \o body)
      BY <1>1, <1>2, <1>6, ConcatProperties, ConcatEmptySeq DEF none
    <2>5. blanks \o (h \o body) = text
      <3>1. (blanks \o h) \o body = blanks \o (h \o body)
        <4>1. blanks \in Seq(S) /\ h \in Seq(S) /\ body \in Seq(S)
          BY <1>1, <1>2, <1>6
        <4>2. Chain(Chain(blanks, h), body) = Chain(blanks, Chain(h, body))
          BY <4>1, Regrouped
        <4> QED BY <4>2 DEF Chain
      <3>2. blanks \o h = (blanks \o sign) \o prefix
        <4>1. h = sign \o prefix /\ blanks \in Seq(S) /\ sign \in Seq(S) /\ prefix \in Seq(S)
          BY <1>0, <1>6 DEF h
        <4>2. (blanks \o sign) \o prefix = blanks \o (sign \o prefix)
          BY <4>1, ConcatAssociative
        <4> QED BY <4>1, <4>2
      <3> QED BY <2>1, <3>1, <3>2
    <2> QED BY <2>3, <2>4, <2>5 DEF text
  <1> QED BY <1>7, <1>8, <1>9 DEF text

\* It is text.
IsText(text) == \E S : text \in Seq(S)

\* It is text, too.
LEMMA FilledIsText ==
    ASSUME NEW d, NEW S, NEW sign, NEW prefix, NEW tmp, NEW f,
           NumeralParts(d, S, sign, prefix, tmp, f)
    PROVE  IsText(Filled(sign, prefix, tmp, NWidth(d), d.precision, f))
  <1> DEFINE zeros == Copies("0", d.precision - Len(tmp))
             body == zeros \o tmp
             room == NWidth(d) - Len(sign) - Len(prefix) - Len(body)
             blanks == Copies(Blank, room)
             fill == Copies("0", room)
             text == Filled(sign, prefix, tmp, NWidth(d), d.precision, f)
  <1>1. /\ sign \in Seq(S) /\ prefix \in Seq(S) /\ tmp \in Seq(S)
        /\ d.precision \in Int /\ NWidth(d) \in Int /\ "0" \in S /\ Blank \in S
    BY DEF NumeralParts
  <1>2. zeros \in Seq(S)
    <2>1. d.precision - Len(tmp) \in Int
      BY <1>1, LenProperties
    <2> QED BY <1>1, <2>1, CopiesLie
  <1>3. text = IF "LEFT" \in f THEN ((sign \o prefix) \o body) \o blanks
               ELSE IF "ZEROPAD" \in f THEN ((sign \o prefix) \o fill) \o body
               ELSE ((blanks \o sign) \o prefix) \o body
    BY DEF Filled, Room
  <1> HIDE DEF zeros
  <1>4. body \in Seq(S)
    BY <1>1, <1>2
  <1> HIDE DEF body
  <1>5. room \in Int
    BY <1>1, <1>4, LenProperties
  <1> HIDE DEF room
  <1>6. blanks \in Seq(S) /\ fill \in Seq(S)
    BY <1>1, <1>5, CopiesLie
  <1> HIDE DEF blanks, fill, text
  <1>7. text \in Seq(S)
    BY <1>1, <1>3, <1>4, <1>6
  <1> QED BY <1>7 DEF text, IsText

\* What Layout puts together of the parts of a numeral is a numeral.
LEMMA LayoutNumeral ==
    ASSUME NEW d, NEW S, NEW sign, NEW prefix, NEW tmp, NEW f,
           NumeralParts(d, S, sign, prefix, tmp, f)
    PROVE  LET text == Layout(sign, prefix, tmp, NWidth(d), d.precision, f)
           IN  IsNumeral(d, text) /\ IsText(text)
  <1>1. Layout(sign, prefix, tmp, NWidth(d), d.precision, f) =
          Filled(sign, prefix, tmp, NWidth(d), d.precision, f)
    BY LayoutFilled DEF NumeralParts
  <1>2. /\ IsNumeral(d, Filled(sign, prefix, tmp, NWidth(d), d.precision, f))
        /\ IsText(Filled(sign, prefix, tmp, NWidth(d), d.precision, f))
    BY FilledNumeral, FilledIsText
  <1> QED BY <1>1, <1>2

\* Texts of one character.
LEMMA Singles ==
    ASSUME NEW S, NEW x \in S, NEW y \in S
    PROVE  /\ <<x>> \in Seq(S) /\ Len(<<x>>) = 1 /\ <<x>>[1] = x
           /\ <<x, y>> \in Seq(S) /\ <<>> \in Seq(S)
  OBVIOUS

\* The digits of a number, with zeros in front of them or without, are read
\* back as the number.
LEMMA IntegerReadable ==
    ASSUME NEW d, d.conv # "f", BaseOf[d.conv] \in Bases, Magnitude(d) \in Nat,
           NEW letters, letters = IF d.conv = "x" THEN Lower ELSE Upper, d.conv # "m"
    PROVE  LET base == BaseOf[d.conv]
               tmp  == DigitsOf(Magnitude(d), base, letters)
           IN  /\ Readable(d, tmp) /\ tmp \in Seq(Letters(letters, base)) /\ Len(tmp) >= 1
               /\ Len(tmp) = 1 \/ Head(tmp) # "0"
  <1> DEFINE base == BaseOf[d.conv]
             tmp == DigitsOf(Magnitude(d), base, letters)
             L == Letters(letters, base)
  <1>1. Alphabet(letters, base) /\ base \in Nat /\ base > 0
    BY Alphabets DEF Bases
  <1>2. /\ tmp \in Seq(L) /\ Len(tmp) >= 1 /\ Value(tmp, base, letters) = Magnitude(d)
        /\ IF Magnitude(d) = 0 THEN Len(tmp) = 1 ELSE tmp[1] # "0"
    BY <1>1, DigitsRead DEF DigitsRight
  <1>3. Len(tmp) = 1 \/ Head(tmp) # "0"
    <2> HIDE DEF tmp
    <2>1. Head(tmp) = tmp[1]
      OBVIOUS
    <2> QED BY <1>2, <2>1
  <1>4. "0" \in L
    <2>1. 1 \in 1..base /\ letters[1] = "0"
      BY <1>1 DEF Alphabet
    <2> QED BY <2>1 DEF Letters
  <1>5. ASSUME NEW z \in Int PROVE ReadsBack(d, Copies("0", z) \o tmp)
    <2> DEFINE c == Copies("0", z)
               w == c \o tmp
    <2> HIDE DEF tmp
    <2>1. Value(w, base, letters) = Magnitude(d)
      <3> HIDE DEF base, L
      <3> QED BY <1>1, <1>2, <1>4, ValueZeros
    <2>2. c \in Seq(L)
      BY <1>4, CopiesLie
    <2> HIDE DEF c, L
    <2>3. w \in Seq(L) /\ Len(w) = Len(c) + Len(tmp) /\ Len(c) \in Nat
      BY <1>2, <2>2, ConcatProperties, LenProperties
    <2> HIDE DEF w
    <2>4. w # <<>>
      BY <1>2, <2>3, EmptySeq
    <2>5. \A k \in 1..Len(w) : \E v \in 1..base : letters[v] = w[k]
      <3> TAKE k \in 1..Len(w)
      <3>1. w[k] \in L
        BY <2>3, ElementOfSeq
      <3> QED BY <3>1 DEF L, Letters
    <2>6. letters = IF d.conv \in {"x", "m"} THEN Lower ELSE Upper
      OBVIOUS
    <2>7. ReadsBack(d, w)
      BY <2>1, <2>4, <2>5, <2>6 DEF ReadsBack
    <2> QED BY <2>7 DEF w, c
  <1> QED BY <1>2, <1>3, <1>5 DEF Readable

\* The flags that number and Layout see are those of the directive, and those
\* its conversion adds.
Spoken(d, f) ==
    /\ "LEFT" \in f <=> "-" \in d.flags
    /\ "ZEROPAD" \in f <=> ("0" \in d.flags \/ NBare(d))
    /\ "PLUS" \in f <=> "+" \in d.flags
    /\ "SPACE" \in f <=> Blank \in d.flags
    /\ "SPECIAL" \in f <=> "#" \in d.flags
    /\ "SMALL" \in f <=> d.conv = "x"
    /\ "SIGN" \in f <=> d.conv \in {"d", "i"}

\* The sign that number writes is the one the directive asks for.
LEMMA SignSays ==
    ASSUME NEW d, NEW f, Spoken(d, f), NEW S, "-" \in S, "+" \in S, Blank \in S
    PROVE  Sign(Negative(d), f) = NSign(d) /\ NSign(d) \in Seq(S) /\ Len(NSign(d)) <= 1
  <1>1. <<"-">> \in Seq(S) /\ <<"+">> \in Seq(S) /\ <<Blank>> \in Seq(S) /\ <<>> \in Seq(S)
        /\ Len(<<"-">>) = 1 /\ Len(<<"+">>) = 1 /\ Len(<<Blank>>) = 1 /\ Len(<<>>) = 0
    BY Singles
  <1>2. NSign(d) \in Seq(S) /\ Len(NSign(d)) <= 1
    BY <1>1 DEF NSign
  <1>3. CASE Negative(d)
    BY <1>3 DEF Sign, NSign
  <1>4. CASE ~ Negative(d) /\ "PLUS" \in f
    BY <1>4 DEF Sign, NSign, Spoken
  <1>5. CASE ~ Negative(d) /\ "PLUS" \notin f
    BY <1>5 DEF Sign, NSign, Spoken
  <1> QED BY <1>2, <1>3, <1>4, <1>5

\* The base of a conversion is that of its digits.
LEMMA BaseIs ==
    ASSUME NEW ch \in DOMAIN BaseOf
    PROVE  /\ ch \in {"o", "p", "x", "X", "d", "i", "u", "b"}
           /\ BaseOf[ch] \in Bases
           /\ BaseOf[ch] = 8 <=> ch = "o"
           /\ BaseOf[ch] = 16 <=> ch \in {"p", "x", "X"}
  <1>1. ch \in {"o", "p", "x", "X", "d", "i", "u", "b"}
    BY DEF BaseOf
  <1>2. BaseOf[ch] = CASE ch = "o" -> 8 [] ch \in {"p", "x", "X"} -> 16
                      [] ch = "b" -> 2 [] OTHER -> 10
    BY <1>1 DEF BaseOf
  <1>3. CASE ch = "o"
    BY <1>2, <1>3 DEF Bases
  <1>4. CASE ch \in {"p", "x", "X"}
    <2>1. BaseOf[ch] = 16
      BY <1>2, <1>4
    <2> QED BY <1>1, <1>4, <2>1 DEF Bases
  <1>5. CASE ch = "b"
    BY <1>2, <1>5 DEF Bases
  <1>6. CASE ch \in {"d", "i", "u"}
    <2>1. BaseOf[ch] = 10
      BY <1>2, <1>6
    <2> QED BY <1>1, <1>6, <2>1 DEF Bases
  <1> QED BY <1>1, <1>3, <1>4, <1>5, <1>6

\* What is negative, and how much it is.
LEMMA WordIs ==
    ASSUME NEW d, d.conv \in DOMAIN BaseOf, d.arg.word \in 0..(WordSize - 1)
    PROVE  /\ Negative(d) <=> (d.conv \in {"d", "i"} /\ d.arg.word >= WordSize \div 2)
           /\ Magnitude(d) = IF Negative(d) THEN WordSize - d.arg.word ELSE d.arg.word
           /\ Magnitude(d) \in Nat /\ Magnitude(d) < WordSize
  <1> DEFINE w == d.arg.word
             half == WordSize \div 2
  <1>1. w \in Nat /\ WordSize \in Nat /\ w < WordSize /\ half \in Nat /\ half > 0
    BY WordSizeAssumption
  <1>2. d.conv # "f"
    BY BaseIs
  <1> HIDE DEF w, half
  <1>3. Negative(d) <=> (d.conv \in {"d", "i"} /\ (IF w >= half THEN w - WordSize ELSE w) < 0)
    BY <1>2 DEF Negative, Int32, w, half
  <1>4. (IF w >= half THEN w - WordSize ELSE w) < 0 <=> w >= half
    BY <1>1
  <1>5. Negative(d) <=> (d.conv \in {"d", "i"} /\ w >= half)
    BY <1>3, <1>4
  <1>6. Magnitude(d) = IF d.conv \in {"d", "i"}
                       THEN LET n == IF w >= half THEN w - WordSize ELSE w
                            IN  IF n < 0 THEN -n ELSE n
                       ELSE w
    BY <1>2 DEF Magnitude, Int32, w, half
  <1>7. Magnitude(d) = IF Negative(d) THEN WordSize - w ELSE w
    BY <1>1, <1>5, <1>6
  <1>8. Magnitude(d) \in Nat /\ Magnitude(d) < WordSize
    <2>1. CASE Negative(d)
      <3>1. Magnitude(d) = WordSize - w /\ w >= half
        BY <1>5, <1>7, <2>1
      <3> QED BY <1>1, <3>1
    <2>2. CASE ~ Negative(d)
      <3>1. Magnitude(d) = w
        BY <1>7, <2>2
      <3> QED BY <1>1, <3>1
    <2> QED BY <2>1, <2>2
  <1> QED BY <1>5, <1>7, <1>8 DEF w, half

\* An int holds the width and the precision of a directive.
Bounded(d) == /\ d.width \in Int /\ -1 <= d.width /\ d.width <= MaxInt
              /\ d.precision \in Int /\ -1 <= d.precision /\ d.precision <= MaxInt - 5

\* What number writes for o, p, x, X, d, i, u and b is the numeral of the
\* directive.
LEMMA NumberSays ==
    ASSUME NEW d, NEW f, Spoken(d, f), d.conv \in DOMAIN BaseOf,
           d.arg.word \in 0..(WordSize - 1), Bounded(d)
    PROVE  LET text == number(d.arg.word, BaseOf[d.conv], NWidth(d), d.precision, f)
           IN  IsNumeral(d, text) /\ IsText(text)
  <1> DEFINE base == BaseOf[d.conv]
             letters == IF d.conv = "x" THEN Lower ELSE Upper
             tmp == DigitsOf(Magnitude(d), base, letters)
             L == Letters(letters, base)
             S == L \cup {"0", Blank, "-", "+", "x", "X"}
             sign == NSign(d)
             prefix == NPrefix(d)
  <1>1. /\ d.conv \in {"o", "p", "x", "X", "d", "i", "u", "b"} /\ base \in Bases
        /\ base = 8 <=> d.conv = "o"
        /\ base = 16 <=> d.conv \in {"p", "x", "X"}
    BY BaseIs
  <1>2. /\ Negative(d) <=> ("SIGN" \in f /\ d.arg.word >= WordSize \div 2)
        /\ Magnitude(d) = IF Negative(d) THEN WordSize - d.arg.word ELSE d.arg.word
        /\ Magnitude(d) \in Nat /\ Magnitude(d) < WordSize
    BY WordIs DEF Spoken
  <1>3. /\ Readable(d, tmp) /\ tmp \in Seq(L) /\ Len(tmp) >= 1
        /\ Len(tmp) = 1 \/ Head(tmp) # "0"
        /\ Len(tmp) <= MaxInt - 5
    <2>1. d.conv # "f" /\ d.conv # "m"
      BY <1>1
    <2>2. letters = IF d.conv = "x" THEN Lower ELSE Upper
      OBVIOUS
    <2>3. Alphabet(letters, base)
      BY <1>1, Alphabets
    <2> HIDE DEF letters, base
    <2>4. Len(tmp) <= MaxInt - 5
      BY <1>1, <1>2, <2>3, DigitsRoom
    <2> USE DEF base
    <2> QED BY <1>1, <1>2, <2>1, <2>2, <2>4, IntegerReadable
  <1>4. sign = Sign(Negative(d), f) /\ sign \in Seq(S) /\ Len(sign) <= 1
    <2>1. "-" \in S /\ "+" \in S /\ Blank \in S
      OBVIOUS
    <2> HIDE DEF S
    <2> QED BY <2>1, SignSays
  <1>5. /\ prefix \in Seq(S) /\ Len(prefix) <= 2
        /\ prefix = CASE "SPECIAL" \in f /\ base = 8  -> <<"0">>
                      [] "SPECIAL" \in f /\ base = 16 -> <<"0", IF "SMALL" \in f THEN "x" ELSE "X">>
                      [] OTHER -> <<>>
    <2>1. <<"0">> \in Seq(S) /\ <<"0", "x">> \in Seq(S) /\ <<"0", "X">> \in Seq(S) /\ <<>> \in Seq(S)
          /\ Len(<<"0">>) = 1 /\ Len(<<"0", "x">>) = 2 /\ Len(<<"0", "X">>) = 2 /\ Len(<<>>) = 0
      BY Singles
    <2>2. CASE "SPECIAL" \in f /\ base = 8
      BY <1>1, <2>1, <2>2 DEF NPrefix, Spoken
    <2>3. CASE "SPECIAL" \in f /\ base = 16 /\ d.conv = "x"
      <3>1. prefix = <<"0", "x">>
        BY <1>1, <2>3 DEF NPrefix, Spoken
      <3>2. (IF "SMALL" \in f THEN "x" ELSE "X") = "x"
        BY <2>3 DEF Spoken
      <3> HIDE DEF prefix, S, base
      <3> QED BY <2>1, <2>3, <3>1, <3>2
    <2>4. CASE "SPECIAL" \in f /\ base = 16 /\ d.conv # "x"
      <3>1. prefix = <<"0", "X">>
        BY <1>1, <2>4 DEF NPrefix, Spoken
      <3>2. (IF "SMALL" \in f THEN "x" ELSE "X") = "X"
        BY <2>4 DEF Spoken
      <3> HIDE DEF prefix, S, base
      <3> QED BY <2>1, <2>4, <3>1, <3>2
    <2>5. CASE ~ ("SPECIAL" \in f /\ base \in {8, 16})
      BY <1>1, <2>1, <2>5 DEF NPrefix, Spoken
    <2> QED BY <2>2, <2>3, <2>4, <2>5
  <1>6. number(d.arg.word, base, NWidth(d), d.precision, f) =
          Layout(sign, prefix, tmp, NWidth(d), d.precision, f)
    <2> DEFINE negative == "SIGN" \in f /\ d.arg.word >= WordSize \div 2
    <2>1. letters = IF "SMALL" \in f THEN Lower ELSE Upper
      BY DEF Spoken
    <2>2. negative <=> Negative(d)
      BY <1>2
    <2>3. Sign(negative, f) = sign
      BY <1>4, <2>2 DEF Sign
    <2>4. Magnitude(d) = IF negative THEN WordSize - d.arg.word ELSE d.arg.word
      BY <1>2, <2>2
    <2>5. tmp = DigitsOf(IF negative THEN WordSize - d.arg.word ELSE d.arg.word, base, letters)
      BY <2>4
    <2> HIDE DEF tmp, sign, prefix, letters, base
    <2> QED BY <1>5, <2>1, <2>3, <2>5 DEF number
  <1>7. NumeralParts(d, S, sign, prefix, tmp, f)
    <2>1. tmp \in Seq(S)
      <3>1. L \subseteq S
        OBVIOUS
      <3> HIDE DEF tmp, L, S
      <3> QED BY <1>3, <3>1, SeqMonotonic
    <2>2. "0" \in S /\ Blank \in S
      OBVIOUS
    <2>3. /\ NWidth(d) \in Int /\ -1 <= NWidth(d) /\ NWidth(d) <= MaxInt
          /\ d.precision \in Int /\ d.precision <= MaxInt - 5
      BY IntBounds DEF NWidth, Bounded
    <2>h. Held(sign, prefix, tmp, NWidth(d), d.precision)
      <3> HIDE DEF sign, prefix, tmp
      <3> QED BY <1>3, <1>4, <1>5, <2>3 DEF Held
    <2>4. NWhole(d) = 1
      BY <1>1 DEF NWhole
    <2>5. /\ "LEFT" \in f <=> NLeft(d)
          /\ ~ NLeft(d) => ("ZEROPAD" \in f <=> NZeros(d))
      BY DEF Spoken, NLeft, NZeros
    <2> HIDE DEF S, tmp, sign, prefix
    <2>6. sign = NSign(d) /\ prefix = NPrefix(d)
      BY DEF sign, prefix
    <2> QED BY <1>3, <1>4, <1>5, <2>1, <2>2, <2>3, <2>4, <2>5, <2>6, <2>h DEF NumeralParts
  <1> HIDE DEF S, tmp, sign, prefix, base
  <1>8. /\ IsNumeral(d, Layout(sign, prefix, tmp, NWidth(d), d.precision, f))
        /\ IsText(Layout(sign, prefix, tmp, NWidth(d), d.precision, f))
    BY <1>7, LayoutNumeral
  <1> QED BY <1>6, <1>8 DEF base

(* Floating-point numbers. *)

\* Ten digits are the same, in lower case or upper case.
LEMMA TenDigits ==
    ASSUME NEW m \in Nat
    PROVE  /\ DigitsOf(m, 10, Digits) = DigitsOf(m, 10, Upper)
           /\ DigitsOf(m, 10, Lower) = DigitsOf(m, 10, Upper)
  <1> DEFINE F == {n \in Nat : DigitsOf(n, 10, Digits) # DigitsOf(n, 10, Upper)
                               \/ DigitsOf(n, 10, Lower) # DigitsOf(n, 10, Upper)}
  <1> SUFFICES ASSUME F # {} PROVE FALSE
    OBVIOUS
  <1>1. PICK n \in F : \A k \in F : n <= k
    <2>1. F \in SUBSET Nat
      OBVIOUS
    <2> HIDE DEF F
    <2> QED BY <2>1, LeastElement
  <1>2. n \in Nat /\ 10 \in Bases
    BY <1>1 DEF Bases
  <1>3. ASSUME NEW letters
        PROVE  DigitsOf(n, 10, letters) =
                 IF n < 10 THEN <<letters[n + 1]>>
                 ELSE Append(DigitsOf(n \div 10, 10, letters), letters[(n % 10) + 1])
    BY <1>2, DigitsAre
  <1>4. n < 10 => n + 1 \in 1..10
    BY <1>2
  <1>5. n >= 10 => n \div 10 \in Nat /\ n \div 10 < n /\ (n % 10) + 1 \in 1..10
    BY <1>2
  <1>6. n >= 10 => /\ DigitsOf(n \div 10, 10, Digits) = DigitsOf(n \div 10, 10, Upper)
                   /\ DigitsOf(n \div 10, 10, Lower) = DigitsOf(n \div 10, 10, Upper)
    <2>1. n >= 10 => n \div 10 \in Nat /\ n \div 10 \notin F
      BY <1>1, <1>2, <1>5
    <2> QED BY <2>1
  <1>7. CASE n < 10
    <2>1. Upper[n + 1] = Digits[n + 1] /\ Lower[n + 1] = Digits[n + 1]
      BY <1>4, <1>7, LettersAre
    <2>2. \A letters : DigitsOf(n, 10, letters) = <<letters[n + 1]>>
      BY <1>3, <1>7
    <2>3. n \notin F
      BY <2>1, <2>2
    <2> QED BY <1>1, <2>3
  <1>8. CASE n >= 10
    <2> DEFINE j == (n % 10) + 1
    <2>1. Upper[j] = Digits[j] /\ Lower[j] = Digits[j]
      BY <1>5, <1>8, LettersAre
    <2>2. ASSUME NEW letters
          PROVE  DigitsOf(n, 10, letters) = Append(DigitsOf(n \div 10, 10, letters), letters[j])
      <3>1. DigitsOf(n, 10, letters) =
              IF n < 10 THEN <<letters[n + 1]>>
              ELSE Append(DigitsOf(n \div 10, 10, letters), letters[j])
        BY <1>3
      <3>2. ~ (n < 10)
        BY <1>2, <1>8
      <3> HIDE DEF j
      <3> QED BY <3>1, <3>2
    <2> HIDE DEF j
    <2>3. n \notin F
      BY <1>6, <1>8, <2>1, <2>2
    <2> QED BY <1>1, <2>3
  <1> QED BY <1>2, <1>7, <1>8

Ten == Letters(Upper, 10)

\* The digits of m are a 1 and the text b of k digits, w is 10^k: behind any
\* digits the text b says m - w.
Behind(m, w, k, b) ==
    /\ b \in Seq(Ten) /\ Len(b) = k
    /\ DigitsOf(m, 10, Upper) = <<"1">> \o b
    /\ \A s \in Seq(Ten) : Value(s \o b, 10, Upper) = Value(s, 10, Upper) * w + (m - w)

\* What is used of the ten digits.
LEMMA TenFacts == /\ Alphabet(Upper, 10) /\ 10 \in Bases /\ 10 \in Nat
                  /\ \A v \in 0..9 : /\ Upper[v + 1] \in Ten
                                     /\ Rank(Upper[v + 1], 10, Upper) = v
                  /\ Upper[2] = "1" /\ "1" \in Ten /\ "0" \in Ten
                  /\ \A s \in Seq(Ten) : Value(s, 10, Upper) \in Int
  <1>1. Alphabet(Upper, 10) /\ 10 \in Bases /\ 10 \in Nat
    BY Alphabets DEF Bases
  <1>2. ASSUME NEW v \in 0..9
        PROVE  Upper[v + 1] \in Ten /\ Rank(Upper[v + 1], 10, Upper) = v
    <2>1. v + 1 \in 1..10
      OBVIOUS
    <2>2. Rank(Upper[v + 1], 10, Upper) = (v + 1) - 1
      BY <1>1, <2>1, RankIs
    <2> QED BY <2>1, <2>2 DEF Ten, Letters
  <1>3. Upper[2] = "1" /\ "1" \in Ten /\ "0" \in Ten
    <2>1. 1 \in 1..10 /\ 2 \in 1..10
      OBVIOUS
    <2>2. Upper[2] = "1" /\ Upper[1] = "0"
      BY <2>1, LettersAre
    <2> QED BY <2>1, <2>2 DEF Ten, Letters
  <1>4. \A s \in Seq(Ten) : Value(s, 10, Upper) \in Int
    <2> DEFINE N == {n \in Nat : \A s \in Seq(Ten) : Len(s) = n => Value(s, 10, Upper) \in Int}
    <2>1. 0 \in N
      <3> SUFFICES ASSUME NEW s \in Seq(Ten), Len(s) = 0 PROVE Value(s, 10, Upper) \in Int
        OBVIOUS
      <3>1. s = <<>>
        BY EmptySeq
      <3>2. Value(<<>>, 10, Upper) = 0
        <4> DEFINE e == <<>>
        <4>1. e \in Seq(Ten)
          OBVIOUS
        <4> QED BY <1>3, <4>1, ValueAppend
      <3> QED BY <3>1, <3>2
    <2>2. ASSUME NEW n \in Nat, n \in N PROVE n + 1 \in N
      <3> SUFFICES ASSUME NEW s \in Seq(Ten), Len(s) = n + 1 PROVE Value(s, 10, Upper) \in Int
        OBVIOUS
      <3>1. PICK t \in Seq(Ten), e \in Ten : s = Append(t, e)
        <4>1. s # <<>>
          BY EmptySeq
        <4> QED BY <4>1, SequenceEmptyOrAppend
      <3>2. Len(t) = n
        BY <3>1, AppendProperties, LenProperties
      <3>3. Value(t, 10, Upper) \in Int
        BY <2>2, <3>2
      <3>4. Value(s, 10, Upper) = Value(t, 10, Upper) * 10 + Rank(e, 10, Upper)
        BY <3>1, ValueAppend
      <3>5. Rank(e, 10, Upper) \in Int
        <4>1. PICK v \in 1..10 : e = Upper[v]
          BY DEF Ten, Letters
        <4>2. v - 1 \in 0..9 /\ (v - 1) + 1 = v
          OBVIOUS
        <4>3. Rank(Upper[(v - 1) + 1], 10, Upper) = v - 1
          BY <1>2, <4>2
        <4> QED BY <4>1, <4>2, <4>3
      <3> QED BY <3>3, <3>4, <3>5
    <2> HIDE DEF N
    <2>3. Nat \subseteq N
      BY <2>1, <2>2, Induction
    <2> QED BY <2>3, LenProperties DEF N
  <1> QED BY <1>1, <1>2, <1>3, <1>4

\* No digits behind a 1 say 0.
LEMMA BehindStart == Behind(1, 1, 0, <<>>)
  <1> DEFINE e == <<>>
  <1>1. e \in Seq(Ten) /\ Len(e) = 0
    OBVIOUS
  <1>2. DigitsOf(1, 10, Upper) = <<"1">>
    <2>1. DigitsOf(1, 10, Upper) = <<Upper[1 + 1]>>
      BY TenFacts, DigitsAre
    <2> QED BY <2>1, TenFacts
  <1>3. <<"1">> \o e = <<"1">>
    <2> DEFINE one == <<"1">>
    <2>1. one \in Seq({"1"})
      OBVIOUS
    <2> HIDE DEF one
    <2>2. one \o <<>> = one
      BY <2>1, ConcatEmptySeq
    <2> QED BY <2>2 DEF one
  <1>4. ASSUME NEW s \in Seq(Ten)
        PROVE  Value(s \o e, 10, Upper) = Value(s, 10, Upper) * 1 + (1 - 1)
    <2>1. s \o e = s
      BY ConcatEmptySeq
    <2>2. Value(s, 10, Upper) \in Int
      BY TenFacts
    <2> HIDE DEF e
    <2> QED BY <2>1, <2>2
  <1> HIDE DEF e
  <1>5. Behind(1, 1, 0, e)
    BY <1>1, <1>2, <1>3, <1>4 DEF Behind
  <1> QED BY <1>5 DEF e

\* And one more digit behind them keeps what they say.
LEMMA BehindStep ==
    ASSUME NEW m \in Nat, m >= 10, NEW w \in Nat, NEW k \in Nat, NEW b,
           Behind(m \div 10, w, k, b)
    PROVE  \E c : Behind(m, 10 * w, k + 1, c)
  <1> DEFINE q == m \div 10
             r == m % 10
             ch == Upper[r + 1]
             c == Append(b, ch)
             one == <<"1">>
  <1>1. q \in Nat /\ r \in 0..9 /\ m = q * 10 + r
    OBVIOUS
  <1>2. ch \in Ten /\ Rank(ch, 10, Upper) = r
    <2>1. \A v \in 0..9 : Upper[v + 1] \in Ten /\ Rank(Upper[v + 1], 10, Upper) = v
      BY TenFacts
    <2> HIDE DEF r
    <2> QED BY <1>1, <2>1
  <1>3. DigitsOf(m, 10, Upper) = Append(DigitsOf(q, 10, Upper), ch)
    <2>1. DigitsOf(m, 10, Upper) = IF m < 10 THEN <<Upper[m + 1]>>
                                   ELSE Append(DigitsOf(q, 10, Upper), ch)
      BY TenFacts, DigitsAre
    <2>2. ~ (m < 10)
      OBVIOUS
    <2> HIDE DEF q, ch
    <2> QED BY <2>1, <2>2
  <1>4. /\ b \in Seq(Ten) /\ Len(b) = k /\ DigitsOf(q, 10, Upper) = one \o b
        /\ \A s \in Seq(Ten) : Value(s \o b, 10, Upper) = Value(s, 10, Upper) * w + (q - w)
    BY DEF Behind
  <1>5. one \in Seq(Ten)
    BY TenFacts, Singles
  <1> HIDE DEF q, r, ch, one
  <1>6. c \in Seq(Ten) /\ Len(c) = k + 1
    BY <1>2, <1>4, AppendProperties
  <1>7. one \o c = Append(one \o b, ch)
    BY SMTT(60), <1>2, <1>4, <1>5, ConcatAppend
  <1>8. ASSUME NEW s \in Seq(Ten)
        PROVE  Value(s \o c, 10, Upper) = Value(s, 10, Upper) * (10 * w) + (m - 10 * w)
    <2>1. s \o c = Append(s \o b, ch) /\ s \o b \in Seq(Ten)
      <3>1. s \o b \in Seq(Ten)
        BY <1>4, ConcatProperties
      <3>2. s \o Append(b, ch) = Append(s \o b, ch)
        BY SMTT(60), <1>2, <1>4, ConcatAppend
      <3> QED BY <3>1, <3>2
    <2>2. Value(s \o c, 10, Upper) = Value(s \o b, 10, Upper) * 10 + r
      <3> DEFINE t == s \o b
      <3>1. t \in Seq(Ten) /\ s \o c = Append(t, ch)
        BY <2>1
      <3> HIDE DEF t
      <3>2. Value(Append(t, ch), 10, Upper) = Value(t, 10, Upper) * 10 + Rank(ch, 10, Upper)
        BY <1>2, <3>1, ValueAppend
      <3> QED BY <1>2, <3>1, <3>2 DEF t
    <2> DEFINE x == Value(s, 10, Upper)
               y == Value(s \o b, 10, Upper)
    <2>3. x \in Int /\ y = x * w + (q - w)
      BY <1>4, TenFacts
    <2> HIDE DEF x, y
    <2>4. y * 10 + r = x * (10 * w) + (m - 10 * w)
      BY <1>1, <2>3
    <2> QED BY <2>2, <2>4 DEF x, y
  <1> HIDE DEF c
  <1>9. Behind(m, 10 * w, k + 1, c)
    BY <1>3, <1>4, <1>6, <1>7, <1>8 DEF Behind, one
  <1> QED BY <1>9


\* The six digits of a number below a million, and their value behind others.
LEMMA SixDigits ==
    ASSUME NEW r \in Nat, r < Million
    PROVE  \E b : Behind(Million + r, Million, 6, b)
  <1> DEFINE m0 == Million + r
             m1 == m0 \div 10
             m2 == m1 \div 10
             m3 == m2 \div 10
             m4 == m3 \div 10
             m5 == m4 \div 10
             m6 == m5 \div 10
  <1>0. m0 \in Nat /\ m0 >= 1000000 /\ m0 < 2000000
    BY SMT DEF Million
  <1> HIDE DEF m0
  <1>1. m1 \in Nat /\ m1 >= 100000 /\ m1 < 200000
    BY <1>0, SMT
  <1> HIDE DEF m1
  <1>2. m2 \in Nat /\ m2 >= 10000 /\ m2 < 20000
    BY <1>1, SMT
  <1> HIDE DEF m2
  <1>3. m3 \in Nat /\ m3 >= 1000 /\ m3 < 2000
    BY <1>2
  <1> HIDE DEF m3
  <1>4. m4 \in Nat /\ m4 >= 100 /\ m4 < 200
    BY <1>3
  <1> HIDE DEF m4
  <1>5. m5 \in Nat /\ m5 >= 10 /\ m5 < 20
    BY <1>4
  <1> HIDE DEF m5
  <1>6. m6 = 1
    BY <1>5
  <1>a. \E b : Behind(m5, 10, 1, b)
    <2>1. Behind(m5 \div 10, 1, 0, <<>>)
      BY <1>6, BehindStart
    <2>2. \E c : Behind(m5, 10 * 1, 0 + 1, c)
      BY <1>5, <2>1, BehindStep
    <2>3. 10 * 1 = 10 /\ 0 + 1 = 1
      OBVIOUS
    <2> QED BY <2>2, <2>3
  <1>b. \E b : Behind(m4, 100, 2, b)
    <2>1. PICK b : Behind(m4 \div 10, 10, 1, b)
      BY <1>a DEF m5
    <2>2. \E c : Behind(m4, 10 * 10, 1 + 1, c)
      BY <1>4, <2>1, BehindStep
    <2>3. 10 * 10 = 100 /\ 1 + 1 = 2
      OBVIOUS
    <2> QED BY <2>2, <2>3
  <1>c. \E b : Behind(m3, 1000, 3, b)
    <2>1. PICK b : Behind(m3 \div 10, 100, 2, b)
      BY <1>b DEF m4
    <2>2. \E c : Behind(m3, 10 * 100, 2 + 1, c)
      BY <1>3, <2>1, BehindStep
    <2>3. 10 * 100 = 1000 /\ 2 + 1 = 3
      OBVIOUS
    <2> QED BY <2>2, <2>3
  <1>d. \E b : Behind(m2, 10000, 4, b)
    <2>1. PICK b : Behind(m2 \div 10, 1000, 3, b)
      BY <1>c DEF m3
    <2>2. \E c : Behind(m2, 10 * 1000, 3 + 1, c)
      BY <1>2, <2>1, BehindStep
    <2>3. 10 * 1000 = 10000 /\ 3 + 1 = 4
      BY SMT
    <2> QED BY <2>2, <2>3
  <1>e. \E b : Behind(m1, 100000, 5, b)
    <2>1. PICK b : Behind(m1 \div 10, 10000, 4, b)
      BY <1>d DEF m2
    <2>2. \E c : Behind(m1, 10 * 10000, 4 + 1, c)
      BY <1>1, <2>1, BehindStep
    <2>3. 10 * 10000 = 100000 /\ 4 + 1 = 5
      BY SMT
    <2> QED BY <2>2, <2>3
  <1>f. \E b : Behind(m0, Million, 6, b)
    <2>1. PICK b : Behind(m0 \div 10, 100000, 5, b)
      BY <1>e DEF m1
    <2>2. \E c : Behind(m0, 10 * 100000, 5 + 1, c)
      BY <1>0, <2>1, BehindStep
    <2>3. 10 * 100000 = Million /\ 5 + 1 = 6
      BY SMT DEF Million
    <2> QED BY <2>2, <2>3
  <1> QED BY <1>f DEF m0

\* A text put together from two.
Joined(S, s, t, u) ==
    /\ u \in Seq(S) /\ Len(u) = Len(s) + Len(t) /\ Len(s) \in Nat /\ Len(t) \in Nat
    /\ \A k \in 1..Len(s) : u[k] = s[k]
    /\ \A k \in 1..Len(t) : u[Len(s) + k] = t[k]

\* Two texts, one behind the other.
LEMMA Joins ==
    ASSUME NEW S, NEW s \in Seq(S), NEW t \in Seq(S)
    PROVE  Joined(S, s, t, s \o t)
  <1> DEFINE u == s \o t
  <1>1. /\ u \in Seq(S) /\ Len(u) = Len(s) + Len(t) /\ Len(s) \in Nat /\ Len(t) \in Nat
        /\ \A k \in 1..(Len(s) + Len(t)) : u[k] = IF k <= Len(s) THEN s[k] ELSE t[k - Len(s)]
    BY ConcatProperties, LenProperties
  <1> HIDE DEF u
  <1>2. /\ \A k \in 1..Len(s) : u[k] = s[k]
        /\ \A k \in 1..Len(t) : u[Len(s) + k] = t[k]
    <2>1. ASSUME NEW k \in 1..Len(s) PROVE u[k] = s[k]
      BY <1>1
    <2>2. ASSUME NEW k \in 1..Len(t) PROVE u[Len(s) + k] = t[k]
      <3>1. Len(s) + k \in 1..(Len(s) + Len(t)) /\ ~ (Len(s) + k <= Len(s)) /\ (Len(s) + k) - Len(s) = k
        BY <1>1
      <3> QED BY <1>1, <3>1
    <2> QED BY <2>1, <2>2
  <1>3. Joined(S, s, t, u)
    BY <1>1, <1>2 DEF Joined
  <1> QED BY <1>3 DEF u

\* A text of digits with a point before the last six is read back.
LEMMA PointRead ==
    ASSUME NEW d, d.conv = "f", NEW c \in Seq(Ten), Len(c) >= 1, NEW b \in Seq(Ten), Len(b) = 6,
           Value(c \o b, 10, Upper) = Magnitude(d)
    PROVE  ReadsBack(d, (c \o <<".">>) \o b)
  <1> DEFINE S == Ten \cup {"."}
             dot == <<".">>
             front == c \o dot
             digits == front \o b
             point == Len(digits) - 6
  <1>1. c \in Seq(S) /\ b \in Seq(S)
    <2>1. Ten \subseteq S
      OBVIOUS
    <2> HIDE DEF S
    <2> QED BY <2>1, SeqMonotonic
  <1>2. dot \in Seq(S) /\ Len(dot) = 1 /\ dot[1] = "."
    <2>1. "." \in S
      OBVIOUS
    <2> HIDE DEF S
    <2> QED BY <2>1, Singles
  <1>3. Len(c) \in Nat
    BY LenProperties
  <1> HIDE DEF S, dot
  <1>j. Joined(S, c, dot, front)
    BY <1>1, <1>2, Joins
  <1> HIDE DEF front
  <1>4. /\ front \in Seq(S) /\ Len(front) = Len(c) + 1
        /\ front[Len(c) + 1] = "." /\ \A k \in 1..Len(c) : front[k] = c[k]
    BY <1>2, <1>j DEF Joined
  <1>k. Joined(S, front, b, digits)
    BY <1>1, <1>4, Joins
  <1>6. /\ digits \in Seq(S) /\ Len(digits) = Len(c) + 7
        /\ \A k \in 1..Len(front) : digits[k] = front[k]
        /\ SubSeq(digits, Len(front) + 1, Len(digits)) = b
    <2>2. SubSeq(digits, Len(front) + 1, Len(digits)) = b
      BY <1>1, <1>4, PartsOf
    <2> HIDE DEF digits
    <2> QED BY <1>3, <1>4, <1>k, <2>2 DEF Joined
  <1> HIDE DEF digits
  <1>7. point = Len(c) + 1 /\ point > 1 /\ point - 1 = Len(c) /\ point = Len(front)
    BY <1>3, <1>4, <1>6
  <1> HIDE DEF point
  <1>8. digits[point] = "."
    <2>1. point \in 1..Len(front)
      BY <1>3, <1>7
    <2> QED BY <1>4, <1>6, <1>7, <2>1
  <1>9. SubSeq(digits, 1, point - 1) = c
    <2>1. \A k \in 1..Len(c) : digits[0 + k] = c[k]
      <3> TAKE k \in 1..Len(c)
      <3>1. 0 + k = k /\ k \in 1..Len(front)
        BY <1>3, <1>4
      <3> QED BY <1>4, <1>6, <3>1
    <2>2. 0 \in Nat /\ 0 + Len(c) = Len(c) /\ Len(c) <= Len(digits)
      BY <1>3, <1>6
    <2>3. SubSeq(digits, 0 + 1, Len(c)) = c
      BY <1>1, <1>3, <1>6, <2>1, <2>2, PartIs
    <2>4. 0 + 1 = 1
      OBVIOUS
    <2> QED BY <1>7, <2>3, <2>4
  <1> DEFINE bare == RemoveAt(digits, point)
  <1>10. bare = c \o b
    <2>1. bare = SubSeq(digits, 1, point - 1) \o SubSeq(digits, point + 1, Len(digits))
      BY DEF RemoveAt
    <2> HIDE DEF bare
    <2> QED BY <1>6, <1>7, <1>9, <2>1
  <1>11. bare \in Seq(Ten) /\ Len(bare) = Len(c) + 6
    <2>1. Joined(Ten, c, b, c \o b)
      BY Joins
    <2> HIDE DEF bare
    <2> QED BY <1>10, <2>1 DEF Joined
  <1> HIDE DEF bare
  <1>12. bare # <<>>
    BY <1>3, <1>11, EmptySeq
  <1>13. \A k \in 1..Len(bare) : \E v \in 1..10 : Upper[v] = bare[k]
    <2> TAKE k \in 1..Len(bare)
    <2>1. bare[k] \in Ten
      BY <1>11, ElementOfSeq
    <2> QED BY <2>1 DEF Ten, Letters
  <1>14. Value(bare, 10, Upper) = Magnitude(d)
    BY <1>10
  <1>15. ReadsBack(d, digits)
    <2>1. ~ (d.conv \in {"x", "m"})
      OBVIOUS
    <2> QED BY <1>7, <1>8, <1>12, <1>13, <1>14, <2>1 DEF ReadsBack, bare, point
  <1> QED BY <1>15 DEF digits, front, dot

\* The digits of a floating-point number, with zeros in front of them or
\* without, are read back as the number.
LEMMA RealReadable ==
    ASSUME NEW d, d.conv = "f", Magnitude(d) \in Nat, Magnitude(d) \div Million <= MaxInt
    PROVE  LET tmp == RealDigits(Magnitude(d))
           IN  /\ Readable(d, tmp) /\ tmp \in Seq(Ten \cup {"."}) /\ Len(tmp) >= 8
               /\ Len(tmp) = 8 \/ Head(tmp) # "0"
               /\ Len(tmp) <= MaxInt - 5
  <1> DEFINE n == Magnitude(d)
             q == n \div Million
             r == n % Million
             S == Ten \cup {"."}
             dot == <<".">>
             tmp == RealDigits(n)
             a == DigitsOf(q, 10, Upper)
  <1>0. q <= MaxInt
    OBVIOUS
  <1>1. q \in Nat /\ r \in Nat /\ r < Million /\ n = q * Million + r /\ Million + r \in Nat /\ Million \in Nat
    BY SMT DEF Million
  <1>2. tmp = DigitsOf(q, 10, Digits) \o dot \o Tail(DigitsOf(Million + r, 10, Digits))
    <2>1. n \div Million <= MaxInt
      OBVIOUS
    <2>2. RealDigits(n) = Millionths(n)
      BY <2>1 DEF RealDigits
    <2> QED BY <2>2 DEF Millionths
  <1>3. PICK b : Behind(Million + r, Million, 6, b)
    BY <1>1, SixDigits
  <1>b. /\ b \in Seq(Ten) /\ Len(b) = 6 /\ DigitsOf(Million + r, 10, Upper) = <<"1">> \o b
        /\ \A s \in Seq(Ten) : Value(s \o b, 10, Upper) = Value(s, 10, Upper) * Million + ((Million + r) - Million)
    BY <1>3 DEF Behind
  <1>4. /\ a \in Seq(Ten) /\ Len(a) >= 1 /\ Value(a, 10, Upper) = q
        /\ IF q = 0 THEN Len(a) = 1 ELSE a[1] # "0"
    BY <1>1, TenFacts, DigitsRead DEF DigitsRight, Ten
  <1>5. tmp = (a \o dot) \o b
    <2>1. DigitsOf(q, 10, Digits) = a /\ DigitsOf(Million + r, 10, Digits) = <<"1">> \o b
      BY <1>1, <1>b, TenDigits
    <2>2. Tail(<<"1">> \o b) = b
      <3> DEFINE one == <<"1">>
                 t == one \o b
      <3>1. one \in Seq(Ten) /\ Len(one) = 1
        BY TenFacts, Singles
      <3> HIDE DEF one
      <3>2. t \in Seq(Ten) /\ Len(t) = 7 /\ SubSeq(t, Len(one) + 1, Len(t)) = b
        <4>1. Joined(Ten, one, b, t)
          BY <1>b, <3>1, Joins
        <4>2. SubSeq(t, Len(one) + 1, Len(t)) = b
          <5>1. b \in Seq(Ten) /\ one \in Seq(Ten)
            BY <1>b, <3>1
          <5> QED BY <5>1, PartsOf
        <4> HIDE DEF t
        <4> QED BY <1>b, <3>1, <4>1, <4>2 DEF Joined
      <3> HIDE DEF t
      <3>3. t # <<>>
        <4>1. t \in Seq(Ten) /\ Len(t) # 0
          BY <3>2
        <4> QED BY <4>1, EmptySeq
      <3>4. Tail(t) = SubSeq(t, 2, Len(t))
        BY <3>2, <3>3, TailIsSubSeq
      <3>5. Tail(t) = b
        BY <3>1, <3>2, <3>4
      <3> QED BY <3>5 DEF t, one
    <2> QED BY <1>2, <2>1, <2>2
  <1> HIDE DEF q, r, tmp, a, n
  <1>6. ASSUME NEW z \in Int PROVE ReadsBack(d, Copies("0", z) \o tmp)
    <2> DEFINE c == Copies("0", z) \o a
               e == Copies("0", z)
    <2>1. Value(c, 10, Upper) = q
      <3>1. Value(c, 10, Upper) = Value(a, 10, Upper)
        BY <1>4, TenFacts, ValueZeros
      <3> QED BY <1>4, <3>1
    <2>2. e \in Seq(Ten) /\ Len(e) \in Nat
      BY TenFacts, CopiesLie, LenProperties
    <2>3. c \in Seq(Ten) /\ Len(c) >= 1
      <3> HIDE DEF e
      <3>1. e \o a \in Seq(Ten) /\ Len(e \o a) = Len(e) + Len(a) /\ Len(a) \in Nat
        BY <1>4, <2>2, ConcatProperties, LenProperties
      <3>2. Len(e \o a) >= 1
        BY <1>4, <2>2, <3>1
      <3> QED BY <3>1, <3>2 DEF e
    <2>4. e \o ((a \o dot) \o b) = (c \o dot) \o b
      <3>1. e \in Seq(S) /\ a \in Seq(S) /\ b \in Seq(S) /\ dot \in Seq(S)
        <4>1. Ten \subseteq S /\ "." \in S
          OBVIOUS
        <4>2. dot \in Seq(S)
          BY <4>1, Singles
        <4> HIDE DEF S, dot, e
        <4> QED BY <1>4, <1>b, <2>2, <4>1, <4>2, SeqMonotonic
      <3> HIDE DEF S, dot, e
      <3>2. (e \o (a \o dot)) \o b = e \o ((a \o dot) \o b)
        <4> DEFINE x == a \o dot
        <4>1. x \in Seq(S)
          BY <3>1, ConcatProperties
        <4> HIDE DEF x
        <4>2. (e \o x) \o b = e \o (x \o b)
          <5>1. e \in Seq(S) /\ b \in Seq(S)
            BY <3>1
          <5>2. Chain(Chain(e, x), b) = Chain(e, Chain(x, b))
            BY <4>1, <5>1, Regrouped
          <5> QED BY <5>2 DEF Chain
        <4> QED BY <4>2 DEF x
      <3>3. (e \o a) \o dot = e \o (a \o dot)
        <4>1. Chain(Chain(e, a), dot) = Chain(e, Chain(a, dot))
          BY <3>1, Regrouped
        <4> QED BY <4>1 DEF Chain
      <3> QED BY <3>2, <3>3 DEF e
    <2> HIDE DEF c, e
    <2>5. Value(c \o b, 10, Upper) = n
      <3>1. Value(c \o b, 10, Upper) = q * Million + ((Million + r) - Million)
        BY <1>b, <2>1, <2>3
      <3>2. q * Million + ((Million + r) - Million) = n
        BY <1>1
      <3> QED BY <3>1, <3>2
    <2>6. ReadsBack(d, (c \o <<".">>) \o b)
      BY <1>b, <2>3, <2>5, PointRead DEF n
    <2> QED BY <1>5, <2>4, <2>6 DEF e
  <1>7. tmp \in Seq(S) /\ Len(tmp) = Len(a) + 7 /\ tmp[1] = a[1] /\ Len(a) \in Nat
    <2>1. a \in Seq(S) /\ b \in Seq(S) /\ dot \in Seq(S) /\ Len(dot) = 1
      <3>1. Ten \subseteq S /\ "." \in S
        OBVIOUS
      <3>2. dot \in Seq(S) /\ Len(dot) = 1
        BY <3>1, Singles
      <3> HIDE DEF S, dot
      <3> QED BY <1>4, <1>b, <3>1, <3>2, SeqMonotonic
    <2> HIDE DEF S, dot
    <2> DEFINE front == a \o dot
    <2>j. Joined(S, a, dot, front)
      BY <2>1, Joins
    <2> HIDE DEF front
    <2>2. front \in Seq(S) /\ Len(front) = Len(a) + 1 /\ Len(a) \in Nat /\ front[1] = a[1]
      BY <1>4, <2>1, <2>j DEF Joined
    <2>k. Joined(S, front, b, front \o b)
      BY <2>1, <2>2, Joins
    <2>4. front \o b \in Seq(S) /\ Len(front \o b) = Len(front) + Len(b) /\ (front \o b)[1] = front[1]
      BY <2>2, <2>k DEF Joined
    <2>5. tmp = front \o b
      BY <1>5 DEF front
    <2>6. Len(front) + Len(b) = Len(a) + 7
      BY <1>b, <2>2
    <2> QED BY <2>2, <2>4, <2>5, <2>6
  <1>8. Len(tmp) >= 8 /\ (Len(tmp) = 8 \/ Head(tmp) # "0")
    <2>1. Head(tmp) = a[1]
      BY <1>7
    <2>2. Len(a) = 1 => Len(tmp) = 8
      BY <1>7
    <2>3. Len(tmp) >= 8
      BY <1>4, <1>7
    <2> QED BY <1>4, <2>1, <2>2, <2>3
  <1>9. Readable(d, tmp)
    BY <1>6 DEF Readable
  <1>10. Len(tmp) <= MaxInt - 5
    <2>1. q < WordSize
      BY <1>0, <1>1, IntBounds
    <2>2. Len(a) + 7 <= MaxInt - 5
      BY <1>0, <1>1, <2>1, TenFacts, DigitsRoom DEF a
    <2> QED BY <1>7, <2>2
  <1> QED BY <1>7, <1>8, <1>9, <1>10 DEF tmp, n

\* What is written for f is the numeral of the directive.
LEMMA RealSays ==
    ASSUME NEW d, NEW f, Spoken(d, f), d.conv = "f", d.arg.real.negative \in BOOLEAN,
           d.arg.real.millionths \in Nat, d.arg.real.millionths \div Million <= MaxInt, Bounded(d)
    PROVE  LET n == d.arg.real
               text == Layout(Sign(n.negative, f), <<>>, RealDigits(n.millionths),
                              d.width, d.precision, f)
           IN  IsNumeral(d, text) /\ IsText(text)
  <1> DEFINE n == d.arg.real
             S == Ten \cup {".", Blank, "-", "+"}
             sign == Sign(n.negative, f)
             none == <<>>
             tmp == RealDigits(n.millionths)
  <1>1. Negative(d) <=> n.negative
    BY DEF Negative
  <1>2. Magnitude(d) = n.millionths /\ Magnitude(d) \in Nat /\ Magnitude(d) \div Million <= MaxInt
    <2>1. Magnitude(d) = n.millionths
      BY DEF Magnitude
    <2> QED BY <2>1
  <1>3. /\ Readable(d, tmp) /\ tmp \in Seq(Ten \cup {"."}) /\ Len(tmp) >= 8
        /\ Len(tmp) = 8 \/ Head(tmp) # "0"
        /\ Len(tmp) <= MaxInt - 5
    <2>1. tmp = RealDigits(Magnitude(d))
      BY <1>2
    <2> HIDE DEF tmp
    <2> QED BY <1>2, <2>1, RealReadable
  <1>4. sign = NSign(d) /\ sign \in Seq(S) /\ Len(sign) <= 1
    <2>1. "-" \in S /\ "+" \in S /\ Blank \in S
      OBVIOUS
    <2>2. Sign(Negative(d), f) = NSign(d) /\ NSign(d) \in Seq(S) /\ Len(NSign(d)) <= 1
      <3> HIDE DEF S
      <3> QED BY <2>1, SignSays
    <2>3. sign = Sign(Negative(d), f)
      BY <1>1 DEF Sign
    <2> HIDE DEF S, sign
    <2> QED BY <2>2, <2>3
  <1>5. none = NPrefix(d) /\ none \in Seq(S) /\ Len(none) <= 2
    <2>1. none \in Seq(S) /\ Len(none) <= 2
      OBVIOUS
    <2>2. none = NPrefix(d)
      <3>1. d.conv # "o" /\ d.conv # "x" /\ d.conv \notin {"X", "p"}
        OBVIOUS
      <3> QED BY <3>1 DEF NPrefix
    <2> QED BY <2>1, <2>2
  <1>6. d.conv # "p" /\ NWidth(d) = d.width /\ NWhole(d) = 8
    <2>1. d.conv # "p"
      OBVIOUS
    <2> QED BY <2>1 DEF NWidth, NBare, NWhole
  <1>7. tmp \in Seq(S) /\ "0" \in S /\ Blank \in S
    <2>1. Ten \cup {"."} \subseteq S /\ Blank \in S
      OBVIOUS
    <2>2. "0" \in S
      BY TenFacts
    <2> HIDE DEF S, tmp
    <2> QED BY <1>3, <2>1, <2>2, SeqMonotonic
  <1>8. /\ "LEFT" \in f <=> NLeft(d)
        /\ ~ NLeft(d) => ("ZEROPAD" \in f <=> NZeros(d))
    BY DEF Spoken, NLeft, NZeros
  <1> HIDE DEF S, tmp, sign, none
  <1>9. NumeralParts(d, S, sign, none, tmp, f)
    <2>1. Held(sign, none, tmp, NWidth(d), d.precision)
      BY <1>3, <1>4, <1>5, <1>6 DEF Held, Bounded
    <2> QED BY <1>3, <1>4, <1>5, <1>6, <1>7, <1>8, <2>1 DEF NumeralParts, Bounded
  <1>10. /\ IsNumeral(d, Layout(sign, none, tmp, NWidth(d), d.precision, f))
         /\ IsText(Layout(sign, none, tmp, NWidth(d), d.precision, f))
    BY <1>9, LayoutNumeral
  <1>11. /\ IsNumeral(d, Layout(sign, none, tmp, d.width, d.precision, f))
         /\ IsText(Layout(sign, none, tmp, d.width, d.precision, f))
    BY <1>6, <1>10
  <1> QED BY <1>11 DEF sign, none, tmp

(* Texts in their fields. *)

\* A padded text is in the field of the directive.
LEMMA PaddedFits ==
    ASSUME NEW d, NEW S, Blank \in S, NEW text \in Seq(S),
           "LEFT" \in flags <=> "-" \in d.flags, d.width \in Int,
           NEW before, before = d.width - Len(text), NEW behind \in Int, behind <= 0
    PROVE  /\ InField(d, text, Padded(text, before, behind))
           /\ IsText(Padded(text, before, behind))
  <1> DEFINE pad == Copies(Blank, d.width - Len(text))
             room == Max({Len(text), d.width}) - Len(text)
             right == text \o pad
             left == pad \o text
  <1>1. Len(text) \in Nat
    BY LenProperties
  <1>2. /\ pad \in Seq(S) /\ Len(pad) = IF d.width - Len(text) <= 0 THEN 0 ELSE d.width - Len(text)
        /\ Blanks(pad)
    <2>1. d.width - Len(text) \in Int
      BY <1>1
    <2> QED BY <2>1, CopiesLie, BlanksAre
  <1>3. room = Len(pad) /\ Len(pad) \in Nat
    <2>1. CASE d.width > Len(text)
      <3>1. {Len(text), d.width} \in SUBSET Int /\ d.width \in {Len(text), d.width}
            /\ \A y \in {Len(text), d.width} : d.width >= y
        BY <1>1, <2>1
      <3>2. Max({Len(text), d.width}) = d.width
        BY <3>1, MaxIs
      <3> HIDE DEF pad
      <3> QED BY <1>1, <1>2, <2>1, <3>2
    <2>2. CASE ~ d.width > Len(text)
      <3>1. {Len(text), d.width} \in SUBSET Int /\ Len(text) \in {Len(text), d.width}
            /\ \A y \in {Len(text), d.width} : Len(text) >= y
        BY <1>1, <2>2
      <3>2. Max({Len(text), d.width}) = Len(text)
        BY <3>1, MaxIs
      <3> HIDE DEF pad
      <3> QED BY <1>1, <1>2, <2>2, <3>2
    <2> QED BY <2>1, <2>2
  <1>4. Padded(text, before, behind) = IF "-" \in d.flags THEN right ELSE left
    <2>1. Copies(Blank, behind) = <<>>
      BY DEF Copies
    <2>2. left \in Seq(S)
      <3> HIDE DEF pad
      <3> QED BY <1>2, ConcatProperties
    <2>3. left \o <<>> = left
      <3> HIDE DEF left
      <3> QED BY <2>2, ConcatEmptySeq
    <2>4. Padded(text, before, behind) = IF "-" \in d.flags THEN right ELSE left \o <<>>
      BY <2>1 DEF Padded
    <2> QED BY <2>3, <2>4
  <1> HIDE DEF pad, room
  <1>5. /\ Joined(S, text, pad, right) /\ SubSeq(right, Len(text) + 1, Len(right)) = pad
        /\ IsPrefix(text, right)
    BY <1>2, Joins, PartsOf
  <1>6. /\ Joined(S, pad, text, left) /\ SubSeq(left, 1, Len(pad)) = pad
        /\ IsSuffix(text, left)
    <2>1. Joined(S, pad, text, left)
      BY <1>2, Joins
    <2>2. SubSeq(left, 1, Len(pad)) = pad /\ IsSuffix(text, left)
      <3>1. pad \in Seq(S) /\ text \in Seq(S)
        BY <1>2
      <3> QED BY SMTT(60), <3>1, PartsOf
    <2> QED BY <2>1, <2>2
  <1> HIDE DEF left, right
  <1>7. Len(right) = Len(text) + room /\ Len(left) = Len(text) + room
    BY <1>1, <1>3, <1>5, <1>6 DEF Joined
  <1>8. ASSUME "-" \in d.flags PROVE InField(d, text, Padded(text, before, behind))
    <2>1. InField(d, text, right)
      BY <1>2, <1>5, <1>7, <1>8 DEF InField, room
    <2> QED BY <1>4, <1>8, <2>1
  <1>9. ASSUME "-" \notin d.flags PROVE InField(d, text, Padded(text, before, behind))
    <2>1. InField(d, text, left)
      BY <1>2, <1>3, <1>6, <1>7, <1>9 DEF InField, room
    <2> QED BY <1>4, <1>9, <2>1
  <1>10. IsText(left) /\ IsText(right)
    BY <1>5, <1>6 DEF Joined, IsText
  <1> QED BY <1>4, <1>8, <1>9, <1>10
-----------------------------------------------------------------------------
(* Texts with separators. *)

\* The equation of the fields of the beginnings of a text.
FieldsUpTo(f, n, text, separator) ==
    f = [k \in 0..n |->
           IF k = 0 THEN << <<>> >>
           ELSE IF text[k] = separator THEN Append(f[k - 1], <<>>)
                ELSE Append(Front(f[k - 1]), Append(Last(f[k - 1]), text[k]))]

\* There is a function that gives each beginning of a text its fields.
LEMMA FieldsExist ==
    ASSUME NEW text, NEW separator, NEW m \in Nat
    PROVE  \E f : FieldsUpTo(f, m, text, separator)
  <1> DEFINE v(f, k) == IF k = 0 THEN << <<>> >>
                        ELSE IF text[k] = separator THEN Append(f[k - 1], <<>>)
                             ELSE Append(Front(f[k - 1]), Append(Last(f[k - 1]), text[k]))
             S == {n \in Nat : \E f : FieldsUpTo(f, n, text, separator)}
  <1>1. 0 \in S
    <2>1. FieldsUpTo([k \in 0..0 |-> << <<>> >>], 0, text, separator)
      BY DEF FieldsUpTo
    <2> QED BY <2>1
  <1>2. ASSUME NEW n \in Nat, n \in S PROVE n + 1 \in S
    <2>1. PICK f : FieldsUpTo(f, n, text, separator)
      BY <1>2
    <2> DEFINE g == [k \in 0..(n + 1) |-> IF k <= n THEN f[k] ELSE v(f, k)]
    <2>2. \A k \in 0..n : f[k] = v(f, k)
      BY <2>1 DEF FieldsUpTo
    <2>3. ASSUME NEW k \in 0..(n + 1) PROVE g[k] = v(g, k)
      <3>1. k # 0 => g[k - 1] = f[k - 1]
        OBVIOUS
      <3>2. v(g, k) = v(f, k)
        <4> HIDE DEF g
        <4> QED BY <3>1
      <3>3. (k \in 0..n \/ k = n + 1) /\ g[k] = IF k <= n THEN f[k] ELSE v(f, k)
        OBVIOUS
      <3> HIDE DEF g, v
      <3> QED BY <2>2, <3>2, <3>3
    <2>4. g = [k \in 0..(n + 1) |-> v(g, k)]
      <3>1. g = [k \in 0..(n + 1) |-> g[k]]
        OBVIOUS
      <3> HIDE DEF g, v
      <3> QED BY <2>3, <3>1
    <2>5. FieldsUpTo(g, n + 1, text, separator)
      <3> HIDE DEF g
      <3> QED BY <2>4 DEF FieldsUpTo
    <2> QED BY <2>5
  <1> HIDE DEF S
  <1>3. m \in S
    BY <1>1, <1>2, Induction
  <1> QED BY <1>3 DEF S

\* The fields of a text are the last of the fields of its beginnings.
LEMMA FieldsIs ==
    ASSUME NEW text, NEW separator, Len(text) \in Nat
    PROVE  \E f : FieldsUpTo(f, Len(text), text, separator) /\ Fields(text, separator) = f[Len(text)]
  <1> DEFINE f == CHOOSE f : FieldsUpTo(f, Len(text), text, separator)
  <1>1. FieldsUpTo(f, Len(text), text, separator)
    BY FieldsExist
  <1>2. Fields(text, separator) = f[Len(text)]
    BY DEF Fields, FieldsUpTo
  <1> QED BY <1>1, <1>2

\* And no two of them.
LEMMA FieldsAgree ==
    ASSUME NEW s, NEW t, NEW separator, NEW n \in Nat, NEW m \in Nat, NEW f, NEW g,
           FieldsUpTo(f, n, s, separator), FieldsUpTo(g, m, t, separator),
           n <= m, \A k \in 1..n : s[k] = t[k]
    PROVE  f[n] = g[n]
  <1> DEFINE S == {k \in Nat : k <= n => f[k] = g[k]}
  <1>1. 0 \in S
    BY DEF FieldsUpTo
  <1>2. ASSUME NEW k \in Nat, k \in S PROVE k + 1 \in S
    <2> SUFFICES ASSUME k + 1 <= n PROVE f[k + 1] = g[k + 1]
      OBVIOUS
    <2>1. k + 1 \in 1..n /\ k + 1 \in 0..n /\ k + 1 \in 0..m /\ k + 1 # 0 /\ (k + 1) - 1 = k
      OBVIOUS
    <2>2. /\ f[k + 1] = IF s[k + 1] = separator THEN Append(f[(k + 1) - 1], <<>>)
                        ELSE Append(Front(f[(k + 1) - 1]), Append(Last(f[(k + 1) - 1]), s[k + 1]))
          /\ g[k + 1] = IF t[k + 1] = separator THEN Append(g[(k + 1) - 1], <<>>)
                        ELSE Append(Front(g[(k + 1) - 1]), Append(Last(g[(k + 1) - 1]), t[k + 1]))
      BY <2>1 DEF FieldsUpTo
    <2>3. f[k] = g[k] /\ s[k + 1] = t[k + 1]
      BY <1>2, <2>1
    <2> QED BY <2>1, <2>2, <2>3
  <1> HIDE DEF S
  <1>3. n \in S
    BY <1>1, <1>2, Induction
  <1> QED BY <1>3 DEF S

\* A character behind a text ends its last field, or belongs to it.
LEMMA FieldsAppend ==
    ASSUME NEW S, NEW text \in Seq(S), NEW ch \in S, NEW separator
    PROVE  Fields(Append(text, ch), separator) =
             IF ch = separator THEN Append(Fields(text, separator), <<>>)
             ELSE Append(Front(Fields(text, separator)), Append(Last(Fields(text, separator)), ch))
  <1> DEFINE n == Len(text)
             t == Append(text, ch)
  <1>1. /\ n \in Nat /\ Len(t) = n + 1 /\ t[n + 1] = ch
        /\ \A k \in 1..n : text[k] = t[k]
    BY AppendProperties
  <1> HIDE DEF n, t
  <1>2. PICK f : FieldsUpTo(f, n, text, separator) /\ Fields(text, separator) = f[n]
    BY <1>1, FieldsIs DEF n
  <1>3. PICK g : FieldsUpTo(g, n + 1, t, separator) /\ Fields(t, separator) = g[n + 1]
    <2>1. Len(t) \in Nat /\ Len(t) = n + 1
      BY <1>1
    <2>2. PICK g : FieldsUpTo(g, Len(t), t, separator) /\ Fields(t, separator) = g[Len(t)]
      BY <2>1, FieldsIs
    <2> QED BY <2>1, <2>2
  <1>4. f[n] = g[n]
    BY <1>1, <1>2, <1>3, FieldsAgree
  <1>5. n + 1 \in 0..(n + 1) /\ n + 1 # 0 /\ (n + 1) - 1 = n
    BY <1>1
  <1>6. g[n + 1] = IF t[n + 1] = separator THEN Append(g[(n + 1) - 1], <<>>)
                   ELSE Append(Front(g[(n + 1) - 1]), Append(Last(g[(n + 1) - 1]), t[n + 1]))
    BY <1>3, <1>5 DEF FieldsUpTo
  <1> QED BY <1>1, <1>2, <1>3, <1>4, <1>5, <1>6 DEF t

\* The empty text has one field, the empty one.
LEMMA FieldsEmpty ==
    ASSUME NEW separator
    PROVE  Fields(<<>>, separator) = << <<>> >>
  <1>1. Len(<<>>) = 0
    OBVIOUS
  <1>2. PICK f : FieldsUpTo(f, 0, <<>>, separator) /\ Fields(<<>>, separator) = f[0]
    BY <1>1, FieldsIs
  <1> QED BY <1>2 DEF FieldsUpTo

\* A sequence is its front and its last element.
LEMMA FrontLast ==
    ASSUME NEW S, NEW s \in Seq(S), NEW e \in S
    PROVE  Front(Append(s, e)) = s /\ Last(Append(s, e)) = e
  <1> DEFINE t == Append(s, e)
  <1>1. /\ t \in Seq(S) /\ Len(t) = Len(s) + 1 /\ Len(s) \in Nat /\ t[Len(s) + 1] = e
        /\ \A k \in 1..Len(s) : t[k] = s[k]
    BY AppendProperties, LenProperties
  <1> HIDE DEF t
  <1>2. SubSeq(t, 0 + 1, Len(s)) = s
    <2>1. 0 \in Nat /\ 0 + Len(s) = Len(s) /\ Len(s) <= Len(t)
          /\ \A k \in 1..Len(s) : t[0 + k] = s[k]
      BY <1>1
    <2> QED BY <1>1, <2>1, PartIs
  <1>3. Len(t) - 1 = Len(s) /\ 0 + 1 = 1
    BY <1>1
  <1>4. Front(t) = s
    BY <1>2, <1>3 DEF Front
  <1>5. Last(t) = e
    BY <1>1 DEF Last
  <1> QED BY <1>4, <1>5 DEF t

\* The fields of t, and the last of them.
FieldsAt(L, separator, t, before, last) ==
    /\ t \in Seq(L \cup {separator}) /\ before \in Seq(Seq(L)) /\ last \in Seq(L)
    /\ Fields(t, separator) = Append(before, last)

\* Characters that are no separator belong to the last field.
LEMMA FieldsBehind ==
    ASSUME NEW L, NEW separator, separator \notin L, NEW t, NEW before, NEW last,
           FieldsAt(L, separator, t, before, last)
    PROVE  \A u \in Seq(L) : FieldsAt(L, separator, t \o u, before, last \o u)
  <1> DEFINE S == L \cup {separator}
  <1>0. /\ L \in SUBSET S /\ t \in Seq(S) /\ before \in Seq(Seq(L)) /\ last \in Seq(L)
        /\ Fields(t, separator) = Append(before, last)
    BY DEF FieldsAt
  <1> HIDE DEF S
  <1> DEFINE N == {n \in Nat : \A u \in Seq(L) : Len(u) = n =>
                     Fields(t \o u, separator) = Append(before, last \o u)}
  <1>1. 0 \in N
    <2> SUFFICES ASSUME NEW u \in Seq(L), Len(u) = 0
                 PROVE  Fields(t \o u, separator) = Append(before, last \o u)
      OBVIOUS
    <2>1. u = <<>>
      BY EmptySeq
    <2>2. t \o <<>> = t /\ last \o <<>> = last
      BY <1>0, ConcatEmptySeq
    <2> QED BY <1>0, <2>1, <2>2
  <1>2. ASSUME NEW n \in Nat, n \in N PROVE n + 1 \in N
    <2> SUFFICES ASSUME NEW u \in Seq(L), Len(u) = n + 1
                 PROVE  Fields(t \o u, separator) = Append(before, last \o u)
      OBVIOUS
    <2>1. PICK v \in Seq(L), e \in L : u = Append(v, e)
      <3>1. u # <<>>
        BY EmptySeq
      <3> QED BY <3>1, SequenceEmptyOrAppend
    <2>2. Len(v) = n
      BY <2>1, AppendProperties, LenProperties
    <2> DEFINE a == t \o v
               x == last \o v
    <2>3. Fields(a, separator) = Append(before, x)
      BY <1>2, <2>2
    <2>4. t \o u = Append(a, e) /\ a \in Seq(S) /\ e \in S
      <3>1. v \in Seq(S) /\ e \in S
        BY <1>0, SeqMonotonic
      <3> QED BY SMTT(60), <1>0, <2>1, <3>1, ConcatAppend, ConcatProperties
    <2>5. last \o u = Append(x, e) /\ x \in Seq(L)
      BY SMTT(60), <1>0, <2>1, ConcatAppend, ConcatProperties
    <2> HIDE DEF a, x
    <2>6. Fields(Append(a, e), separator) =
            Append(Front(Fields(a, separator)), Append(Last(Fields(a, separator)), e))
      <3>1. e # separator
        OBVIOUS
      <3>2. Fields(Append(a, e), separator) =
              IF e = separator THEN Append(Fields(a, separator), <<>>)
              ELSE Append(Front(Fields(a, separator)), Append(Last(Fields(a, separator)), e))
        BY <2>4, FieldsAppend
      <3> QED BY <3>1, <3>2
    <2>7. Front(Append(before, x)) = before /\ Last(Append(before, x)) = x
      BY <1>0, <2>5, FrontLast
    <2> QED BY <2>3, <2>4, <2>5, <2>6, <2>7
  <1> HIDE DEF N
  <1>3. Nat \subseteq N
    BY <1>1, <1>2, Induction
  <1>4. ASSUME NEW u \in Seq(L) PROVE FieldsAt(L, separator, t \o u, before, last \o u)
    <2>1. Fields(t \o u, separator) = Append(before, last \o u)
      BY <1>3, LenProperties DEF N
    <2>2. u \in Seq(S)
      BY <1>0, SeqMonotonic
    <2>3. t \o u \in Seq(S) /\ last \o u \in Seq(L)
      BY <1>0, <2>2, ConcatProperties
    <2> QED BY <1>0, <2>1, <2>3 DEF FieldsAt, S
  <1> QED BY <1>4

\* The equation of the first n texts, each with a separator behind it.
TextsUpTo(f, n, numbers, separator) ==
    f = [k \in 0..n |-> IF k = 0 THEN <<>> ELSE Append(f[k - 1] \o numbers[k], separator)]

\* There is a function that puts the first texts together.
LEMMA TextsExist ==
    ASSUME NEW numbers, NEW separator, NEW m \in Nat
    PROVE  \E f : TextsUpTo(f, m, numbers, separator)
  <1> DEFINE v(f, k) == IF k = 0 THEN <<>> ELSE Append(f[k - 1] \o numbers[k], separator)
             S == {n \in Nat : \E f : TextsUpTo(f, n, numbers, separator)}
  <1>1. 0 \in S
    <2>1. TextsUpTo([k \in 0..0 |-> <<>>], 0, numbers, separator)
      BY DEF TextsUpTo
    <2> QED BY <2>1
  <1>2. ASSUME NEW n \in Nat, n \in S PROVE n + 1 \in S
    <2>1. PICK f : TextsUpTo(f, n, numbers, separator)
      BY <1>2
    <2> DEFINE g == [k \in 0..(n + 1) |-> IF k <= n THEN f[k] ELSE v(f, k)]
    <2>2. \A k \in 0..n : f[k] = v(f, k)
      BY <2>1 DEF TextsUpTo
    <2>3. ASSUME NEW k \in 0..(n + 1) PROVE g[k] = v(g, k)
      <3>1. k # 0 => g[k - 1] = f[k - 1]
        OBVIOUS
      <3>2. v(g, k) = v(f, k)
        <4> HIDE DEF g
        <4> QED BY <3>1
      <3>3. (k \in 0..n \/ k = n + 1) /\ g[k] = IF k <= n THEN f[k] ELSE v(f, k)
        OBVIOUS
      <3> HIDE DEF g, v
      <3> QED BY <2>2, <3>2, <3>3
    <2>4. g = [k \in 0..(n + 1) |-> v(g, k)]
      <3>1. g = [k \in 0..(n + 1) |-> g[k]]
        OBVIOUS
      <3> HIDE DEF g, v
      <3> QED BY <2>3, <3>1
    <2>5. TextsUpTo(g, n + 1, numbers, separator)
      <3> HIDE DEF g
      <3> QED BY <2>4 DEF TextsUpTo
    <2> QED BY <2>5
  <1> HIDE DEF S
  <1>3. m \in S
    BY <1>1, <1>2, Induction
  <1> QED BY <1>3 DEF S

\* Texts with separators, put together one by one.
LEMMA SeparatedIs ==
    ASSUME NEW numbers, NEW separator, Len(numbers) \in Nat
    PROVE  \E f : /\ TextsUpTo(f, Len(numbers), numbers, separator)
                 /\ Separated(numbers, separator) = Front(f[Len(numbers)])
  <1> DEFINE f == CHOOSE f : TextsUpTo(f, Len(numbers), numbers, separator)
  <1>1. TextsUpTo(f, Len(numbers), numbers, separator)
    BY TextsExist
  <1>2. Separated(numbers, separator) = Front(f[Len(numbers)])
    BY DEF Separated, TextsUpTo
  <1> QED BY <1>1, <1>2

\* The fields of texts with separators between them are the texts.
LEMMA SeparatedFields ==
    ASSUME NEW L, NEW separator, separator \notin L, NEW numbers \in Seq(Seq(L)),
           Len(numbers) >= 1
    PROVE  /\ Fields(Separated(numbers, separator), separator) = numbers
           /\ (\A k \in 1..Len(numbers) : Len(numbers[k]) = 2)
                => Len(Separated(numbers, separator)) = 3 * Len(numbers) - 1
           /\ IsText(Separated(numbers, separator))
  <1> DEFINE S == L \cup {separator}
             n == Len(numbers)
             two == \A k \in 1..n : Len(numbers[k]) = 2
             empty == <<>>
  <1>1. PICK f : TextsUpTo(f, n, numbers, separator) /\ Separated(numbers, separator) = Front(f[n])
    BY LenProperties, SeparatedIs
  <1>2. n \in Nat /\ n >= 1 /\ L \in SUBSET S /\ separator \in S /\ empty \in Seq(L) /\ Len(empty) = 0
    BY LenProperties
  <1>3. \A k \in 1..n : numbers[k] \in Seq(L)
    BY ElementOfSeq
  <1>4. f[0] = empty /\ \A k \in 1..n : f[k] = Append(f[k - 1] \o numbers[k], separator)
    BY <1>1, <1>2 DEF TextsUpTo
  <1>5. Fields(empty, separator) = <<empty>>
    BY FieldsEmpty
  <1> HIDE DEF n, S, two, empty
  <1> DEFINE good(k) == /\ f[k] \in Seq(S)
                        /\ Fields(f[k], separator) = Append(SubSeq(numbers, 1, k), empty)
                        /\ two => Len(f[k]) = 3 * k
             x(k) == f[k] \o numbers[k + 1]
             N == {k \in Nat : k <= n => good(k)}
  <1>6. ASSUME NEW k \in Nat, k + 1 <= n, good(k)
        PROVE  /\ x(k) \in Seq(S) /\ f[k + 1] = Append(x(k), separator)
               /\ Fields(x(k), separator) = SubSeq(numbers, 1, k + 1)
               /\ two => Len(x(k)) = 3 * k + 2
    <2> DEFINE s == SubSeq(numbers, 1, k)
               u == numbers[k + 1]
    <2>1. k + 1 \in 1..n /\ (k + 1) - 1 = k
      BY <1>2, <1>6
    <2>2. u \in Seq(L) /\ (two => Len(u) = 2)
      BY <1>3, <2>1 DEF two
    <2>3. s \in Seq(Seq(L))
      <3>1. \A i \in 1..k : numbers[i] \in Seq(L)
        BY <1>2, <1>3, <1>6
      <3>2. k \in Int /\ 1 \in Int
        OBVIOUS
      <3> QED BY <3>1, <3>2, SubSeqProperties
    <2>4. SubSeq(numbers, 1, k + 1) = Append(s, u)
      <3>1. 1 \in 1..Len(numbers) /\ k + 1 \in 1..Len(numbers)
        BY <1>2, <2>1 DEF n
      <3>2. SubSeq(numbers, 1, k + 1) = SubSeq(numbers, 1, (k + 1) - 1) \o <<numbers[k + 1]>>
        BY <3>1, SubSeqRecursiveSecond
      <3>3. Append(s, u) = s \o <<u>>
        <4> HIDE DEF s, u
        <4> QED BY <2>2, <2>3, AppendIsConcat
      <3> QED BY <2>1, <3>2, <3>3
    <2> HIDE DEF s, u
    <2>5. u \in Seq(S)
      BY <1>2, <2>2, SeqMonotonic
    <2>6. f[k] \in Seq(S) /\ Fields(f[k], separator) = Append(s, empty) /\ (two => Len(f[k]) = 3 * k)
      BY <1>6 DEF s
    <2>7. Joined(S, f[k], u, f[k] \o u)
      BY <2>5, <2>6, Joins
    <2>8. Fields(f[k] \o u, separator) = Append(s, empty \o u)
      <3>1. separator \notin L
        OBVIOUS
      <3> DEFINE t == f[k]
      <3>2. t \in Seq(S) /\ Fields(t, separator) = Append(s, empty)
        BY <2>6
      <3> HIDE DEF t
      <3>3. t \in Seq(L \cup {separator}) /\ s \in Seq(Seq(L)) /\ empty \in Seq(L) /\ u \in Seq(L)
        BY <1>2, <2>2, <2>3, <3>2 DEF S
      <3>4. FieldsAt(L, separator, t, s, empty)
        BY <3>2, <3>3 DEF FieldsAt
      <3>5. \A v \in Seq(L) : FieldsAt(L, separator, t \o v, s, empty \o v)
        BY <3>1, <3>4, FieldsBehind
      <3>6. FieldsAt(L, separator, t \o u, s, empty \o u)
        BY <3>3, <3>5
      <3> QED BY <3>6 DEF t, FieldsAt
    <2>9. empty \o u = u
      BY <2>2, ConcatEmptySeq DEF empty
    <2>10. x(k) = f[k] \o u
      BY DEF u
    <2>11. f[k + 1] = Append(x(k), separator)
      BY <1>4, <2>1
    <2> HIDE DEF x
    <2>12. x(k) \in Seq(S) /\ (two => Len(x(k)) = 3 * k + 2)
      BY <2>2, <2>6, <2>7, <2>10 DEF Joined
    <2> QED BY <2>4, <2>8, <2>9, <2>10, <2>11, <2>12
  <1> HIDE DEF x
  <1>7. 0 \in N
    <2>1. SubSeq(numbers, 1, 0) = <<>>
      BY SubSeqEmpty
    <2>2. Append(<<>>, empty) = <<empty>>
      OBVIOUS
    <2>3. empty \in Seq(S)
      BY <1>2, SeqMonotonic
    <2>4. good(0)
      BY <1>2, <1>4, <1>5, <2>1, <2>2, <2>3
    <2> QED BY <2>4
  <1>8. ASSUME NEW k \in Nat, k \in N PROVE k + 1 \in N
    <2> SUFFICES ASSUME k + 1 <= n PROVE good(k + 1)
      OBVIOUS
    <2>1. good(k)
      BY <1>2, <1>8
    <2> HIDE DEF good
    <2>2. /\ x(k) \in Seq(S) /\ f[k + 1] = Append(x(k), separator)
          /\ Fields(x(k), separator) = SubSeq(numbers, 1, k + 1)
          /\ two => Len(x(k)) = 3 * k + 2
      BY <1>6, <2>1
    <2>3. f[k + 1] \in Seq(S) /\ Len(f[k + 1]) = Len(x(k)) + 1
      BY <1>2, <2>2, AppendProperties
    <2>4. Fields(Append(x(k), separator), separator) = Append(Fields(x(k), separator), <<>>)
      <3> DEFINE t == x(k)
      <3>1. t \in Seq(S) /\ separator \in S
        BY <1>2, <2>2
      <3> HIDE DEF t
      <3>2. Fields(Append(t, separator), separator) =
              IF separator = separator THEN Append(Fields(t, separator), <<>>)
              ELSE Append(Front(Fields(t, separator)), Append(Last(Fields(t, separator)), separator))
        BY <3>1, FieldsAppend
      <3>3. Fields(Append(t, separator), separator) = Append(Fields(t, separator), <<>>)
        BY <3>2
      <3> QED BY <3>3 DEF t
    <2>5. two => Len(f[k + 1]) = 3 * (k + 1)
      <3> SUFFICES ASSUME two PROVE Len(f[k + 1]) = 3 * (k + 1)
        OBVIOUS
      <3> DEFINE a == Len(x(k))
                 b == Len(f[k + 1])
      <3>1. a = 3 * k + 2 /\ b = a + 1
        BY <2>2, <2>3
      <3> HIDE DEF a, b
      <3>2. b = 3 * (k + 1)
        BY <3>1
      <3> QED BY <3>2 DEF b
    <2>6. Fields(f[k + 1], separator) = Append(SubSeq(numbers, 1, k + 1), empty)
      BY <2>2, <2>4 DEF empty
    <2> QED BY <2>3, <2>5, <2>6 DEF good
  <1> HIDE DEF N, good
  <1>9. Nat \subseteq N
    BY <1>7, <1>8, Induction
  <1> DEFINE m == n - 1
  <1>10. m \in Nat /\ m + 1 = n /\ m <= n
    BY <1>2
  <1>11. good(m)
    BY <1>9, <1>10 DEF N
  <1>12. /\ x(m) \in Seq(S) /\ f[n] = Append(x(m), separator)
         /\ Fields(x(m), separator) = SubSeq(numbers, 1, n)
         /\ two => Len(x(m)) = 3 * m + 2
    <2>1. m + 1 <= n
      BY <1>2
    <2> HIDE DEF m
    <2> QED BY <1>6, <1>10, <1>11, <2>1
  <1>13. Separated(numbers, separator) = x(m)
    BY <1>1, <1>2, <1>12, FrontLast
  <1>14. SubSeq(numbers, 1, n) = numbers
    BY SubSeqFull DEF n
  <1>15. 3 * m + 2 = 3 * n - 1
    BY <1>2
  <1>16. IsText(x(m))
    BY <1>12 DEF IsText
  <1> QED BY <1>12, <1>13, <1>14, <1>15, <1>16 DEF two, n

\* No digit is a separator.
LEMMA NoSeparator ==
    ":" \notin Letters(Lower, 16) /\ "." \notin Letters(Lower, 10)
  <1>1. ASSUME NEW d \in 1..16
        PROVE  d \in {1, 2, 3, 4, 5, 6, 7, 8, 9, 10, 11, 12, 13, 14, 15, 16}
    OBVIOUS
  <1>2. ASSUME NEW d \in 1..16 PROVE Lower[d] # ":" /\ Lower[d] # "."
    <2>1. /\ Lower[1] = "0" /\ Lower[2] = "1" /\ Lower[3] = "2" /\ Lower[4] = "3"
          /\ Lower[5] = "4" /\ Lower[6] = "5" /\ Lower[7] = "6" /\ Lower[8] = "7"
          /\ Lower[9] = "8" /\ Lower[10] = "9"
      <3>1. /\ 1 \in 1..10 /\ 2 \in 1..10 /\ 3 \in 1..10 /\ 4 \in 1..10 /\ 5 \in 1..10
            /\ 6 \in 1..10 /\ 7 \in 1..10 /\ 8 \in 1..10 /\ 9 \in 1..10 /\ 10 \in 1..10
        OBVIOUS
      <3> QED BY <3>1, LettersAre
    <2>2. /\ Lower[11] = "a" /\ Lower[12] = "b" /\ Lower[13] = "c"
          /\ Lower[14] = "d" /\ Lower[15] = "e" /\ Lower[16] = "f"
      BY LettersAre
    <2> QED BY <1>1, <2>1, <2>2
  <1> QED BY <1>2 DEF Letters

\* What number makes of a word that is not negative, without sign and prefix.
LEMMA PlainNumber ==
    ASSUME NEW word \in Nat, NEW base \in Bases, NEW size \in Int, NEW f,
           word < WordSize, -1 <= size, size <= MaxInt,
           "SMALL" \in f, "SIGN" \notin f, "SPECIAL" \notin f,
           "PLUS" \notin f, "SPACE" \notin f, "LEFT" \notin f
    PROVE  LET tmp == DigitsOf(word, base, Lower)
           IN  /\ tmp \in Seq(Letters(Lower, base)) /\ Len(tmp) >= 1
               /\ Value(tmp, base, Lower) = word
               /\ number(word, base, size, -1, f) =
                    IF "ZEROPAD" \in f THEN Copies("0", size - Len(tmp)) \o tmp
                                       ELSE Copies(Blank, size - Len(tmp)) \o tmp
  <1> DEFINE tmp == DigitsOf(word, base, Lower)
             L == Letters(Lower, base)
             S == L \cup {"0", Blank}
             none == <<>>
  <1>1. tmp \in Seq(L) /\ Len(tmp) >= 1 /\ Value(tmp, base, Lower) = word
    BY Alphabets, DigitsRead DEF DigitsRight
  <1>2. number(word, base, size, -1, f) = Layout(none, none, tmp, size, -1, f)
    <2>1. Sign(FALSE, f) = <<>>
      BY DEF Sign
    <2>2. ~ ("SIGN" \in f /\ word >= WordSize \div 2)
      OBVIOUS
    <2>3. Sign("SIGN" \in f /\ word >= WordSize \div 2, f) = <<>>
      BY <2>1, <2>2 DEF Sign
    <2> QED BY <2>2, <2>3 DEF number
  <1> HIDE DEF tmp
  <1>3. Len(tmp) \in Nat /\ -1 - Len(tmp) \in Int /\ -1 - Len(tmp) <= 0 /\ size - Len(tmp) \in Int
    BY <1>1, LenProperties
  <1>4. tmp \in Seq(S)
    <2>1. L \subseteq S
      OBVIOUS
    <2> HIDE DEF L, S
    <2> QED BY <1>1, <2>1, SeqMonotonic
  <1>5. Copies("0", -1 - Len(tmp)) = none
    BY <1>3 DEF Copies
  <1>6. none \o tmp = tmp /\ none \o none = none
    BY <1>4, ConcatEmptySeq
  <1>7. Len(none) = 0 /\ size - 0 - 0 - Len(tmp) = size - Len(tmp)
    BY <1>3
  <1> DEFINE zeros == Copies("0", size - Len(tmp))
             blanks == Copies(Blank, size - Len(tmp))
  <1>8. zeros \in Seq(S) /\ blanks \in Seq(S)
    <2>1. "0" \in S /\ Blank \in S
      OBVIOUS
    <2> HIDE DEF S
    <2> QED BY <1>3, <2>1, CopiesLie
  <1>e. none \in Seq(S) /\ "0" \in S /\ Blank \in S
    OBVIOUS
  <1>h. Held(none, none, tmp, size, -1)
    <2>1. Len(tmp) <= MaxInt - 5
      BY Alphabets, DigitsRoom DEF tmp
    <2> HIDE DEF none
    <2> QED BY <1>7, <2>1, IntBounds DEF Held
  <1>f. Layout(none, none, tmp, size, -1, f) = Filled(none, none, tmp, size, -1, f)
    <2> HIDE DEF none, S
    <2> QED BY <1>4, <1>e, <1>h, LayoutFilled
  <1>9. Layout(none, none, tmp, size, -1, f) =
          IF "ZEROPAD" \in f THEN (((none \o none) \o zeros) \o tmp)
                             ELSE (((blanks \o none) \o none) \o tmp)
    <2> HIDE DEF none
    <2>1. size - Len(none) - Len(none) - Len(tmp) = size - Len(tmp)
      BY <1>7
    <2> QED BY <1>5, <1>6, <1>f, <2>1 DEF Filled, Room
  <1>10. none \o zeros = zeros /\ blanks \o none = blanks
    <2> HIDE DEF zeros, blanks, S
    <2> QED BY <1>8, ConcatEmptySeq
  <1> HIDE DEF zeros, blanks, none
  <1>11. number(word, base, size, -1, f) = IF "ZEROPAD" \in f THEN zeros \o tmp ELSE blanks \o tmp
    BY <1>2, <1>6, <1>9, <1>10
  <1> QED BY <1>1, <1>11 DEF tmp, zeros, blanks

\* A byte of a hardware address is written in two digits.
LEMMA ByteOfMac ==
    ASSUME NEW byte \in 0..255
    PROVE  LET t == number(byte, 16, 2, -1, {} \cup {"SMALL", "ZEROPAD"})
           IN  t \in Seq(Letters(Lower, 16)) /\ Len(t) = 2 /\ Value(t, 16, Lower) = byte
  <1> DEFINE f == {} \cup {"SMALL", "ZEROPAD"}
             tmp == DigitsOf(byte, 16, Lower)
             L == Letters(Lower, 16)
             z == 2 - Len(tmp)
             zeros == Copies("0", z)
             t == number(byte, 16, 2, -1, f)
  <1>1. /\ "SMALL" \in f /\ "SIGN" \notin f /\ "SPECIAL" \notin f /\ "ZEROPAD" \in f
        /\ "PLUS" \notin f /\ "SPACE" \notin f /\ "LEFT" \notin f
        /\ byte \in Nat /\ 16 \in Bases /\ 16 \in Nat /\ 2 \in Int
    BY DEF Bases
  <1> HIDE DEF f
  <1>2. /\ tmp \in Seq(L) /\ Len(tmp) >= 1 /\ Value(tmp, 16, Lower) = byte
        /\ t = zeros \o tmp
    <2>1. byte < WordSize /\ -1 <= 2 /\ 2 <= MaxInt
      BY WordSizeAssumption, IntBounds
    <2> QED BY <1>1, <2>1, PlainNumber
  <1>3. Len(tmp) <= 2
    <2>1. CASE byte < 16
      <3>1. DigitsOf(byte, 16, Lower) =
              IF byte < 16 THEN <<Lower[byte + 1]>>
              ELSE Append(DigitsOf(byte \div 16, 16, Lower), Lower[(byte % 16) + 1])
        BY <1>1, DigitsAre
      <3>2. tmp = <<Lower[byte + 1]>>
        BY <2>1, <3>1
      <3> HIDE DEF tmp
      <3> QED BY <3>2
    <2>2. CASE byte >= 16
      <3> DEFINE q == byte \div 16
                 s == DigitsOf(q, 16, Lower)
                 ch == Lower[(byte % 16) + 1]
      <3>1. q \in Nat /\ q < 16 /\ ~ (byte < 16)
        BY <2>2
      <3>2. s = <<Lower[q + 1]>>
        <4> HIDE DEF q
        <4> QED BY <1>1, <3>1, DigitsAre
      <3>3. tmp = Append(s, ch)
        <4>1. DigitsOf(byte, 16, Lower) =
                IF byte < 16 THEN <<Lower[byte + 1]>>
                ELSE Append(DigitsOf(byte \div 16, 16, Lower), Lower[(byte % 16) + 1])
          BY <1>1, DigitsAre
        <4>2. ~ (byte < 16)
          BY <3>1
        <4> HIDE DEF q
        <4>3. tmp = IF byte < 16 THEN <<Lower[byte + 1]>> ELSE Append(s, ch)
          BY <4>1 DEF q
        <4> HIDE DEF tmp, s, ch
        <4> QED BY <4>2, <4>3
      <3> HIDE DEF q, s, ch, tmp
      <3> DEFINE first == Lower[q + 1]
      <3>4. s = <<first>>
        BY <3>2
      <3> HIDE DEF first
      <3>5. Len(Append(<<first>>, ch)) = 2
        OBVIOUS
      <3> QED BY <3>3, <3>4, <3>5
    <2> QED BY <1>1, <2>1, <2>2
  <1> HIDE DEF tmp, t
  <1>4. z \in Int /\ z >= 0 /\ Len(tmp) \in Nat
    BY <1>2, <1>3, LenProperties
  <1>5. "0" \in L /\ Alphabet(Lower, 16)
    <2>1. Alphabet(Lower, 16) /\ 1 \in 1..16
      BY <1>1, Alphabets
    <2> QED BY <2>1 DEF Alphabet, Letters
  <1>6. zeros \in Seq(L) /\ Len(zeros) = z
    <2> HIDE DEF L, z
    <2>1. (IF z <= 0 THEN 0 ELSE z) = z
      BY <1>4
    <2> QED BY <1>4, <1>5, <2>1, CopiesLie
  <1>7. Value(zeros \o tmp, 16, Lower) = byte
    <2> HIDE DEF L, z
    <2> QED BY <1>1, <1>2, <1>4, <1>5, ValueZeros
  <1> HIDE DEF zeros
  <1>8. Joined(L, zeros, tmp, zeros \o tmp)
    BY <1>2, <1>6, Joins
  <1>9. t \in Seq(L) /\ Len(t) = z + Len(tmp)
    BY <1>2, <1>6, <1>8 DEF Joined
  <1>10. Len(t) = 2
    <2> HIDE DEF L
    <2> QED BY <1>4, <1>9
  <1>11. Value(t, 16, Lower) = byte
    BY <1>2, <1>7
  <1> HIDE DEF z
  <1> QED BY <1>9, <1>10, <1>11 DEF t, f, L

\* A byte of an internet address is written in its digits.
LEMMA ByteOfIp ==
    ASSUME NEW byte \in 0..255
    PROVE  LET t == number(byte, 10, -1, -1, {} \cup {"SMALL"})
           IN  t \in Seq(Letters(Lower, 10)) /\ Value(t, 10, Lower) = byte
  <1> DEFINE f == {} \cup {"SMALL"}
             tmp == DigitsOf(byte, 10, Lower)
             L == Letters(Lower, 10)
             t == number(byte, 10, -1, -1, f)
  <1>1. /\ "SMALL" \in f /\ "SIGN" \notin f /\ "SPECIAL" \notin f /\ "ZEROPAD" \notin f
        /\ "PLUS" \notin f /\ "SPACE" \notin f /\ "LEFT" \notin f
        /\ byte \in Nat /\ 10 \in Bases /\ -1 \in Int
    BY DEF Bases
  <1> HIDE DEF f
  <1>2. /\ tmp \in Seq(L) /\ Len(tmp) >= 1 /\ Value(tmp, 10, Lower) = byte
        /\ t = Copies(Blank, -1 - Len(tmp)) \o tmp
    <2>1. byte < WordSize /\ -1 <= -1 /\ -1 <= MaxInt
      BY WordSizeAssumption, IntBounds
    <2> QED BY <1>1, <2>1, PlainNumber
  <1> HIDE DEF tmp, t, L
  <1>3. -1 - Len(tmp) \in Int /\ -1 - Len(tmp) <= 0
    BY <1>2, LenProperties
  <1>4. Copies(Blank, -1 - Len(tmp)) = <<>>
    BY <1>3 DEF Copies
  <1>5. <<>> \o tmp = tmp
    BY <1>2, ConcatEmptySeq
  <1> QED BY <1>2, <1>4, <1>5 DEF t, f, L

\* A hardware address is printed in pairs of digits.
LEMMA MacSays ==
    ASSUME NEW bytes \in Seq(0..255), Len(bytes) = 6
    PROVE  LET text == Separated([k \in 1..6 |->
                           number(bytes[k], 16, 2, -1, {} \cup {"SMALL", "ZEROPAD"})], ":")
           IN  Len(text) = 17 /\ AreBytes(text, bytes, ":", 16) /\ IsText(text)
  <1> DEFINE L == Letters(Lower, 16)
             digits(k) == number(bytes[k], 16, 2, -1, {} \cup {"SMALL", "ZEROPAD"})
             numbers == [k \in 1..6 |-> digits(k)]
             text == Separated(numbers, ":")
  <1>1. ASSUME NEW k \in 1..6
        PROVE  digits(k) \in Seq(L) /\ Len(digits(k)) = 2 /\ Value(digits(k), 16, Lower) = bytes[k]
    <2>1. bytes[k] \in 0..255
      BY ElementOfSeq
    <2> QED BY <2>1, ByteOfMac
  <1> HIDE DEF digits, L
  <1>2. /\ numbers \in Seq(Seq(L)) /\ Len(numbers) = 6
        /\ \A k \in 1..6 : numbers[k] = digits(k)
    BY <1>1
  <1>3. ":" \notin L
    BY NoSeparator DEF L
  <1> HIDE DEF numbers
  <1>4. /\ Fields(text, ":") = numbers /\ IsText(text)
        /\ (\A k \in 1..Len(numbers) : Len(numbers[k]) = 2) => Len(text) = 3 * Len(numbers) - 1
    <2> DEFINE separator == ":"
    <2>1. Len(numbers) >= 1 /\ separator \notin L
      BY <1>2, <1>3
    <2> HIDE DEF separator
    <2>2. /\ Fields(Separated(numbers, separator), separator) = numbers
          /\ (\A k \in 1..Len(numbers) : Len(numbers[k]) = 2)
                => Len(Separated(numbers, separator)) = 3 * Len(numbers) - 1
          /\ IsText(Separated(numbers, separator))
      BY <1>2, <2>1, SeparatedFields
    <2> QED BY <2>2 DEF separator
  <1> HIDE DEF text
  <1>5. Len(text) = 17
    <2>1. \A k \in 1..Len(numbers) : Len(numbers[k]) = 2
      BY <1>1, <1>2
    <2>2. Len(text) = 3 * Len(numbers) - 1
      BY <1>4, <2>1
    <2> QED BY <1>2, <2>2
  <1>6. AreBytes(text, bytes, ":", 16)
    <2>1. \A k \in 1..6 : Value(numbers[k], 16, Lower) = bytes[k]
      BY <1>1, <1>2
    <2> QED BY <1>2, <1>4, <2>1 DEF AreBytes
  <1> QED BY <1>4, <1>5, <1>6 DEF text, numbers, digits

\* An internet address is printed in its first four bytes.
LEMMA IpSays ==
    ASSUME NEW bytes \in Seq(0..255), Len(bytes) = 6
    PROVE  LET text == Separated([k \in 1..4 |->
                           number(bytes[k], 10, -1, -1, {} \cup {"SMALL"})], ".")
           IN  AreBytes(text, SubSeq(bytes, 1, 4), ".", 10) /\ IsText(text)
  <1> DEFINE L == Letters(Lower, 10)
             digits(k) == number(bytes[k], 10, -1, -1, {} \cup {"SMALL"})
             numbers == [k \in 1..4 |-> digits(k)]
             text == Separated(numbers, ".")
             four == SubSeq(bytes, 1, 4)
  <1>1. ASSUME NEW k \in 1..4
        PROVE  digits(k) \in Seq(L) /\ Value(digits(k), 10, Lower) = bytes[k]
    <2>1. bytes[k] \in 0..255
      <3>1. k \in 1..Len(bytes)
        OBVIOUS
      <3> QED BY <3>1, ElementOfSeq
    <2> QED BY <2>1, ByteOfIp
  <1> HIDE DEF digits, L
  <1>2. /\ numbers \in Seq(Seq(L)) /\ Len(numbers) = 4
        /\ \A k \in 1..4 : numbers[k] = digits(k)
    BY <1>1
  <1>3. "." \notin L
    BY NoSeparator DEF L
  <1> HIDE DEF numbers
  <1>4. Fields(text, ".") = numbers /\ IsText(text)
    <2>1. Len(numbers) >= 1
      BY <1>2
    <2> QED BY <1>2, <1>3, <2>1, SeparatedFields
  <1> HIDE DEF text
  <1>5. Len(four) = 4 /\ \A k \in 1..4 : four[k] = bytes[k]
    OBVIOUS
  <1> HIDE DEF four
  <1>6. AreBytes(text, four, ".", 10)
    <2>1. \A k \in 1..4 : Value(numbers[k], 10, Lower) = four[k]
      BY <1>1, <1>2, <1>5
    <2> QED BY <1>2, <1>4, <1>5, <2>1 DEF AreBytes
  <1> QED BY <1>4, <1>6 DEF text, numbers, digits, four

\* The number behind a directive.
LEMMA FortyTwo ==
    ASSUME NEW f, "SIGN" \in f, "SMALL" \notin f, "SPECIAL" \notin f, "PLUS" \notin f,
           "SPACE" \notin f, "LEFT" \notin f, "ZEROPAD" \notin f
    PROVE  number(42, 10, -1, -1, f) = <<"4", "2">>
  <1> DEFINE tmp == DigitsOf(42, 10, Upper)
             none == <<>>
  <1>1. ~ ("SIGN" \in f /\ 42 >= WordSize \div 2)
    BY IntBounds
  <1>2. Sign("SIGN" \in f /\ 42 >= WordSize \div 2, f) = none
    <2>1. Sign(FALSE, f) = none
      BY DEF Sign
    <2> QED BY <1>1, <2>1 DEF Sign
  <1>3. number(42, 10, -1, -1, f) = Layout(none, none, tmp, -1, -1, f)
    BY <1>1, <1>2 DEF number
  <1>4. tmp = <<"4", "2">>
    <2>1. Upper[5] = "4" /\ Upper[3] = "2"
      <3>1. 5 \in 1..10 /\ 3 \in 1..10
        OBVIOUS
      <3> QED BY <3>1, LettersAre
    <2>2. DigitsOf(4, 10, Upper) = IF 4 < 10 THEN <<Upper[4 + 1]>>
                                   ELSE Append(DigitsOf(4 \div 10, 10, Upper), Upper[(4 % 10) + 1])
      BY DigitsAre DEF Bases
    <2>3. DigitsOf(42, 10, Upper) = IF 42 < 10 THEN <<Upper[42 + 1]>>
                                    ELSE Append(DigitsOf(42 \div 10, 10, Upper), Upper[(42 % 10) + 1])
      BY DigitsAre DEF Bases
    <2> DEFINE up == Upper
               four == DigitsOf(4, 10, Upper)
    <2> HIDE DEF up
    <2>4. four = <<"4">>
      <3>1. 4 < 10 /\ 4 + 1 = 5
        OBVIOUS
      <3> QED BY <2>1, <2>2, <3>1
    <2>5. tmp = Append(four, "2")
      <3>1. ~ (42 < 10) /\ 42 \div 10 = 4 /\ (42 % 10) + 1 = 3
        OBVIOUS
      <3> QED BY <2>1, <2>3, <3>1
    <2> HIDE DEF four, tmp
    <2>6. Append(<<"4">>, "2") = <<"4", "2">>
      <3> DEFINE S == {"4", "2"}
                 s == Append(<<"4">>, "2")
                 t == <<"4", "2">>
      <3>1. s \in Seq(S) /\ t \in Seq(S) /\ Len(s) = 2 /\ Len(t) = 2
        OBVIOUS
      <3>2. s[1] = "4" /\ s[2] = "2" /\ t[1] = "4" /\ t[2] = "2"
        OBVIOUS
      <3> HIDE DEF s, t, S
      <3>3. \A i \in 1..Len(s) : s[i] = t[i]
        BY <3>1, <3>2
      <3>4. s = t
        BY <3>1, <3>3, SeqEqual
      <3> QED BY <3>4 DEF s, t
    <2> QED BY <2>4, <2>5, <2>6
  <1>5. Layout(none, none, <<"4", "2">>, -1, -1, f) = <<"4", "2">>
    <2> DEFINE two == <<"4", "2">>
               S == {"4", "2"}
    <2>1. two \in Seq(S) /\ Len(two) = 2 /\ Len(none) = 0
      OBVIOUS
    <2> HIDE DEF two
    <2>2. none \o two = two /\ none \o none = none /\ two \o none = two
      BY <2>1, ConcatEmptySeq
    <2> HIDE DEF none
    <2>3. Copies("0", -1 - Len(two)) = none
      BY <2>1 DEF Copies, none
    <2>4. Copies(Blank, -1 - Len(none) - Len(none) - Len(two)) = none
      BY <2>1 DEF Copies, none
    <2>h. Held(none, none, two, -1, -1)
      BY <2>1, IntBounds DEF Held
    <2>f. Layout(none, none, two, -1, -1, f) = Filled(none, none, two, -1, -1, f)
      <3> DEFINE T == {"4", "2", "0", Blank}
      <3>1. two \in Seq(T) /\ none \in Seq(T) /\ "0" \in T /\ Blank \in T
        BY DEF two, none
      <3> HIDE DEF T
      <3> QED BY <2>h, <3>1, LayoutFilled
    <2>5. Layout(none, none, two, -1, -1, f) = ((none \o none) \o none) \o two
      BY <2>2, <2>3, <2>4, <2>f DEF Filled, Room
    <2> QED BY <2>2, <2>5 DEF two
  <1> HIDE DEF tmp, none
  <1> QED BY <1>3, <1>4, <1>5

\* A flag of the format, and what it sets.
LEMMA FlagsMean ==
    /\ DOMAIN FlagOf = {"-", "+", Blank, "#", "0"}
    /\ \A ch \in DOMAIN FlagOf :
         /\ FlagOf[ch] = "LEFT" <=> ch = "-"
         /\ FlagOf[ch] = "PLUS" <=> ch = "+"
         /\ FlagOf[ch] = "SPACE" <=> ch = Blank
         /\ FlagOf[ch] = "SPECIAL" <=> ch = "#"
         /\ FlagOf[ch] = "ZEROPAD" <=> ch = "0"
         /\ FlagOf[ch] \notin {"SMALL", "SIGN"}
  <1>1. Blank # "-" /\ Blank # "+" /\ Blank # "#" /\ Blank # "0"
    BY Zenon DEF Blank
  <1>2. DOMAIN FlagOf = {"-", "+", Blank, "#", "0"}
    BY DEF FlagOf
  <1>3. /\ FlagOf["-"] = "LEFT" /\ FlagOf["+"] = "PLUS" /\ FlagOf[Blank] = "SPACE"
        /\ FlagOf["#"] = "SPECIAL" /\ FlagOf["0"] = "ZEROPAD"
    BY <1>1 DEF FlagOf
  <1> QED BY <1>1, <1>2, <1>3

\* What is told apart by the parser.
LEMMA Marks ==
    /\ ToSet(Digits) = {"0", "1", "2", "3", "4", "5", "6", "7", "8", "9"}
    /\ {"*", ".", "h", "l", "L", "c", "s", "n", "m", "r", "f", "%", "z", "d"} \cap
         (ToSet(Digits) \cup DOMAIN FlagOf \cup {EOS}) = {}
    /\ \A ch \in ToSet(Digits) : ch # "*" /\ (ch \in DOMAIN FlagOf => ch = "0")
  <1>1. ToSet(Digits) = {"0", "1", "2", "3", "4", "5", "6", "7", "8", "9"}
    <2>1. /\ DOMAIN Digits = 1..10
          /\ 1..10 = {1, 2, 3, 4, 5, 6, 7, 8, 9, 10}
      BY DEF Digits
    <2>2. ToSet(Digits) = {Digits[i] : i \in {1, 2, 3, 4, 5, 6, 7, 8, 9, 10}}
      BY <2>1 DEF ToSet
    <2> QED BY <2>2, LettersAre
  <1>2. ASSUME NEW ch \in {"*", ".", "h", "l", "L", "c", "s", "n", "m", "r", "f", "%", "z", "d",
                           "1", "2", "3", "4", "5", "6", "7", "8", "9"}
        PROVE  ch # Blank /\ ch # EOS
    BY Zenon DEF Blank, EOS
  <1>3. DOMAIN FlagOf = {"-", "+", Blank, "#", "0"}
    BY FlagsMean
  <1> QED BY <1>1, <1>2, <1>3

(* Where the parts of a directive are in the format. *)

\* The text t stands in u behind its first p characters.
Holds(u, p, t) ==
    p \in Nat /\ Len(t) \in Nat /\ p + Len(t) <= Len(u) /\ \A k \in 1..Len(t) : u[p + k] = t[k]

\* A text that stands before another, and that one.
LEMMA HoldsBefore ==
    ASSUME NEW S, NEW s \in Seq(S), NEW r \in Seq(S)
    PROVE  /\ s \o r \in Seq(S) /\ Len(s \o r) = Len(s) + Len(r) /\ Len(s) \in Nat
           /\ Holds(s \o r, Len(s), r)
           /\ \A p, t : Holds(s, p, t) => Holds(s \o r, p, t)
  <1> DEFINE u == s \o r
  <1>1. Joined(S, s, r, u)
    BY Joins
  <1> HIDE DEF u
  <1>2. /\ u \in Seq(S) /\ Len(u) = Len(s) + Len(r) /\ Len(s) \in Nat /\ Len(r) \in Nat
        /\ \A k \in 1..Len(s) : u[k] = s[k]
        /\ \A k \in 1..Len(r) : u[Len(s) + k] = r[k]
    BY <1>1 DEF Joined
  <1>3. Holds(u, Len(s), r)
    BY <1>2 DEF Holds
  <1>4. ASSUME NEW p, NEW t, Holds(s, p, t) PROVE Holds(u, p, t)
    <2>1. \A k \in 1..Len(t) : p + k \in 1..Len(s)
      BY <1>2, <1>4 DEF Holds
    <2> QED BY <1>2, <1>4, <2>1 DEF Holds
  <1> QED BY <1>2, <1>3, <1>4 DEF u

PW(d) == 1 + Len(d.text.flags)
PP(d) == PW(d) + Len(d.text.width)
PL(d) == PP(d) + Len(d.text.precision)
PC(d) == PL(d) + Len(d.text.length)

\* The format of a whole call, part by part.
Laid(c) ==
    LET d == c.directive
    IN  /\ Holds(c.fmt, 0, <<"%">>) /\ Holds(c.fmt, 1, d.text.flags)
        /\ Holds(c.fmt, PW(d), d.text.width) /\ Holds(c.fmt, PP(d), d.text.precision)
        /\ Holds(c.fmt, PL(d), d.text.length) /\ Holds(c.fmt, PC(d), <<d.conv>>)
        /\ Holds(c.fmt, PC(d) + 1, <<"z", "%", "d">>)
        /\ Len(c.fmt) = PC(d) + 4

\* Texts one behind the other.
Behinds(u, h, a, b, p, q, e, r) ==
    /\ Holds(u, 0, h) /\ Holds(u, Len(h), a)
    /\ Holds(u, Len(h) + Len(a), b)
    /\ Holds(u, (Len(h) + Len(a)) + Len(b), p)
    /\ Holds(u, ((Len(h) + Len(a)) + Len(b)) + Len(p), q)
    /\ Holds(u, (((Len(h) + Len(a)) + Len(b)) + Len(p)) + Len(q), e)
    /\ Holds(u, ((((Len(h) + Len(a)) + Len(b)) + Len(p)) + Len(q)) + Len(e), r)
    /\ Len(u) = (((((Len(h) + Len(a)) + Len(b)) + Len(p)) + Len(q)) + Len(e)) + Len(r)

\* Where the parts of a text put together from parts stand.
LEMMA LaidParts ==
    ASSUME NEW S, NEW h \in Seq(S), NEW a \in Seq(S), NEW b \in Seq(S), NEW p \in Seq(S),
           NEW q \in Seq(S), NEW e \in Seq(S), NEW r \in Seq(S)
    PROVE  Behinds((((((h \o a) \o b) \o p) \o q) \o e) \o r, h, a, b, p, q, e, r)
  <1> DEFINE s1 == h \o a
             s2 == s1 \o b
             s3 == s2 \o p
             s4 == s3 \o q
             s5 == s4 \o e
             s6 == s5 \o r
  <1>0. Holds(h, 0, h)
    <2>1. Len(h) \in Nat /\ \A k \in 1..Len(h) : 0 + k = k
      BY LenProperties
    <2> QED BY <2>1 DEF Holds
  <1>1. /\ s1 \in Seq(S) /\ Len(s1) = Len(h) + Len(a) /\ Holds(s1, Len(h), a)
        /\ \A n, t : Holds(h, n, t) => Holds(s1, n, t)
    BY HoldsBefore
  <1> HIDE DEF s1
  <1>2. /\ s2 \in Seq(S) /\ Len(s2) = Len(s1) + Len(b) /\ Holds(s2, Len(s1), b)
        /\ \A n, t : Holds(s1, n, t) => Holds(s2, n, t)
    BY <1>1, HoldsBefore
  <1> HIDE DEF s2
  <1>3. /\ s3 \in Seq(S) /\ Len(s3) = Len(s2) + Len(p) /\ Holds(s3, Len(s2), p)
        /\ \A n, t : Holds(s2, n, t) => Holds(s3, n, t)
    BY <1>2, HoldsBefore
  <1> HIDE DEF s3
  <1>4. /\ s4 \in Seq(S) /\ Len(s4) = Len(s3) + Len(q) /\ Holds(s4, Len(s3), q)
        /\ \A n, t : Holds(s3, n, t) => Holds(s4, n, t)
    BY <1>3, HoldsBefore
  <1> HIDE DEF s4
  <1>5. /\ s5 \in Seq(S) /\ Len(s5) = Len(s4) + Len(e) /\ Holds(s5, Len(s4), e)
        /\ \A n, t : Holds(s4, n, t) => Holds(s5, n, t)
    BY <1>4, HoldsBefore
  <1> HIDE DEF s5
  <1>6. /\ s6 \in Seq(S) /\ Len(s6) = Len(s5) + Len(r) /\ Holds(s6, Len(s5), r)
        /\ \A n, t : Holds(s5, n, t) => Holds(s6, n, t)
    BY <1>5, HoldsBefore
  <1> HIDE DEF s6
  <1>7. Behinds(s6, h, a, b, p, q, e, r)
    BY <1>0, <1>1, <1>2, <1>3, <1>4, <1>5, <1>6 DEF Behinds
  <1> QED BY <1>7 DEF s1, s2, s3, s4, s5, s6

\* The parts of a directive stand where they should in the format of its call.
LEMMA WholeLaid ==
    ASSUME NEW c, IsWhole(c) PROVE Laid(c)
  <1> DEFINE d == c.directive
             S == STRING \cup DOMAIN FlagOf \cup ToSet(Digits) \cup {"*", ".", "h", "l", "L", "%", "z", "d"}
             h == <<"%">>
             e == <<d.conv>>
             r == <<"z", "%", "d">>
             text == d.text
             p == text.precision
             q == text.length
  <1>1. /\ IsDirective(d) /\ c.fmt = Text(d) \o r
    BY DEF IsWhole
  <1>2. /\ h \in Seq(S) /\ e \in Seq(S) /\ r \in Seq(S)
        /\ Len(h) = 1 /\ Len(e) = 1 /\ Len(r) = 3
    <2>1. d.conv \in S
      BY <1>1 DEF IsDirective
    <2>2. "%" \in S /\ "z" \in S /\ "d" \in S
      OBVIOUS
    <2> HIDE DEF S
    <2> QED BY <2>1, <2>2
  <1>3. text.flags \in Seq(S)
    <2>1. DOMAIN FlagOf \subseteq S
      OBVIOUS
    <2> HIDE DEF S
    <2> QED BY <1>1, <2>1, SeqMonotonic DEF IsDirective
  <1>4. text.width \in Seq(S)
    <2>1. ToSet(Digits) \subseteq S /\ "*" \in S
      OBVIOUS
    <2> HIDE DEF S
    <2>2. \/ text.width = <<>> \/ text.width \in Seq(ToSet(Digits)) \/ text.width = <<"*">>
      BY <1>1 DEF IsDirective, IsWidth, IsNumber
    <2>3. <<>> \in Seq(S) /\ <<"*">> \in Seq(S)
      BY <2>1
    <2> QED BY <2>1, <2>2, <2>3, SeqMonotonic
  <1>5. p \in Seq(S)
    <2>1. ToSet(Digits) \subseteq S /\ "." \in S
      OBVIOUS
    <2> HIDE DEF S
    <2>2. p = <<>> \/ (Tail(p) \in Seq(ToSet(Digits)) /\ p = <<".">> \o Tail(p))
      BY <1>1 DEF IsDirective, IsPrecision, IsNumber
    <2>3. <<>> \in Seq(S) /\ <<".">> \in Seq(S)
      BY <2>1
    <2>4. ASSUME Tail(p) \in Seq(ToSet(Digits)), p = <<".">> \o Tail(p) PROVE p \in Seq(S)
      <3> DEFINE t == Tail(p)
      <3>1. t \in Seq(S)
        BY <2>1, <2>4, SeqMonotonic
      <3> HIDE DEF t
      <3>2. <<".">> \o t \in Seq(S)
        BY <2>3, <3>1, ConcatProperties
      <3> QED BY <2>4, <3>2 DEF t
    <2> QED BY <2>2, <2>3, <2>4
  <1>6. q \in Seq(S)
    <2>1. "h" \in S /\ "l" \in S /\ "L" \in S
      OBVIOUS
    <2> HIDE DEF S
    <2>2. <<>> \in Seq(S) /\ <<"h">> \in Seq(S) /\ <<"l">> \in Seq(S) /\ <<"L">> \in Seq(S)
      BY <2>1
    <2> QED BY <1>1, <2>2 DEF IsDirective
  <1>7. c.fmt = (((((h \o text.flags) \o text.width) \o p) \o q) \o e) \o r
    BY <1>1 DEF Text
  <1> DEFINE u == c.fmt
  <1>8. u = (((((h \o text.flags) \o text.width) \o p) \o q) \o e) \o r
    BY <1>7
  <1> HIDE DEF S, h, e, r, u, p, q
  <1> DEFINE a == text.flags
             b == text.width
             na == 1 + Len(a)
             nb == na + Len(b)
             np == nb + Len(p)
             nq == np + Len(q)
  <1>9. a \in Seq(S) /\ b \in Seq(S) /\ u = (((((h \o a) \o b) \o p) \o q) \o e) \o r
    BY <1>3, <1>4, <1>8
  <1> HIDE DEF a, b
  <1>10. /\ Holds(u, 0, h) /\ Holds(u, 1, a) /\ Holds(u, na, b) /\ Holds(u, nb, p)
         /\ Holds(u, np, q) /\ Holds(u, nq, e) /\ Holds(u, nq + 1, r)
         /\ Len(u) = (nq + 1) + 3
    <2>1. Behinds((((((h \o a) \o b) \o p) \o q) \o e) \o r, h, a, b, p, q, e, r)
      BY <1>2, <1>5, <1>6, <1>9, LaidParts
    <2>2. Behinds(u, h, a, b, p, q, e, r)
      BY <1>9, <2>1
    <2> QED BY <1>2, <2>2 DEF Behinds
  <1>11. na = PW(d) /\ nb = PP(d) /\ np = PL(d) /\ nq = PC(d)
    BY DEF PW, PP, PL, PC, a, b, p, q
  <1>12. nq \in Nat
    BY <1>2, <1>10 DEF Holds
  <1> HIDE DEF na, nb, np, nq
  <1>13. (nq + 1) + 3 = nq + 4
    BY <1>12
  <1> QED BY <1>10, <1>11, <1>13 DEF Laid, u, h, a, b, p, q, e, r

(* The digits in the format. *)

\* The value of digits is a number.
LEMMA ValueNat ==
    ASSUME NEW t \in Seq(ToSet(Digits)) PROVE Value(t, 10, Digits) \in Nat
  <1>1. PICK f : ValuesUpTo(f, Len(t), t, 10, Digits) /\ Value(t, 10, Digits) = f[Len(t)]
    BY LenProperties, ValueIs
  <1>2. ASSUME NEW k \in 1..Len(t) PROVE Rank(t[k], 10, Digits) \in Nat
    <2>1. t[k] \in ToSet(Digits)
      BY ElementOfSeq
    <2>2. PICK i \in 1..10 : t[k] = Digits[i]
      <3>1. DOMAIN Digits = 1..10
        BY DEF Digits
      <3> QED BY <2>1, <3>1 DEF ToSet
    <2>3. Alphabet(Digits, 10) /\ 10 \in Nat
      BY Alphabets
    <2>4. Rank(Digits[i], 10, Digits) = i - 1
      BY <2>3, RankIs
    <2> QED BY <2>2, <2>4
  <1> DEFINE N == {k \in Nat : k <= Len(t) => f[k] \in Nat}
  <1>3. 0 \in N
    BY <1>1, LenProperties DEF ValuesUpTo
  <1>4. ASSUME NEW k \in Nat, k \in N PROVE k + 1 \in N
    <2> SUFFICES ASSUME k + 1 <= Len(t) PROVE f[k + 1] \in Nat
      OBVIOUS
    <2>1. k + 1 \in 1..Len(t) /\ (k + 1) - 1 = k /\ f[k] \in Nat
      BY <1>4, LenProperties
    <2>2. f[k + 1] = f[(k + 1) - 1] * 10 + Rank(t[k + 1], 10, Digits)
      BY <1>1, <2>1 DEF ValuesUpTo
    <2> DEFINE a == f[k]
               b == Rank(t[k + 1], 10, Digits)
    <2>3. a \in Nat /\ b \in Nat /\ f[k + 1] = a * 10 + b
      BY <1>2, <2>1, <2>2
    <2> HIDE DEF a, b
    <2> QED BY <2>3
  <1> HIDE DEF N
  <1>5. Nat \subseteq N
    BY <1>3, <1>4, Induction
  <1>6. Len(t) \in Nat
    BY LenProperties
  <1>7. Len(t) \in N
    BY <1>5, <1>6
  <1>8. f[Len(t)] \in Nat
    BY <1>6, <1>7 DEF N
  <1> QED BY <1>1, <1>8

\* Where a numeral stands and no digit behind it, skip_atoi reads it.
LEMMA NumeralRead ==
    ASSUME NEW t \in Seq(ToSet(Digits)), NEW p \in Nat, fmt = p + 1, Holds(call.fmt, p, t),
           call.fmt \in Seq(STRING), p + Len(t) + 1 <= Len(call.fmt),
           call.fmt[p + Len(t) + 1] \notin ToSet(Digits)
    PROVE  /\ t = <<>> => DigitRun = {}
           /\ t # <<>> => /\ DigitRun # {} /\ Max(DigitRun) = p + Len(t)
                          /\ Value(t, 10, Digits) <= MaxInt => Atoi = Value(t, 10, Digits)
  <1> DEFINE s == call.fmt
             n == Len(t)
  <1>1. /\ n \in Nat /\ Len(s) \in Nat /\ p + n <= Len(s)
        /\ \A k \in 1..n : s[p + k] = t[k] /\ t[k] \in ToSet(Digits)
    BY LenProperties, ElementOfSeq DEF Holds
  <1>2. p + n + 1 <= Len(s) /\ s[p + n + 1] \notin ToSet(Digits)
    OBVIOUS
  <1>3. DigitRun = {k \in (p + 1)..Len(s) : \A j \in (p + 1)..k : s[j] \in ToSet(Digits)}
    BY DEF DigitRun
  <1> HIDE DEF s, n
  <1>4. ASSUME NEW j \in (p + 1)..(p + n) PROVE s[j] \in ToSet(Digits)
    <2>1. j - p \in 1..n /\ p + (j - p) = j
      BY <1>1
    <2> QED BY <1>1, <2>1
  <1>5. DigitRun = (p + 1)..(p + n)
    <2>1. ASSUME NEW k \in (p + 1)..(p + n) PROVE k \in DigitRun
      <3>1. k \in (p + 1)..Len(s) /\ \A j \in (p + 1)..k : j \in (p + 1)..(p + n)
        BY <1>1
      <3> QED BY <1>3, <1>4, <3>1
    <2>2. ASSUME NEW k \in DigitRun PROVE k \in (p + 1)..(p + n)
      <3>1. k \in (p + 1)..Len(s) /\ \A j \in (p + 1)..k : s[j] \in ToSet(Digits)
        BY <1>3
      <3>2. ~ (k >= p + n + 1)
        <4> SUFFICES ASSUME k >= p + n + 1 PROVE FALSE
          OBVIOUS
        <4>1. p + n + 1 \in (p + 1)..k
          BY <1>1, <3>1
        <4> QED BY <1>2, <3>1, <4>1
      <3> QED BY <1>1, <3>1, <3>2
    <2> QED BY <2>1, <2>2
  <1>6. t = <<>> => DigitRun = {}
    <2>1. t = <<>> => n = 0
      BY DEF n
    <2> QED BY <1>5, <2>1
  <1>7. ASSUME t # <<>>
        PROVE  /\ DigitRun # {} /\ Max(DigitRun) = p + n
               /\ Value(t, 10, Digits) <= MaxInt => Atoi = Value(t, 10, Digits)
    <2>1. n >= 1
      BY <1>1, <1>7, EmptySeq DEF n
    <2>2. DigitRun # {} /\ DigitRun \in SUBSET Int /\ p + n \in DigitRun /\ \A y \in DigitRun : p + n >= y
      <3> DEFINE run == (p + 1)..(p + n)
      <3>1. run \in SUBSET Int /\ p + n \in run /\ \A y \in run : p + n >= y
        BY <1>1, <2>1
      <3>2. DigitRun = run
        BY <1>5
      <3> HIDE DEF run
      <3> QED BY <3>1, <3>2
    <2>3. Max(DigitRun) = p + n
      BY <2>2, MaxIs
    <2>4. SubSeq(s, p + 1, p + n) = t
      <3> DEFINE S == STRING \cup ToSet(Digits)
      <3>1. s \in Seq(S) /\ t \in Seq(S)
        <4>1. STRING \subseteq S /\ ToSet(Digits) \subseteq S
          OBVIOUS
        <4> HIDE DEF S
        <4> QED BY <4>1, SeqMonotonic DEF s
      <3> HIDE DEF S
      <3>2. p + n \in Nat /\ p + Len(t) = p + n /\ p + n <= Len(s) /\ \A k \in 1..Len(t) : s[p + k] = t[k]
        BY <1>1 DEF n
      <3> QED BY <3>1, <3>2, PartIs
    <2>5. Atoi = Wrap(Value(t, 10, Digits))
      <3>1. Atoi = Wrap(Value(SubSeq(s, p + 1, p + n), 10, Digits))
        BY <2>3 DEF Atoi, s
      <3> QED BY <2>4, <3>1
    <2>6. ASSUME Value(t, 10, Digits) <= MaxInt PROVE Atoi = Value(t, 10, Digits)
      <3> DEFINE v == Value(t, 10, Digits)
      <3>1. v \in Nat
        BY ValueNat
      <3> HIDE DEF v
      <3>2. Wrap(v) = v
        BY <2>6, <3>1, IntBounds, WrapKeeps DEF v
      <3> QED BY <2>5, <3>2 DEF v
    <2> QED BY <2>2, <2>3, <2>6
  <1> QED BY <1>6, <1>7 DEF n

(* The way through the format of a whole call. *)

\* The flags read, those of the directive before its width, and all of them.
FlagsRead(d, n) == {FlagOf[d.text.flags[k]] : k \in 1..n}
StarFlags(d)    == IF d.star # <<>> /\ Int32(Head(d.star).word) < 0 THEN {"LEFT"} ELSE {}
AllFlags(d)     == FlagsRead(d, Len(d.text.flags)) \cup StarFlags(d)

\* The arguments behind the first n are left.
Left(n) ==
    /\ args \in Seq(ToSet(call.args)) /\ n \in Nat /\ n <= Len(call.args)
    /\ Len(args) = Len(call.args) - n
    /\ \A k \in 1..Len(args) : args[k] = call.args[n + k]

\* The directive of a call that is whole.
OfCall(d) == d = call.directive /\ IsWhole(call) /\ Laid(call) /\ call.fmt \in Seq(STRING)
               /\ call.args \in Seq(ToSet(call.args))

AtStart(d) == at = "text" /\ fmt = 1 /\ str = <<>> /\ Left(0)

AtFlags(d) ==
    /\ at = "flags" /\ str = <<>> /\ Left(0)
    /\ \E k \in 0..Len(d.text.flags) : fmt = 2 + k /\ flags = FlagsRead(d, k)

AtWidth(d) ==
    /\ at = "width" /\ str = <<>> /\ Left(0)
    /\ fmt = PW(d) + 1 /\ flags = FlagsRead(d, Len(d.text.flags))

Ready(d) ==
    /\ str = <<>> /\ Left(Len(d.star)) /\ flags = AllFlags(d) /\ field_width = d.width

AtPrecision(d) == at = "precision" /\ fmt = PP(d) + 1 /\ Ready(d)

AtLeast(d) == at = "least" /\ fmt = PP(d) + 2 /\ d.text.precision # <<>> /\ Ready(d)

AtQualifier(d) ==
    at = "qualifier" /\ fmt = PL(d) + 1 /\ Ready(d) /\ precision = d.precision

AtConversion(d) ==
    at = "conversion" /\ fmt = PC(d) + 1 /\ Ready(d) /\ precision = d.precision

\* The directive is printed as `text'.
Printed(d, text) == IsText(text) /\ Says(d, text)

Rest(d) == Left(Len(d.star) + Len(d.own))

AtLetter(d) ==
    /\ at = "text" /\ fmt = PC(d) + 2 /\ Rest(d)
    /\ \E text : Printed(d, text) /\ str = text

AtPercent(d) ==
    /\ at = "text" /\ fmt = PC(d) + 3 /\ Rest(d)
    /\ \E text : Printed(d, text) /\ str = Append(text, "z")

AtWord(d) ==
    /\ at \in {"flags", "width", "precision", "qualifier", "conversion"}
    /\ fmt = PC(d) + 4 /\ flags = {} /\ Rest(d)
    /\ at \in {"precision", "qualifier", "conversion"} => field_width = -1
    /\ at \in {"qualifier", "conversion"} => precision = -1
    /\ \E text : Printed(d, text) /\ str = Append(text, "z")

AtEnd(d) ==
    /\ at \in {"text", "done"} /\ fmt = PC(d) + 5 /\ args = <<>>
    /\ \E text : Printed(d, text) /\ str = Append(text, "z") \o <<"4", "2">>

OnTheWay(d) ==
    \/ AtStart(d) \/ AtFlags(d) \/ AtWidth(d) \/ AtPrecision(d) \/ AtLeast(d)
    \/ AtQualifier(d) \/ AtConversion(d) \/ AtLetter(d) \/ AtPercent(d) \/ AtWord(d) \/ AtEnd(d)

\* One part of vsprintf is next.
LEMMA NextPart ==
    ASSUME FormatNext
    PROVE  /\ at = "text" => Literal \/ Percent \/ Terminate
           /\ at = "flags" => Flag
           /\ at = "width" => Width
           /\ at = "precision" => Point
           /\ at = "least" => Precision
           /\ at = "qualifier" => Qualifier
           /\ at = "conversion" => \/ ConvertChar \/ ConvertString \/ ConvertNumber \/ ConvertCount
                                   \/ ConvertReal \/ ConvertMac \/ ConvertIp \/ ConvertOther
           /\ at # "done" /\ call' = call
  BY DEF FormatNext, Literal, Percent, Terminate, Flag, Width, Point, Precision, Qualifier,
         ConvertChar, ConvertString, ConvertNumber, ConvertCount, ConvertReal, ConvertMac,
         ConvertIp, ConvertOther, Converted

\* The character at a place in the format.
LEMMA CharAt ==
    ASSUME NEW p, NEW t, NEW k \in 1..Len(t), Holds(call.fmt, p, t), fmt = p + k
    PROVE  Char = t[k] /\ fmt <= Len(call.fmt)
  <1>1. p + k <= Len(call.fmt) /\ call.fmt[p + k] = t[k]
    BY DEF Holds
  <1> QED BY <1>1 DEF Char

\* Where the parts begin and what stands there.
Landmarks(d) ==
    LET at_(p) == call.fmt[p + 1]
    IN  /\ PW(d) \in Nat /\ PP(d) \in Nat /\ PL(d) \in Nat /\ PC(d) \in Nat
        /\ PW(d) >= 1 /\ PP(d) >= PW(d) /\ PL(d) >= PP(d) /\ PC(d) >= PL(d)
        /\ Len(call.fmt) = PC(d) + 4
        /\ at_(0) = "%" /\ at_(PC(d)) = d.conv
        /\ at_(PC(d) + 1) = "z" /\ at_(PC(d) + 2) = "%" /\ at_(PC(d) + 3) = "d"
        /\ d.text.length = <<>> => PL(d) = PC(d)
        /\ d.text.length # <<>> => PC(d) = PL(d) + 1 /\ at_(PL(d)) \in {"h", "l", "L"}
        /\ d.text.precision = <<>> => PP(d) = PL(d)
        /\ d.text.precision # <<>> => PL(d) > PP(d) /\ at_(PP(d)) = "."
        /\ d.text.width = <<>> => PW(d) = PP(d)
        /\ d.text.width # <<>> => PP(d) > PW(d) /\ at_(PW(d)) = Head(d.text.width)

\* What stands at the landmarks of a directive.
LEMMA Landed ==
    ASSUME NEW d, OfCall(d) PROVE Landmarks(d)
  <1> DEFINE u == call.fmt
             a == d.text.flags
             b == d.text.width
             p == d.text.precision
             q == d.text.length
             h == <<"%">>
             e == <<d.conv>>
             r == <<"z", "%", "d">>
             none == <<>>
  <1>1. /\ Holds(u, 0, h) /\ Holds(u, 1, a) /\ Holds(u, PW(d), b) /\ Holds(u, PP(d), p)
        /\ Holds(u, PL(d), q) /\ Holds(u, PC(d), e) /\ Holds(u, PC(d) + 1, r)
        /\ Len(u) = PC(d) + 4
    BY DEF OfCall, Laid
  <1>2. IsDirective(d)
    BY DEF OfCall, IsWhole
  <1>3. /\ Len(h) = 1 /\ h[1] = "%" /\ Len(e) = 1 /\ e[1] = d.conv
        /\ Len(r) = 3 /\ r[1] = "z" /\ r[2] = "%" /\ r[3] = "d"
    OBVIOUS
  <1>4. q = none \/ (Len(q) = 1 /\ q[1] \in {"h", "l", "L"})
    <2>1. q \in {<<>>, <<"h">>, <<"l">>, <<"L">>}
      BY <1>2 DEF IsDirective
    <2> HIDE DEF q
    <2> QED BY <2>1
  <1>5. p = none \/ (Len(p) >= 1 /\ p[1] = ".")
    <2>1. p = none \/ (Tail(p) \in Seq(ToSet(Digits)) /\ p = <<".">> \o Tail(p))
      BY <1>2 DEF IsDirective, IsPrecision, IsNumber
    <2>2. ASSUME Tail(p) \in Seq(ToSet(Digits)), p = <<".">> \o Tail(p) PROVE Len(p) >= 1 /\ p[1] = "."
      <3> DEFINE t == Tail(p)
                 S == ToSet(Digits) \cup {"."}
                 dot == <<".">>
      <3>1. t \in Seq(S) /\ dot \in Seq(S) /\ Len(dot) = 1 /\ dot[1] = "."
        <4>1. ToSet(Digits) \subseteq S /\ "." \in S
          OBVIOUS
        <4> HIDE DEF S, t
        <4>2. t \in Seq(S)
          BY <2>2, <4>1, SeqMonotonic DEF t
        <4> QED BY <4>1, <4>2
      <3> HIDE DEF t, S, dot
      <3>2. Joined(S, dot, t, dot \o t)
        BY <3>1, Joins
      <3>3. p = dot \o t
        BY <2>2 DEF dot, t
      <3> QED BY <3>1, <3>2, <3>3 DEF Joined
    <2> QED BY <2>1, <2>2
  <1>6. b = none \/ (Len(b) >= 1 /\ b[1] = Head(b))
    <2>1. b = none \/ (b \in Seq(ToSet(Digits)) /\ b # none) \/ b = <<"*">>
      BY <1>2 DEF IsDirective, IsWidth, IsNumber
    <2> HIDE DEF b
    <2>2. ASSUME b \in Seq(ToSet(Digits)), b # none PROVE Len(b) >= 1 /\ b[1] = Head(b)
      BY <2>2, EmptySeq, LenProperties, HeadTailProperties
    <2>3. ASSUME b = <<"*">> PROVE Len(b) >= 1 /\ b[1] = Head(b)
      BY <2>3
    <2> QED BY <2>1, <2>2, <2>3
  <1>7. Len(none) = 0
    OBVIOUS
  <1>8. /\ PW(d) = 1 + Len(a) /\ PP(d) = PW(d) + Len(b) /\ PL(d) = PP(d) + Len(p)
        /\ PC(d) = PL(d) + Len(q)
    BY DEF PW, PP, PL, PC
  <1> HIDE DEF u, a, b, p, q, h, e, r, none
  <1>9. /\ Len(a) \in Nat /\ Len(b) \in Nat /\ Len(p) \in Nat /\ Len(q) \in Nat
        /\ PW(d) \in Nat /\ PP(d) \in Nat /\ PL(d) \in Nat /\ PC(d) \in Nat
    BY <1>1 DEF Holds
  <1>10. /\ u[0 + 1] = "%" /\ u[PC(d) + 1] = d.conv
         /\ u[(PC(d) + 1) + 1] = "z" /\ u[(PC(d) + 1) + 2] = "%" /\ u[(PC(d) + 1) + 3] = "d"
    <2>1. \A k \in 1..1 : u[0 + k] = h[k] /\ u[PC(d) + k] = e[k]
      BY <1>1, <1>3 DEF Holds
    <2>2. \A k \in 1..3 : u[(PC(d) + 1) + k] = r[k]
      BY <1>1, <1>3 DEF Holds
    <2>3. 1 \in 1..1 /\ 1 \in 1..3 /\ 2 \in 1..3 /\ 3 \in 1..3
      OBVIOUS
    <2> QED BY <1>3, <2>1, <2>2, <2>3
  <1>11. (PC(d) + 1) + 2 = (PC(d) + 2) + 1 /\ (PC(d) + 1) + 3 = (PC(d) + 3) + 1
    BY <1>9
  <1>12. q # none => PC(d) = PL(d) + 1 /\ u[PL(d) + 1] \in {"h", "l", "L"}
    <2>1. ASSUME q # none PROVE PC(d) = PL(d) + 1 /\ u[PL(d) + 1] \in {"h", "l", "L"}
      <3>1. 1 \in 1..Len(q)
        BY <1>4, <2>1
      <3> QED BY <1>1, <1>4, <1>8, <2>1, <3>1 DEF Holds
    <2> QED BY <2>1
  <1>13. p # none => PL(d) > PP(d) /\ u[PP(d) + 1] = "."
    <2>1. ASSUME p # none PROVE PL(d) > PP(d) /\ u[PP(d) + 1] = "."
      <3>1. 1 \in 1..Len(p)
        BY <1>5, <1>9, <2>1
      <3> QED BY SMTT(60), <1>1, <1>5, <1>8, <1>9, <2>1, <3>1 DEF Holds
    <2> QED BY <2>1
  <1>14. b # none => PP(d) > PW(d) /\ u[PW(d) + 1] = Head(b)
    <2>1. ASSUME b # none PROVE PP(d) > PW(d) /\ u[PW(d) + 1] = Head(b)
      <3>1. 1 \in 1..Len(b)
        BY <1>6, <1>9, <2>1
      <3> QED BY SMTT(60), <1>1, <1>6, <1>8, <1>9, <2>1, <3>1 DEF Holds
    <2> QED BY <2>1
  <1>15. /\ q = none => PL(d) = PC(d)
         /\ p = none => PP(d) = PL(d)
         /\ b = none => PW(d) = PP(d)
    BY <1>7, <1>8, <1>9
  <1>16. PW(d) >= 1 /\ PP(d) >= PW(d) /\ PL(d) >= PP(d) /\ PC(d) >= PL(d)
    BY <1>8, <1>9
  <1> HIDE DEF PW, PP, PL, PC
  <1> QED BY <1>1, <1>9, <1>10, <1>11, <1>12, <1>13, <1>14, <1>15, <1>16 DEF Landmarks, u, b, p, q, none

\* What the character at the beginning of a part cannot be.
LEMMA NotThere ==
    ASSUME NEW d, OfCall(d)
    PROVE  /\ call.fmt[PW(d) + 1] \notin DOMAIN FlagOf
           /\ call.fmt[PP(d) + 1] \notin ToSet(Digits) \cup {"*"}
           /\ d.text.precision = <<>> => call.fmt[PP(d) + 1] # "."
           /\ call.fmt[PL(d) + 1] \notin ToSet(Digits) \cup {"*"}
           /\ d.text.length = <<>> => call.fmt[PL(d) + 1] \notin {"h", "l", "L"}
  <1> DEFINE conv == d.conv
             D == ToSet(Digits)
             flagged == DOMAIN FlagOf
  <1>1. Landmarks(d)
    BY Landed
  <1>2. IsDirective(d)
    BY DEF OfCall, IsWhole
  <1>3. conv \notin D \cup flagged \cup {"*", ".", "h", "l", "L"}
    BY <1>2 DEF IsDirective
  <1>4. /\ "*" \notin D \cup flagged /\ "." \notin D \cup flagged \cup {"*"}
        /\ {"h", "l", "L"} \cap (D \cup flagged \cup {"*", "."}) = {}
        /\ \A ch \in D : ch \in flagged => ch = "0"
    BY Marks
  <1>5. d.text.width # <<>> => Head(d.text.width) = "*" \/ (Head(d.text.width) \in D /\ Head(d.text.width) # "0")
    <2> DEFINE b == d.text.width
    <2>1. b = <<>> \/ (b \in Seq(D) /\ b # <<>> /\ Head(b) # "0") \/ b = <<"*">>
      BY <1>2 DEF IsDirective, IsWidth, IsNumber
    <2> HIDE DEF b, D
    <2>2. b \in Seq(D) /\ b # <<>> => Head(b) \in D
      BY HeadTailProperties
    <2>3. b = <<"*">> => Head(b) = "*"
      OBVIOUS
    <2>4. b # <<>> => Head(b) = "*" \/ (Head(b) \in D /\ Head(b) # "0")
      BY <2>1, <2>2, <2>3
    <2> QED BY <2>4 DEF b
  <1> DEFINE w == call.fmt[PW(d) + 1]
             p == call.fmt[PP(d) + 1]
             l == call.fmt[PL(d) + 1]
  <1>6. /\ d.text.length = <<>> => l = conv
        /\ d.text.length # <<>> => l \in {"h", "l", "L"}
        /\ d.text.precision = <<>> => p = l
        /\ d.text.precision # <<>> => p = "."
        /\ d.text.width = <<>> => w = p
        /\ d.text.width # <<>> => w = Head(d.text.width)
    BY <1>1 DEF Landmarks
  <1> HIDE DEF w, p, l, conv, D, flagged
  <1>7. /\ l \notin D \cup flagged \cup {"*", "."}
        /\ d.text.length = <<>> => l \notin {"h", "l", "L"}
    BY <1>3, <1>4, <1>6
  <1>8. /\ p \notin D \cup flagged \cup {"*"}
        /\ d.text.precision = <<>> => p # "."
    BY <1>4, <1>6, <1>7
  <1>9. w \notin flagged
    BY <1>4, <1>5, <1>6, <1>8
  <1> QED BY <1>7, <1>8, <1>9 DEF w, p, l, D, flagged

(* The steps from the percent sign to the conversion. *)

\* What is left stays left while no argument is taken.
LEMMA LeftKeeps ==
    ASSUME NEW n, Left(n), args' = args, call' = call PROVE Left(n)'
  BY DEF Left

\* One argument is taken.
LEMMA LeftOne ==
    ASSUME NEW n, Left(n), call.args \in Seq(ToSet(call.args)), n < Len(call.args), call' = call
    PROVE  /\ Head(args) = call.args[n + 1]
           /\ args' = Tail(args) => Left(n + 1)'
  <1> DEFINE S == ToSet(call.args)
             all == call.args
             t == Tail(args)
  <1>1. /\ args \in Seq(S) /\ n \in Nat /\ Len(args) = Len(all) - n
        /\ \A k \in 1..Len(args) : args[k] = all[n + k]
    BY DEF Left
  <1>2. Len(args) \in Nat /\ Len(args) >= 1 /\ Len(all) \in Int
    <2>1. Len(args) \in Nat
      BY <1>1, LenProperties
    <2>2. Len(all) \in Nat
      BY LenProperties DEF all
    <2> QED BY <1>1, <2>1, <2>2
  <1> HIDE DEF S, all
  <1>3. args # <<>>
    BY <1>2
  <1>4. Head(args) = args[1] /\ 1 \in 1..Len(args)
    BY <1>1, <1>2, <1>3, HeadTailProperties
  <1>5. t \in Seq(S) /\ Len(t) = Len(args) - 1 /\ \A k \in 1..Len(t) : t[k] = args[k + 1]
    BY <1>1, <1>3, HeadTailProperties
  <1> HIDE DEF t
  <1>6. Len(t) = Len(all) - (n + 1) /\ n + 1 <= Len(all) /\ n + 1 \in Nat
    BY <1>1, <1>2, <1>5
  <1>7. ASSUME NEW k \in 1..Len(t) PROVE t[k] = all[(n + 1) + k]
    <2>1. k + 1 \in 1..Len(args) /\ n + (k + 1) = (n + 1) + k
      BY <1>1, <1>2, <1>5
    <2> QED BY <1>1, <1>5, <2>1
  <1>8. args' = t => Left(n + 1)'
    BY <1>5, <1>6, <1>7 DEF Left, S, all
  <1> QED BY <1>1, <1>4, <1>8 DEF t, all

\* The percent sign.
LEMMA StartStep ==
    ASSUME NEW d, OfCall(d), AtStart(d), FormatNext PROVE AtFlags(d)'
  <1>1. Char = "%" /\ call' = call
    <2>1. Landmarks(d)
      BY Landed
    <2>2. call.fmt[0 + 1] = "%" /\ 1 <= Len(call.fmt)
      BY <2>1 DEF Landmarks
    <2> QED BY <2>2, NextPart DEF AtStart, Char
  <1>2. Percent
    <2>1. "%" # EOS
      BY Marks
    <2> QED BY <1>1, <2>1, NextPart DEF AtStart, Literal, Terminate
  <1>3. /\ flags' = {} /\ fmt' = 2 /\ at' = "flags" /\ args' = args /\ str' = <<>>
    BY <1>2 DEF Percent, AtStart
  <1>4. Left(0)'
    BY <1>1, <1>3, LeftKeeps DEF AtStart
  <1>5. fmt' = 2 + 0 /\ flags' = FlagsRead(d, 0)
    BY <1>3 DEF FlagsRead
  <1>6. Len(d.text.flags) \in Nat
    BY DEF OfCall, Laid, Holds
  <1>7. 0 \in 0..Len(d.text.flags)
    BY <1>6
  <1> QED BY <1>3, <1>4, <1>5, <1>7 DEF AtFlags

\* One flag, or the end of the flags.
LEMMA FlagsStep ==
    ASSUME NEW d, OfCall(d), AtFlags(d), FormatNext PROVE AtFlags(d)' \/ AtWidth(d)'
  <1> DEFINE a == d.text.flags
  <1>1. PICK k \in 0..Len(a) : fmt = 2 + k /\ flags = FlagsRead(d, k)
    BY DEF AtFlags
  <1>2. Flag /\ call' = call
    BY NextPart DEF AtFlags
  <1>3. Holds(call.fmt, 1, a) /\ Len(a) \in Nat /\ a \in Seq(DOMAIN FlagOf)
    BY DEF OfCall, Laid, Holds, IsWhole, IsDirective
  <1>4. args' = args /\ str' = <<>> /\ Left(0)'
    <2>1. args' = args /\ str' = <<>>
      BY <1>2 DEF Flag, AtFlags
    <2> QED BY <1>2, <2>1, LeftKeeps DEF AtFlags
  <1> HIDE DEF a
  <1>5. CASE k < Len(a)
    <2>1. k + 1 \in 1..Len(a) /\ fmt = 1 + (k + 1)
      BY <1>1, <1>3, <1>5
    <2>2. Char = a[k + 1]
      BY <1>3, <2>1, CharAt
    <2>3. Char \in DOMAIN FlagOf
      BY <1>3, <2>1, <2>2, ElementOfSeq
    <2>4. at' = "flags" /\ flags' = flags \cup {FlagOf[a[k + 1]]} /\ fmt' = 2 + (k + 1)
      BY <1>1, <1>2, <2>2, <2>3 DEF Flag
    <2>5. FlagsRead(d, k) \cup {FlagOf[a[k + 1]]} = FlagsRead(d, k + 1)
      <3>1. 1..(k + 1) = (1..k) \cup {k + 1}
        BY <1>1
      <3> QED BY <3>1 DEF FlagsRead, a
    <2>6. k + 1 \in 0..Len(a) /\ flags' = FlagsRead(d, k + 1)
      BY <1>1, <2>1, <2>4, <2>5
    <2> QED BY <1>4, <2>4, <2>6 DEF AtFlags, a
  <1>6. CASE k = Len(a)
    <2>1. fmt = PW(d) + 1 /\ flags = FlagsRead(d, Len(a))
      BY <1>1, <1>3, <1>6 DEF PW, a
    <2>2. Char \notin DOMAIN FlagOf
      <3>1. Landmarks(d)
        BY Landed
      <3>2. fmt <= Len(call.fmt)
        BY <2>1, <3>1 DEF Landmarks
      <3> QED BY <2>1, <3>2, NotThere DEF Char
    <2>3. at' = "width" /\ flags' = flags /\ fmt' = fmt
      BY <1>2, <2>2 DEF Flag
    <2>4. AtWidth(d)'
      BY <1>4, <2>1, <2>3 DEF AtWidth, a
    <2> QED BY <2>4
  <1> QED BY <1>1, <1>3, <1>5, <1>6

\* The words of the star and of the conversion.
LEMMA Words ==
    ASSUME NEW d, OfCall(d)
    PROVE  /\ Len(d.star) \in Nat /\ Len(d.own) \in Nat
           /\ Len(call.args) = Len(d.star) + Len(d.own) + 1
           /\ d.star # <<>> => Len(d.star) >= 1 /\ Head(d.star) = call.args[1]
           /\ d.own # <<>> => call.args[Len(d.star) + 1] = d.arg
           /\ call.args[Len(call.args)].word = 42
  <1> DEFINE star == d.star
             own == d.own
             all == call.args
             S == ToSet(all)
             n == Len(star)
  <1>1. /\ all \in Seq(S) /\ Len(all) = n + Len(own) + 1
        /\ star = SubSeq(all, 1, n) /\ own = SubSeq(all, n + 1, Len(all) - 1)
        /\ all[Len(all)].word = 42
        /\ own # <<>> => own[1] = d.arg
    BY DEF OfCall, IsWhole, IsOwn
  <1>2. star = <<>> \/ n = 1
    BY DEF OfCall, IsWhole, IsDirective, IsWidth
  <1>3. Len(own) \in {0, 1, 2}
    <2>1. IsOwn(d)
      BY DEF OfCall, IsWhole
    <2>2. d.conv = "f" \/ d.conv \in Conversions \ {"f"} \/ ~ (d.conv = "f" \/ d.conv \in Conversions \ {"f"})
      OBVIOUS
    <2> QED BY <2>1, <2>2 DEF IsOwn
  <1>4. n \in {0, 1}
    BY <1>2
  <1> HIDE DEF star, own, all, S, n
  <1>5. star # <<>> => n >= 1 /\ Head(star) = all[1]
    <2>1. ASSUME star # <<>> PROVE n >= 1 /\ Head(star) = all[1]
      <3>1. n = 1
        BY <1>2, <2>1
      <3>2. \A i \in 1..1 : all[i] \in S
        <4>1. 1..1 \subseteq 1..Len(all)
          BY <1>1, <1>3, <3>1
        <4> QED BY <1>1, <4>1, ElementOfSeq
      <3>3. star \in Seq(S) /\ star[1] = all[1]
        <4>1. SubSeq(all, 1, 1) \in Seq(S) /\ SubSeq(all, 1, 1)[1] = all[1]
          BY <1>1, <3>2, SubSeqProperties
        <4> QED BY <1>1, <3>1, <4>1
      <3>4. Head(star) = star[1]
        BY <2>1, <3>3, HeadTailProperties
      <3> QED BY <3>1, <3>3, <3>4
    <2> QED BY <2>1
  <1>6. own # <<>> => all[n + 1] = d.arg
    <2>1. ASSUME own # <<>> PROVE all[n + 1] = d.arg
      <3>1. Len(all) - 1 >= n + 1
        <4>1. Len(own) # 0
          <5>1. \A i \in (n + 1)..(Len(all) - 1) : all[i] \in S
            <6>1. (n + 1)..(Len(all) - 1) \subseteq 1..Len(all)
              BY <1>1, <1>3, <1>4
            <6> QED BY <1>1, <6>1, ElementOfSeq
          <5>2. own \in Seq(S)
            <6>1. n + 1 \in Int /\ Len(all) - 1 \in Int
              BY <1>1, <1>3, <1>4
            <6> QED BY <1>1, <5>1, <6>1, SubSeqProperties
          <5> QED BY <2>1, <5>2, EmptySeq
        <4> QED BY <1>1, <1>3, <1>4, <4>1
      <3>2. own[1] = all[n + 1]
        <4> DEFINE m == n + 1
                   last == Len(all) - 1
        <4>1. m \in Int /\ last \in Int /\ m..last \subseteq 1..Len(all) /\ last - m + 1 >= 1
          BY <1>1, <1>3, <1>4, <3>1
        <4>2. \A i \in m..last : all[i] \in S
          BY <1>1, <4>1, ElementOfSeq
        <4> HIDE DEF m, last
        <4>3. \A i \in 1..(last - m + 1) : SubSeq(all, m, last)[i] = all[m + i - 1]
          BY <4>1, <4>2, SubSeqProperties
        <4>4. SubSeq(all, m, last)[1] = all[m + 1 - 1] /\ m + 1 - 1 = m
          BY <4>1, <4>3
        <4> QED BY <1>1, <4>4 DEF m, last
      <3> QED BY <1>1, <2>1, <3>2
    <2> QED BY <2>1
  <1>7. /\ n \in Nat /\ Len(own) \in Nat /\ Len(all) = n + Len(own) + 1
        /\ star # <<>> => n >= 1 /\ Head(star) = all[1]
        /\ own # <<>> => all[n + 1] = d.arg
        /\ all[Len(all)].word = 42
    BY <1>1, <1>3, <1>4, <1>5, <1>6
  <1> QED BY <1>7 DEF star, own, all, n

\* Where no digit stands there is no number.
LEMMA NoNumeral ==
    ASSUME NEW d, OfCall(d), NEW p \in Nat, fmt = p + 1, p + 1 <= Len(call.fmt),
           call.fmt[p + 1] \notin ToSet(Digits)
    PROVE  DigitRun = {} /\ Char = call.fmt[p + 1]
  <1> DEFINE none == <<>>
  <1>1. none \in Seq(ToSet(Digits)) /\ Len(none) = 0
    OBVIOUS
  <1> HIDE DEF none
  <1>2. p + Len(none) + 1 = p + 1 /\ p + Len(none) <= Len(call.fmt)
    BY <1>1
  <1>3. Holds(call.fmt, p, none)
    BY <1>1, <1>2 DEF Holds
  <1>4. call.fmt \in Seq(STRING)
    BY DEF OfCall
  <1>5. none = <<>> => DigitRun = {}
    BY <1>1, <1>2, <1>3, <1>4, NumeralRead
  <1> QED BY <1>5 DEF none, Char

\* A word as an int.
LEMMA IntIs == \A w \in 0..(WordSize - 1) : Int32(w) \in Int
  BY IntBounds DEF Int32

\* The width and the precision are ints.
LEMMA Fitting ==
    ASSUME NEW d, OfCall(d)
    PROVE  d.width <= MaxInt /\ d.precision <= MaxInt
  <1>1. d.width <= MaxInt /\ d.precision <= MaxInt - 5 /\ IsPrecision(d)
    BY DEF OfCall, IsWhole, IsDirective
  <1>2. d.precision = -1 \/ d.precision \in Nat
    BY <1>1, ValueNat DEF IsPrecision, IsNumber
  <1> QED BY <1>1, <1>2, IntBounds

\* The width, in digits, of a star, or none.
LEMMA WidthStep ==
    ASSUME NEW d, OfCall(d), AtWidth(d), FormatNext PROVE AtPrecision(d)'
  <1> DEFINE b == d.text.width
             D == ToSet(Digits)
             read == FlagsRead(d, Len(d.text.flags))
  <1>1. Landmarks(d) /\ IsWidth(d) /\ d.width <= MaxInt
    BY Landed DEF OfCall, IsWhole, IsDirective
  <1>2. /\ PW(d) \in Nat /\ PP(d) \in Nat /\ PP(d) + 1 <= Len(call.fmt) /\ PW(d) + 1 <= Len(call.fmt)
        /\ fmt = PW(d) + 1 /\ flags = read /\ str = <<>> /\ Left(0)
        /\ PP(d) = PW(d) + Len(b) /\ Holds(call.fmt, PW(d), b)
        /\ call.fmt \in Seq(STRING)
    <2>1. /\ PW(d) \in Nat /\ PP(d) \in Nat /\ PP(d) + 1 <= Len(call.fmt)
          /\ PW(d) + 1 <= Len(call.fmt)
      <3>1. /\ PW(d) \in Nat /\ PP(d) \in Nat /\ PL(d) \in Nat /\ PC(d) \in Nat
            /\ PP(d) >= PW(d) /\ PL(d) >= PP(d) /\ PC(d) >= PL(d)
            /\ Len(call.fmt) = PC(d) + 4
        BY <1>1 DEF Landmarks
      <3> QED BY <3>1
    <2>2. Holds(call.fmt, PW(d), b) /\ call.fmt \in Seq(STRING)
      BY DEF OfCall, Laid
    <2>3. fmt = PW(d) + 1 /\ flags = read /\ str = <<>> /\ Left(0)
      BY DEF AtWidth
    <2>4. PP(d) = PW(d) + Len(b)
      BY DEF PP
    <2> QED BY <2>1, <2>2, <2>3, <2>4
  <1>3. Width /\ call' = call
    BY NextPart DEF AtWidth
  <1>4. str' = <<>> /\ at' = "precision"
    BY <1>2, <1>3 DEF Width
  <1>5. call.fmt[PP(d) + 1] \notin D \cup {"*"}
    BY NotThere
  <1> HIDE DEF read, D
  <1>6. ASSUME b = <<>>, d.star = <<>>, d.width = -1 PROVE AtPrecision(d)'
    <2>1. PP(d) = PW(d)
      BY <1>1, <1>6 DEF Landmarks
    <2>2. DigitRun = {} /\ Char # "*"
      BY <1>2, <1>5, <2>1, NoNumeral DEF D
    <2>3. field_width' = d.width /\ fmt' = fmt /\ args' = args /\ flags' = flags
      BY <1>3, <1>6, <2>2 DEF Width
    <2>4. Len(d.star) = 0 /\ AllFlags(d) = read
      BY <1>6 DEF AllFlags, StarFlags, read
    <2>5. Left(0)'
      BY <1>2, <1>3, <2>3, LeftKeeps
    <2>6. Left(Len(d.star))'
      BY <2>4, <2>5
    <2>7. Ready(d)'
      BY <1>2, <1>4, <2>3, <2>4, <2>6 DEF Ready
    <2>8. fmt' = PP(d) + 1
      BY <1>2, <2>1, <2>3
    <2> QED BY <1>4, <2>7, <2>8 DEF AtPrecision
  <1>7. ASSUME b \in Seq(D), b # <<>>, d.star = <<>>, d.width = Value(b, 10, Digits)
        PROVE  AtPrecision(d)'
    <2>1. /\ PW(d) + Len(b) + 1 <= Len(call.fmt)
          /\ call.fmt[PW(d) + Len(b) + 1] \notin D
      BY <1>2, <1>5
    <2> HIDE DEF b
    <2>2. DigitRun # {} /\ Max(DigitRun) = PW(d) + Len(b) /\ Atoi = Value(b, 10, Digits)
      BY <1>1, <1>2, <1>7, <2>1, NumeralRead DEF D
    <2>3. field_width' = d.width /\ fmt' = PP(d) + 1 /\ args' = args /\ flags' = flags
      BY <1>2, <1>3, <1>7, <2>2 DEF Width
    <2>4. Len(d.star) = 0 /\ AllFlags(d) = read
      BY <1>7 DEF AllFlags, StarFlags, read
    <2>5. Left(0)'
      BY <1>2, <1>3, <2>3, LeftKeeps
    <2>6. Left(Len(d.star))'
      BY <2>4, <2>5
    <2>7. Ready(d)'
      BY <1>2, <1>4, <2>3, <2>4, <2>6 DEF Ready
    <2> QED BY <1>4, <2>3, <2>7 DEF AtPrecision
  <1>8. ASSUME b = <<"*">>, Len(d.star) = 1,
               d.width = IF Int32(Head(d.star).word) < 0 THEN - Int32(Head(d.star).word)
                                                          ELSE Int32(Head(d.star).word)
        PROVE  AtPrecision(d)'
    <2>1. Len(b) = 1 /\ Head(b) = "*" /\ b # <<>>
      BY <1>8
    <2>2. call.fmt[PW(d) + 1] = "*" /\ "*" \notin D
      BY <1>1, <2>1, Marks DEF Landmarks, D
    <2>3. DigitRun = {} /\ Char = "*"
      BY <1>2, <2>2, NoNumeral DEF D
    <2>4. 0 < Len(call.args) /\ d.star # <<>>
      <3>1. Len(<<>>) = 0
        OBVIOUS
      <3>2. d.star # <<>>
        BY <1>8, <3>1
      <3>3. Len(d.star) \in Nat /\ Len(d.own) \in Nat /\ Len(call.args) = Len(d.star) + Len(d.own) + 1
        BY Words
      <3>4. 0 < Len(call.args)
        <4> DEFINE x == Len(d.star)
                   y == Len(d.own)
                   z == Len(call.args)
        <4>1. x \in Nat /\ y \in Nat /\ z = x + y + 1
          BY <3>3
        <4> HIDE DEF x, y, z
        <4>2. 0 < z
          BY <4>1
        <4> QED BY <4>2 DEF z
      <3> QED BY <3>2, <3>4
    <2>5. Head(args) = call.args[1] /\ (args' = Tail(args) => Left(1)')
      <3>1. Head(args) = call.args[0 + 1] /\ (args' = Tail(args) => Left(0 + 1)')
        <4>1. call.args \in Seq(ToSet(call.args))
          BY DEF OfCall
        <4> QED BY <1>2, <1>3, <2>4, <4>1, LeftOne
      <3> QED BY <3>1
    <2>6. Head(args) = Head(d.star)
      BY <2>4, <2>5, Words
    <2> DEFINE given == Int32(Head(d.star).word)
    <2>7. /\ field_width' = IF given < 0 THEN Wrap(- given) ELSE given
          /\ flags' = IF given < 0 THEN flags \cup {"LEFT"} ELSE flags
          /\ fmt' = fmt + 1 /\ args' = Tail(args)
      BY <1>3, <2>3, <2>6 DEF Width
    <2>8. field_width' = d.width
      <3>1. given \in Int
        BY <1>1, <1>8, <2>1, IntIs DEF IsWidth
      <3> HIDE DEF given
      <3>2. ASSUME given < 0 PROVE Wrap(- given) = - given
        <4>1. - given = d.width
          BY <1>8, <3>2 DEF given
        <4> QED BY <1>1, <3>1, <3>2, <4>1, IntBounds, WrapKeeps
      <3> QED BY <1>8, <2>7, <3>2 DEF given
    <2>9. flags' = AllFlags(d)
      BY <1>2, <2>4, <2>7 DEF AllFlags, StarFlags, read
    <2>10. Left(Len(d.star))'
      BY <1>8, <2>5, <2>7
    <2>11. fmt' = PP(d) + 1
      BY <1>2, <2>1, <2>7
    <2>12. Ready(d)'
      BY <1>4, <2>8, <2>9, <2>10 DEF Ready
    <2> QED BY <1>4, <2>11, <2>12 DEF AtPrecision
  <1> QED BY <1>1, <1>6, <1>7, <1>8 DEF IsWidth, IsNumber, D

\* What the directive has set stays set.
LEMMA ReadyKeeps ==
    ASSUME NEW d, Ready(d), str' = str, args' = args, flags' = flags,
           field_width' = field_width, call' = call
    PROVE  Ready(d)'
  <1>1. Left(Len(d.star))'
    BY LeftKeeps DEF Ready
  <1> QED BY <1>1 DEF Ready

\* The point, or none.
LEMMA PointStep ==
    ASSUME NEW d, OfCall(d), AtPrecision(d), FormatNext PROVE AtLeast(d)' \/ AtQualifier(d)'
  <1>1. Landmarks(d) /\ IsPrecision(d)
    BY Landed DEF OfCall, IsWhole, IsDirective
  <1>2. /\ PP(d) \in Nat /\ PP(d) + 1 <= Len(call.fmt) /\ fmt = PP(d) + 1
    BY <1>1 DEF Landmarks, AtPrecision
  <1>3. Point /\ call' = call
    BY NextPart DEF AtPrecision
  <1>4. Char = call.fmt[PP(d) + 1]
    BY <1>2 DEF Char
  <1>5. Ready(d)'
    BY <1>3, ReadyKeeps DEF Point, AtPrecision
  <1>6. CASE d.text.precision = <<>>
    <2>1. Char # "."
      BY <1>4, <1>6, NotThere
    <2>2. at' = "qualifier" /\ fmt' = fmt /\ precision' = -1
      BY <1>3, <2>1 DEF Point
    <2>3. d.precision = -1
      <3>1. ASSUME NEW t, d.text.precision = <<".">> \o t, t \in Seq(ToSet(Digits)) PROVE FALSE
        <4> DEFINE S == ToSet(Digits) \cup {"."}
                   dot == <<".">>
        <4>1. t \in Seq(S) /\ dot \in Seq(S) /\ Len(dot) = 1
          <5>1. ToSet(Digits) \subseteq S /\ "." \in S
            OBVIOUS
          <5> HIDE DEF S
          <5> QED BY <3>1, <5>1, SeqMonotonic
        <4> HIDE DEF S, dot
        <4>2. Joined(S, dot, t, dot \o t)
          BY <4>1, Joins
        <4>3. Len(dot \o t) # 0
          BY <4>1, <4>2 DEF Joined
        <4>4. dot \o t = <<>>
          BY <1>6, <3>1 DEF dot
        <4> QED BY <4>3, <4>4
      <3> QED BY <1>1, <3>1 DEF IsPrecision, IsNumber
    <2>4. PP(d) = PL(d)
      BY <1>1, <1>6 DEF Landmarks
    <2>5. AtQualifier(d)'
      BY <1>2, <1>5, <2>2, <2>3, <2>4 DEF AtQualifier
    <2> QED BY <2>5
  <1>7. CASE d.text.precision # <<>>
    <2>1. Char = "."
      BY <1>1, <1>4, <1>7 DEF Landmarks
    <2>2. at' = "least" /\ fmt' = PP(d) + 2
      BY <1>2, <1>3, <2>1 DEF Point
    <2>3. AtLeast(d)'
      BY <1>5, <1>7, <2>2 DEF AtLeast
    <2> QED BY <2>3
  <1> QED BY <1>6, <1>7

\* The precision, in digits, of a star, or none.
LEMMA PrecisionStep ==
    ASSUME NEW d, OfCall(d), AtLeast(d), FormatNext PROVE AtQualifier(d)'
  <1> DEFINE p == d.text.precision
             t == Tail(p)
             D == ToSet(Digits)
             dot == <<".">>
  <1>1. Landmarks(d) /\ IsPrecision(d) /\ d.precision <= MaxInt
    BY Landed, Fitting DEF OfCall, IsWhole, IsDirective
  <1>2. /\ PP(d) \in Nat /\ PL(d) \in Nat /\ PL(d) > PP(d) /\ PL(d) + 1 <= Len(call.fmt)
        /\ fmt = PP(d) + 2 /\ PL(d) = PP(d) + Len(p) /\ Holds(call.fmt, PP(d), p)
        /\ call.fmt \in Seq(STRING) /\ p # <<>>
    BY <1>1 DEF Landmarks, AtLeast, PL, OfCall, Laid
  <1>3. Precision /\ call' = call
    BY NextPart DEF AtLeast
  <1>4. call.fmt[PL(d) + 1] \notin D \cup {"*"}
    BY NotThere
  <1>5. t \in Seq(D) /\ p = dot \o t /\ d.precision = Value(t, 10, Digits)
    BY <1>1, <1>2 DEF IsPrecision, IsNumber
  <1>6. Joined(D \cup {"."}, dot, t, p) /\ Len(dot) = 1
    <2> DEFINE S == D \cup {"."}
    <2>1. t \in Seq(S) /\ dot \in Seq(S) /\ Len(dot) = 1
      <3>1. D \subseteq S /\ "." \in S
        OBVIOUS
      <3> HIDE DEF S, D, t
      <3> QED BY <1>5, <3>1, SeqMonotonic
    <2> HIDE DEF S, dot, t, p
    <2>2. Joined(S, dot, t, dot \o t)
      BY <2>1, Joins
    <2> QED BY <1>5, <2>1, <2>2 DEF S
  <1> HIDE DEF p, t, D, dot
  <1>7. Len(p) = 1 + Len(t) /\ Len(t) \in Nat /\ \A k \in 1..Len(t) : p[1 + k] = t[k]
    BY <1>6 DEF Joined
  <1> DEFINE q == PP(d) + 1
  <1>8. q \in Nat /\ fmt = q + 1 /\ q + Len(t) = PL(d) /\ q + Len(t) + 1 <= Len(call.fmt)
    BY <1>2, <1>7
  <1>9. Holds(call.fmt, q, t)
    <2>1. ASSUME NEW k \in 1..Len(t) PROVE call.fmt[q + k] = t[k]
      <3>1. 1 + k \in 1..Len(p) /\ PP(d) + (1 + k) = q + k
        BY <1>2, <1>7
      <3>2. call.fmt[PP(d) + (1 + k)] = p[1 + k]
        BY <1>2, <3>1 DEF Holds
      <3> QED BY <1>7, <3>1, <3>2
    <2>2. q + Len(t) <= Len(call.fmt)
      BY SMTT(60), <1>2, <1>8
    <2> QED BY <1>7, <1>8, <2>1, <2>2 DEF Holds
  <1> HIDE DEF q
  <1>10. /\ t = <<>> => DigitRun = {}
         /\ t # <<>> => DigitRun # {} /\ Max(DigitRun) = q + Len(t) /\ Atoi = Value(t, 10, Digits)
    <2>1. Value(t, 10, Digits) <= MaxInt
      BY <1>1, <1>5
    <2>2. call.fmt[q + Len(t) + 1] \notin ToSet(Digits)
      BY <1>4, <1>8 DEF D
    <2> QED BY <1>2, <1>5, <1>8, <1>9, <2>1, <2>2, NumeralRead DEF D
  <1>11. Ready(d)' /\ at' = "qualifier" /\ fmt' = PL(d) + 1 /\ precision' = d.precision
    <2>1. CASE t = <<>>
      <3>1. Char # "*"
        <4>1. Len(t) = 0
          BY <2>1
        <4>2. fmt = PL(d) + 1
          BY <1>2, <1>8, <4>1
        <4> QED BY <1>2, <1>4, <4>2 DEF Char
      <3>2. precision' = 0 /\ fmt' = fmt /\ args' = args /\ at' = "qualifier"
        BY <1>3, <1>10, <2>1, <3>1 DEF Precision
      <3>3. Value(t, 10, Digits) = 0
        <4>1. Value(<<>>, 10, Digits) = 0
          <5> DEFINE none == <<>>
          <5>1. Len(none) = 0
            OBVIOUS
          <5> HIDE DEF none
          <5>2. PICK f : ValuesUpTo(f, Len(none), none, 10, Digits)
                          /\ Value(none, 10, Digits) = f[Len(none)]
            BY <5>1, ValueIs
          <5>3. f[0] = 0
            BY <5>1, <5>2 DEF ValuesUpTo
          <5> QED BY <5>1, <5>2, <5>3 DEF none
        <4> QED BY <2>1, <4>1
      <3>4. fmt' = PL(d) + 1
        <4>1. Len(t) = 0
          BY <2>1
        <4> QED BY <1>2, <1>8, <3>2, <4>1
      <3>5. Ready(d)'
        BY <1>3, <3>2, ReadyKeeps DEF Precision, AtLeast
      <3> QED BY <1>5, <3>2, <3>3, <3>4, <3>5
    <2>2. CASE t # <<>>
      <3>0. Max({0, Atoi}) = d.precision
        <4> DEFINE v == d.precision
        <4>1. Atoi = v /\ v \in Nat
          BY <1>5, <1>10, <2>2, ValueNat DEF D
        <4> HIDE DEF v
        <4>2. {0, v} \in SUBSET Int /\ v \in {0, v} /\ \A y \in {0, v} : v >= y
          BY <4>1
        <4>3. Max({0, v}) = v
          BY <4>2, MaxIs
        <4> QED BY <4>1, <4>3 DEF v
      <3>1. precision' = d.precision /\ fmt' = PL(d) + 1 /\ args' = args /\ at' = "qualifier"
        BY <1>3, <1>8, <1>10, <2>2, <3>0 DEF Precision
      <3>2. Ready(d)'
        BY <1>3, <3>1, <1>10, <2>2, ReadyKeeps DEF Precision, AtLeast
      <3> QED BY <3>1, <3>2
    <2> QED BY <2>1, <2>2
  <1> QED BY <1>11 DEF AtQualifier

\* The length, or none.
LEMMA QualifierStep ==
    ASSUME NEW d, OfCall(d), AtQualifier(d), FormatNext PROVE AtConversion(d)'
  <1>1. Landmarks(d)
    BY Landed
  <1>2. PL(d) \in Nat /\ PC(d) \in Nat /\ PL(d) + 1 <= Len(call.fmt) /\ fmt = PL(d) + 1
    BY <1>1 DEF Landmarks, AtQualifier
  <1>3. Qualifier /\ call' = call
    BY NextPart DEF AtQualifier
  <1>4. Char = call.fmt[PL(d) + 1]
    BY <1>2 DEF Char
  <1>5. Ready(d)' /\ at' = "conversion" /\ precision' = d.precision
    <2>1. Ready(d)'
      BY <1>3, ReadyKeeps DEF Qualifier, AtQualifier
    <2> QED BY <1>3, <2>1 DEF Qualifier, AtQualifier
  <1>6. fmt' = PC(d) + 1
    <2>1. CASE d.text.length = <<>>
      <3>1. Char \notin {"h", "l", "L"} /\ PL(d) = PC(d)
        BY <1>1, <1>4, <2>1, NotThere DEF Landmarks
      <3> QED BY <1>2, <1>3, <3>1 DEF Qualifier
    <2>2. CASE d.text.length # <<>>
      <3>1. Char \in {"h", "l", "L"} /\ PC(d) = PL(d) + 1
        BY <1>1, <1>4, <2>2 DEF Landmarks
      <3> QED BY <1>2, <1>3, <3>1 DEF Qualifier
    <2> QED BY <2>1, <2>2
  <1> QED BY <1>5, <1>6 DEF AtConversion

(* The conversion. *)

\* vsprintf has the flags of the directive.
LEMMA FlagsSaid ==
    ASSUME NEW d, OfCall(d)
    PROVE  LET f == AllFlags(d)
           IN  /\ "LEFT" \in f <=> "-" \in d.flags
               /\ "PLUS" \in f <=> "+" \in d.flags
               /\ "SPACE" \in f <=> Blank \in d.flags
               /\ "SPECIAL" \in f <=> "#" \in d.flags
               /\ "ZEROPAD" \in f <=> "0" \in d.flags
               /\ "SMALL" \notin f /\ "SIGN" \notin f
               /\ d.flags = {} => f = {}
  <1> DEFINE a == d.text.flags
             f == AllFlags(d)
             read == FlagsRead(d, Len(a))
             star == d.star # <<>> /\ Int32(Head(d.star).word) < 0
             given == ToSet(a)
             more == {x \in {"-"} : star}
  <1>1. a \in Seq(DOMAIN FlagOf) /\ d.flags = given \cup more
    BY DEF OfCall, IsWhole, IsDirective
  <1>2. f = read \cup IF star THEN {"LEFT"} ELSE {}
    BY DEF AllFlags, StarFlags
  <1>3. "-" \in more <=> star
    OBVIOUS
  <1>4. \A x \in more : x = "-"
    OBVIOUS
  <1> HIDE DEF star, more
  <1>5. /\ \A k \in 1..Len(a) : a[k] \in DOMAIN FlagOf
        /\ given = {a[k] : k \in 1..Len(a)} /\ read = {FlagOf[a[k]] : k \in 1..Len(a)}
    <2>1. \A k \in 1..Len(a) : a[k] \in DOMAIN FlagOf
      BY <1>1, ElementOfSeq
    <2>2. DOMAIN a = 1..Len(a)
      BY <1>1, LenProperties
    <2> QED BY <2>1, <2>2 DEF ToSet, FlagsRead
  <1>6. /\ "LEFT" \in read <=> "-" \in given
        /\ "PLUS" \in read <=> "+" \in given
        /\ "SPACE" \in read <=> Blank \in given
        /\ "SPECIAL" \in read <=> "#" \in given
        /\ "ZEROPAD" \in read <=> "0" \in given
        /\ "SMALL" \notin read /\ "SIGN" \notin read
        /\ given = {} => read = {}
    <2> HIDE DEF a, given, read
    <2>1. \A k \in 1..Len(a) :
            /\ FlagOf[a[k]] = "LEFT" <=> a[k] = "-"
            /\ FlagOf[a[k]] = "PLUS" <=> a[k] = "+"
            /\ FlagOf[a[k]] = "SPACE" <=> a[k] = Blank
            /\ FlagOf[a[k]] = "SPECIAL" <=> a[k] = "#"
            /\ FlagOf[a[k]] = "ZEROPAD" <=> a[k] = "0"
            /\ FlagOf[a[k]] # "SMALL" /\ FlagOf[a[k]] # "SIGN"
      BY <1>5, FlagsMean
    <2> QED BY <1>5, <2>1
  <1> HIDE DEF given, read, f
  <1>7. "+" \notin more /\ Blank \notin more /\ "#" \notin more /\ "0" \notin more
    <2>1. Blank # "-"
      BY Zenon DEF Blank
    <2> QED BY <1>4, <2>1
  <1>8. /\ "LEFT" \in f <=> "-" \in d.flags
        /\ "PLUS" \in f <=> "+" \in d.flags
        /\ "SPACE" \in f <=> Blank \in d.flags
        /\ "SPECIAL" \in f <=> "#" \in d.flags
        /\ "ZEROPAD" \in f <=> "0" \in d.flags
        /\ "SMALL" \notin f /\ "SIGN" \notin f
    BY <1>1, <1>2, <1>3, <1>6, <1>7
  <1>9. ASSUME d.flags = {} PROVE f = {}
    <2>1. given = {} /\ ~ star
      BY <1>1, <1>3, <1>9
    <2> QED BY <1>2, <1>6, <2>1
  <1> QED BY <1>8, <1>9 DEF f

\* The width and the precision are those of the directive.
LEMMA Measured ==
    ASSUME NEW d, OfCall(d)
    PROVE  Bounded(d) /\ (d.precision = -1 \/ d.precision \in Nat)
  <1>1. IsWidth(d) /\ IsPrecision(d) /\ d.width <= MaxInt /\ d.precision <= MaxInt - 5
    BY DEF OfCall, IsWhole, IsDirective
  <1>2. d.width = -1 \/ d.width \in Nat
    <2>1. ASSUME d.text.width \in Seq(ToSet(Digits)) PROVE Value(d.text.width, 10, Digits) \in Nat
      BY <2>1, ValueNat
    <2>2. ASSUME Head(d.star).word \in 0..(WordSize - 1),
                 d.width = IF Int32(Head(d.star).word) < 0 THEN - Int32(Head(d.star).word)
                                                          ELSE Int32(Head(d.star).word)
          PROVE  d.width \in Nat
      <3> DEFINE given == Int32(Head(d.star).word)
      <3>1. given \in Int /\ d.width = IF given < 0 THEN - given ELSE given
        BY <2>2, IntIs
      <3> HIDE DEF given
      <3> QED BY <3>1
    <2> QED BY <1>1, <2>1, <2>2 DEF IsWidth, IsNumber
  <1>3. d.precision = -1 \/ d.precision \in Nat
    BY <1>1, ValueNat DEF IsPrecision, IsNumber
  <1> QED BY <1>1, <1>2, <1>3 DEF Bounded

\* Some arguments are taken.
LEMMA LeftSome ==
    ASSUME NEW m, NEW n \in Nat, Left(m), call.args \in Seq(ToSet(call.args)),
           m + n <= Len(call.args), call' = call,
           args' = SubSeq(args, n + 1, Len(args))
    PROVE  Left(m + n)'
  <1> DEFINE S == ToSet(call.args)
             all == call.args
             t == SubSeq(args, n + 1, Len(args))
  <1>1. /\ args \in Seq(S) /\ m \in Nat /\ m <= Len(all) /\ Len(args) = Len(all) - m
        /\ \A k \in 1..Len(args) : args[k] = all[m + k]
    BY DEF Left
  <1> HIDE DEF S, all
  <1>2. Len(args) \in Nat /\ Len(all) \in Int /\ n <= Len(args)
    <2>1. Len(args) \in Nat
      BY <1>1, LenProperties
    <2>2. Len(all) \in Int
      BY LenProperties DEF all
    <2> QED BY <1>1, <2>1, <2>2 DEF all
  <1>3. \A i \in (n + 1)..Len(args) : args[i] \in S
    <2>1. (n + 1)..Len(args) \subseteq 1..Len(args)
      BY <1>2
    <2> QED BY <1>1, <2>1, ElementOfSeq
  <1>4. /\ t \in Seq(S)
        /\ Len(t) = IF n + 1 <= Len(args) THEN Len(args) - (n + 1) + 1 ELSE 0
        /\ \A k \in 1..(Len(args) - (n + 1) + 1) : t[k] = args[(n + 1) + k - 1]
    <2>1. n + 1 \in Int /\ Len(args) \in Int
      BY <1>2
    <2> QED BY SMTT(60), <1>3, <2>1, SubSeqProperties
  <1> HIDE DEF t
  <1>5. Len(t) = Len(all) - (m + n) /\ m + n \in Nat /\ m + n <= Len(all)
    <2> DEFINE x == Len(args)
               y == Len(t)
               z == Len(all)
    <2>1. /\ x \in Nat /\ z \in Int /\ m \in Nat /\ n \in Nat /\ n <= x /\ x = z - m
          /\ y = IF n + 1 <= x THEN x - (n + 1) + 1 ELSE 0
      BY <1>1, <1>2, <1>4
    <2> HIDE DEF x, y, z
    <2>2. y = z - (m + n) /\ m + n \in Nat /\ m + n <= z
      BY <2>1
    <2> QED BY <2>2 DEF y, z
  <1>6. ASSUME NEW k \in 1..Len(t) PROVE t[k] = all[(m + n) + k]
    <2>1. k \in 1..(Len(args) - (n + 1) + 1) /\ (n + 1) + k - 1 = n + k
          /\ n + k \in 1..Len(args) /\ m + (n + k) = (m + n) + k
      BY <1>1, <1>2, <1>5
    <2> QED BY <1>1, <1>4, <2>1
  <1>7. args' = t
    BY DEF t
  <1> QED BY <1>4, <1>5, <1>6, <1>7 DEF Left, S, all

\* What a conversion writes is all that is printed, and it takes its words.
LEMMA ConvertedAlone ==
    ASSUME NEW d, OfCall(d), AtConversion(d), NEW text, IsText(text),
           Converted(text, Len(d.own)), Says(d, text)'
    PROVE  AtLetter(d)'
  <1>1. Landmarks(d)
    BY Landed
  <1>2. /\ at = "conversion" /\ fmt = PC(d) + 1 /\ str = <<>> /\ Left(Len(d.star))
    BY DEF AtConversion, Ready
  <1>3. /\ at' = "text" /\ str' = str \o text /\ fmt' = fmt + 1 /\ call' = call
        /\ args' = SubSeq(args, Len(d.own) + 1, Len(args))
    BY DEF Converted
  <1>4. str' = text
    <2>1. PICK S : text \in Seq(S)
      BY DEF IsText
    <2> QED BY <1>2, <1>3, <2>1, ConcatEmptySeq
  <1>5. Rest(d)'
    <2> DEFINE m == Len(d.star)
               n == Len(d.own)
    <2>1. m \in Nat /\ n \in Nat /\ Len(call.args) = m + n + 1
      BY Words
    <2>2. call.args \in Seq(ToSet(call.args))
      BY DEF OfCall
    <2>3. Left(m) /\ args' = SubSeq(args, n + 1, Len(args))
      BY <1>2, <1>3
    <2> HIDE DEF m, n
    <2>4. m + n <= Len(call.args)
      BY <2>1
    <2>5. Left(m + n)'
      BY <1>3, <2>1, <2>2, <2>3, <2>4, LeftSome
    <2> QED BY <2>5 DEF Rest, m, n
  <1>6. fmt' = PC(d) + 2
    BY <1>1, <1>2, <1>3 DEF Landmarks
  <1>7. Printed(d, text)'
    BY DEF Printed
  <1> QED BY <1>3, <1>4, <1>5, <1>6, <1>7 DEF AtLetter

\* The character that converts, and the argument it takes.
LEMMA ConversionThere ==
    ASSUME NEW d, OfCall(d), AtConversion(d)
    PROVE  /\ Char = d.conv /\ flags = AllFlags(d) /\ field_width = d.width
           /\ precision = d.precision /\ str = <<>>
           /\ d.own # <<>> => Head(args) = d.arg /\ IsWord(d.arg)
           /\ d.conv \notin {"*", ".", "h", "l", "L", EOS}
  <1>1. Landmarks(d)
    BY Landed
  <1>2. /\ fmt = PC(d) + 1 /\ Ready(d) /\ precision = d.precision
    BY DEF AtConversion
  <1>3. Char = d.conv
    BY <1>1, <1>2 DEF Landmarks, Char
  <1>4. ASSUME d.own # <<>> PROVE Head(args) = d.arg /\ IsWord(d.arg)
    <2>1. IsWord(d.arg)
      BY <1>4 DEF OfCall, IsWhole, IsOwn
    <2> DEFINE m == Len(d.star)
               n == Len(d.own)
               z == Len(call.args)
    <2>2. m \in Nat /\ n \in Nat /\ z = m + n + 1 /\ call.args[m + 1] = d.arg
      BY <1>4, Words
    <2>3. Left(m)
      BY <1>2 DEF Ready
    <2> HIDE DEF m, n, z
    <2>4. /\ args \in Seq(ToSet(call.args)) /\ Len(args) = z - m
          /\ \A k \in 1..Len(args) : args[k] = call.args[m + k]
      BY <2>3 DEF Left, z
    <2>5. Len(args) >= 1
      BY <2>2, <2>4
    <2>6. args # <<>>
      BY <2>5
    <2>7. Head(args) = args[1] /\ 1 \in 1..Len(args)
      BY <2>4, <2>5, <2>6, HeadTailProperties
    <2>8. args[1] = call.args[m + 1]
      BY <2>4, <2>7
    <2> QED BY <2>1, <2>2, <2>7, <2>8
  <1>5. d.conv \notin {"*", ".", "h", "l", "L", EOS}
    BY DEF OfCall, IsWhole, IsDirective
  <1> QED BY <1>2, <1>3, <1>4, <1>5 DEF Ready

\* How many arguments a conversion takes.
LEMMA OwnCount ==
    ASSUME NEW d, OfCall(d)
    PROVE  /\ d.conv = "f" => Len(d.own) = 2
           /\ d.conv \in Conversions \ {"f"} => Len(d.own) = 1
           /\ d.conv \notin Conversions => Len(d.own) = 0
           /\ d.conv \in Conversions => d.own # <<>>
  <1>1. Len(d.own) = CASE d.conv = "f" -> 2 [] d.conv \in Conversions \ {"f"} -> 1 [] OTHER -> 0
    BY DEF OfCall, IsWhole, IsOwn
  <1>2. "f" \in Conversions
    BY DEF Conversions
  <1>3. /\ d.conv = "f" => Len(d.own) = 2
        /\ d.conv \in Conversions \ {"f"} => Len(d.own) = 1
        /\ d.conv \notin Conversions => Len(d.own) = 0
    BY <1>1, <1>2
  <1>4. Len(<<>>) = 0
    OBVIOUS
  <1> QED BY <1>3, <1>4

\* What a directive says depends on its conversion alone.
LEMMA SaysIs ==
    ASSUME NEW d, NEW text
    PROVE  /\ d.conv \in DOMAIN BaseOf \cup {"f"} /\ IsNumeral(d, text) => Says(d, text)'
           /\ d.conv = "c" /\ InField(d, <<d.arg.char>>, text) => Says(d, text)'
           /\ d.conv = "s" /\ InField(d, SubSeq(d.arg.text, 1, IF d.precision = -1 THEN Len(d.arg.text)
                                               ELSE Min({d.precision, Len(d.arg.text)})), text)
                => Says(d, text)'
           /\ d.conv = "n" /\ text = <<>> /\ stored' = 0 => Says(d, text)'
           /\ d.conv = "m" /\ Len(text) = 17 /\ AreBytes(text, d.arg.bytes, ":", 16) => Says(d, text)'
           /\ d.conv = "r" /\ AreBytes(text, SubSeq(d.arg.bytes, 1, 4), ".", 10) => Says(d, text)'
           /\ d.conv \notin Conversions /\ text = (IF d.conv = "%" THEN <<"%">> ELSE <<"%", d.conv>>)
                => Says(d, text)'
           /\ Says(d, text) /\ stored' = stored => Says(d, text)'
  <1> DEFINE D == DOMAIN BaseOf
             conv == d.conv
  <1>1. D = {"o", "p", "x", "X", "d", "i", "u", "b"}
    BY DEF BaseOf
  <1>2. Conversions = D \cup {"c", "s", "n", "f", "m", "r"}
    BY DEF Conversions
  <1>3. Says(d, text)' =
          CASE conv \in D \cup {"f"} -> IsNumeral(d, text)
            [] conv = "c" -> InField(d, <<d.arg.char>>, text)
            [] conv = "s" -> InField(d, SubSeq(d.arg.text, 1, IF d.precision = -1 THEN Len(d.arg.text)
                                               ELSE Min({d.precision, Len(d.arg.text)})), text)
            [] conv = "n" -> text = <<>> /\ stored' = 0
            [] conv = "m" -> Len(text) = 17 /\ AreBytes(text, d.arg.bytes, ":", 16)
            [] conv = "r" -> AreBytes(text, SubSeq(d.arg.bytes, 1, 4), ".", 10)
            [] conv = "%" -> text = <<"%">>
            [] OTHER -> text = <<"%", conv>>
    BY DEF Says
  <1>4. Says(d, text) =
          CASE conv \in D \cup {"f"} -> IsNumeral(d, text)
            [] conv = "c" -> InField(d, <<d.arg.char>>, text)
            [] conv = "s" -> InField(d, SubSeq(d.arg.text, 1, IF d.precision = -1 THEN Len(d.arg.text)
                                               ELSE Min({d.precision, Len(d.arg.text)})), text)
            [] conv = "n" -> text = <<>> /\ stored = 0
            [] conv = "m" -> Len(text) = 17 /\ AreBytes(text, d.arg.bytes, ":", 16)
            [] conv = "r" -> AreBytes(text, SubSeq(d.arg.bytes, 1, 4), ".", 10)
            [] conv = "%" -> text = <<"%">>
            [] OTHER -> text = <<"%", conv>>
    BY DEF Says
  <1>5. stored' = stored => Says(d, text)' = Says(d, text)
    BY <1>3, <1>4
  <1> HIDE DEF D
  <1>6. conv \in D \cup {"f"} /\ IsNumeral(d, text) => Says(d, text)'
    BY <1>1, <1>3
  <1>7. conv = "c" /\ InField(d, <<d.arg.char>>, text) => Says(d, text)'
    BY <1>1, <1>3
  <1>8. conv = "s" /\ InField(d, SubSeq(d.arg.text, 1, IF d.precision = -1 THEN Len(d.arg.text)
                                               ELSE Min({d.precision, Len(d.arg.text)})), text)
          => Says(d, text)'
    BY <1>1, <1>3
  <1>9. conv = "n" /\ text = <<>> /\ stored' = 0 => Says(d, text)'
    BY <1>1, <1>3
  <1>10. conv = "m" /\ Len(text) = 17 /\ AreBytes(text, d.arg.bytes, ":", 16) => Says(d, text)'
    BY <1>1, <1>3
  <1>11. conv = "r" /\ AreBytes(text, SubSeq(d.arg.bytes, 1, 4), ".", 10) => Says(d, text)'
    BY <1>1, <1>3
  <1>12. conv \notin Conversions /\ text = (IF conv = "%" THEN <<"%">> ELSE <<"%", conv>>)
           => Says(d, text)'
    BY <1>1, <1>2, <1>3
  <1> QED BY <1>5, <1>6, <1>7, <1>8, <1>9, <1>10, <1>11, <1>12 DEF D

\* o, p, x, X, d, i, u and b.
LEMMA NumberStep ==
    ASSUME NEW d, OfCall(d), AtConversion(d), ConvertNumber PROVE AtLetter(d)'
  <1> DEFINE bare == Char = "p" /\ field_width = -1
             more == (IF bare THEN {"ZEROPAD"} ELSE {})
                       \cup (IF Char = "x" THEN {"SMALL"} ELSE {})
                       \cup (IF Char \in {"d", "i"} THEN {"SIGN"} ELSE {})
             f == flags \cup more
             text == number(Head(args).word, BaseOf[Char], IF bare THEN 8 ELSE field_width, precision, f)
             said == number(d.arg.word, BaseOf[d.conv], NWidth(d), d.precision, f)
  <1>1. /\ Char = d.conv /\ flags = AllFlags(d) /\ field_width = d.width /\ precision = d.precision
        /\ d.own # <<>> => Head(args) = d.arg /\ IsWord(d.arg)
    BY ConversionThere
  <1>2. Char \in DOMAIN BaseOf /\ Converted(text, 1)
    BY DEF ConvertNumber
  <1> HIDE DEF text
  <1>3. d.conv \in DOMAIN BaseOf /\ d.conv \in {"o", "p", "x", "X", "d", "i", "u", "b"}
        /\ d.conv \in Conversions \ {"f"}
    <2>1. DOMAIN BaseOf = {"o", "p", "x", "X", "d", "i", "u", "b"}
      BY DEF BaseOf
    <2> QED BY <1>1, <1>2, <2>1 DEF Conversions
  <1>4. Len(d.own) = 1 /\ Head(args) = d.arg /\ IsWord(d.arg)
    BY <1>1, <1>3, OwnCount
  <1>5. Spoken(d, f)
    <2> DEFINE all == AllFlags(d)
    <2>1. /\ "LEFT" \in all <=> "-" \in d.flags
          /\ "PLUS" \in all <=> "+" \in d.flags
          /\ "SPACE" \in all <=> Blank \in d.flags
          /\ "SPECIAL" \in all <=> "#" \in d.flags
          /\ "ZEROPAD" \in all <=> "0" \in d.flags
          /\ "SMALL" \notin all /\ "SIGN" \notin all
      BY FlagsSaid
    <2>2. bare <=> NBare(d)
      BY <1>1 DEF NBare
    <2>3. f = all \cup more
      BY <1>1
    <2> HIDE DEF all, bare, f
    <2>4. /\ "ZEROPAD" \in more <=> NBare(d)
          /\ "SMALL" \in more <=> d.conv = "x"
          /\ "SIGN" \in more <=> d.conv \in {"d", "i"}
          /\ "LEFT" \notin more /\ "PLUS" \notin more /\ "SPACE" \notin more /\ "SPECIAL" \notin more
      BY <1>1, <2>2
    <2> HIDE DEF more
    <2> QED BY <2>1, <2>3, <2>4 DEF Spoken
  <1>6. text = said
    <2>1. (IF bare THEN 8 ELSE field_width) = NWidth(d)
      BY <1>1 DEF NWidth, NBare
    <2> HIDE DEF f, bare
    <2>2. text = number(Head(args).word, BaseOf[Char], IF bare THEN 8 ELSE field_width, precision, f)
      BY DEF text, f
    <2> QED BY <1>1, <1>4, <2>1, <2>2
  <1> HIDE DEF f
  <1>7. IsNumeral(d, said) /\ IsText(said)
    <2>1. Bounded(d)
      BY Measured
    <2>2. d.arg.word \in 0..(WordSize - 1)
      BY <1>4 DEF IsWord
    <2> QED BY <1>3, <1>5, <2>1, <2>2, NumberSays
  <1>8. PICK c : c = text
    OBVIOUS
  <1>9. IsNumeral(d, c) /\ IsText(c) /\ Converted(c, Len(d.own))
    BY <1>2, <1>4, <1>6, <1>7, <1>8
  <1>10. Says(d, c)'
    BY <1>3, <1>9, SaysIs
  <1> QED BY <1>9, <1>10, ConvertedAlone

\* f.
LEMMA RealStep ==
    ASSUME NEW d, OfCall(d), AtConversion(d), ConvertReal PROVE AtLetter(d)'
  <1> DEFINE n == Head(args).real
             text == Layout(Sign(n.negative, flags), <<>>, RealDigits(n.millionths),
                            field_width, precision, flags)
             m == d.arg.real
             f == AllFlags(d)
             said == Layout(Sign(m.negative, f), <<>>, RealDigits(m.millionths),
                            d.width, d.precision, f)
  <1>1. /\ Char = d.conv /\ flags = f /\ field_width = d.width /\ precision = d.precision
        /\ d.own # <<>> => Head(args) = d.arg /\ IsWord(d.arg)
    BY ConversionThere
  <1>2. Char = "f" /\ Converted(text, 2)
    BY DEF ConvertReal
  <1>3. d.conv = "f" /\ d.conv \in Conversions
    BY <1>1, <1>2 DEF Conversions
  <1>4. /\ Len(d.own) = 2 /\ Head(args) = d.arg
        /\ d.arg.real.negative \in BOOLEAN /\ d.arg.real.millionths \in Nat
        /\ d.arg.real.millionths \div Million <= MaxInt
    <2>1. d.arg.real.millionths \div Million <= MaxInt
      BY <1>3 DEF OfCall, IsWhole, IsOwn
    <2> QED BY <1>1, <1>3, <2>1, OwnCount DEF IsWord
  <1>5. Spoken(d, f)
    <2> DEFINE all == AllFlags(d)
    <2>1. /\ "LEFT" \in all <=> "-" \in d.flags
          /\ "PLUS" \in all <=> "+" \in d.flags
          /\ "SPACE" \in all <=> Blank \in d.flags
          /\ "SPECIAL" \in all <=> "#" \in d.flags
          /\ "ZEROPAD" \in all <=> "0" \in d.flags
          /\ "SMALL" \notin all /\ "SIGN" \notin all
      BY FlagsSaid
    <2>2. ~ NBare(d) /\ d.conv # "x" /\ d.conv \notin {"d", "i"}
      BY <1>3 DEF NBare
    <2> QED BY <2>1, <2>2 DEF Spoken
  <1>6. text = said
    <2>1. n = m
      BY <1>4
    <2> HIDE DEF n, m, f
    <2> QED BY <1>1, <2>1
  <1> HIDE DEF text, f
  <1>7. IsNumeral(d, said) /\ IsText(said)
    <2>1. Bounded(d)
      BY Measured
    <2> QED BY <1>3, <1>4, <1>5, <2>1, RealSays
  <1> HIDE DEF said
  <1>8. PICK c : c = text
    OBVIOUS
  <1>9. IsNumeral(d, c) /\ IsText(c) /\ Converted(c, Len(d.own))
    BY <1>2, <1>4, <1>6, <1>7, <1>8
  <1>10. Says(d, c)'
    BY <1>3, <1>9, SaysIs
  <1> QED BY <1>9, <1>10, ConvertedAlone

\* A text in its field, of c and of s.
LEMMA FieldIs ==
    ASSUME NEW d, OfCall(d), AtConversion(d), NEW t, t \in Seq(STRING),
           NEW before, before = d.width - Len(t), NEW behind \in Int, behind <= 0
    PROVE  InField(d, t, Padded(t, before, behind)) /\ IsText(Padded(t, before, behind))
  <1> DEFINE S == STRING \cup {Blank}
  <1>1. t \in Seq(S) /\ Blank \in S
    <2>1. STRING \subseteq S /\ Blank \in S
      OBVIOUS
    <2> HIDE DEF S
    <2> QED BY <2>1, SeqMonotonic
  <1>2. flags = AllFlags(d) /\ field_width = d.width
    BY ConversionThere
  <1>3. "LEFT" \in flags <=> "-" \in d.flags
    BY <1>2, FlagsSaid
  <1>4. d.width \in Int
    BY Measured DEF Bounded
  <1> HIDE DEF S
  <1> QED BY <1>1, <1>2, <1>3, <1>4, PaddedFits

\* c.
LEMMA CharStep ==
    ASSUME NEW d, OfCall(d), AtConversion(d), ConvertChar PROVE AtLetter(d)'
  <1> DEFINE t == <<d.arg.char>>
             room == Wrap(field_width - 1)
             text == Padded(t, room, Remains(room))
  <1>1. /\ Char = d.conv /\ field_width = d.width
        /\ d.own # <<>> => Head(args) = d.arg /\ IsWord(d.arg)
    BY ConversionThere
  <1>2. Char = "c" /\ Converted(Padded(<<Head(args).char>>, room, Remains(room)), 1)
    BY DEF ConvertChar
  <1>3. d.conv = "c" /\ d.conv \in Conversions \ {"f"}
    BY <1>1, <1>2 DEF Conversions
  <1>4. Len(d.own) = 1 /\ Head(args) = d.arg /\ d.arg.char \in STRING
    BY <1>1, <1>3, OwnCount DEF IsWord
  <1>5. t \in Seq(STRING) /\ Len(t) = 1
    BY <1>4
  <1>r. room = d.width - 1 /\ Remains(room) \in Int /\ Remains(room) <= 0
    <2>1. d.width \in Int /\ -1 <= d.width /\ d.width <= MaxInt /\ MaxInt \in Nat /\ MaxInt >= 127
      BY Measured, IntBounds DEF Bounded
    <2>2. Wrap(d.width - 1) = d.width - 1
      BY <2>1, WrapKeeps
    <2>3. room = d.width - 1
      BY <1>1, <2>2
    <2> HIDE DEF room
    <2>4. CASE room > 0
      BY <2>3, <2>4 DEF Remains
    <2>5. CASE ~ room > 0
      <3>1. Wrap(room - 1) = room - 1
        BY <2>1, <2>3, <2>5, WrapKeeps
      <3> QED BY <2>1, <2>3, <2>5, <3>1 DEF Remains
    <2> QED BY <2>3, <2>4, <2>5
  <1>6. InField(d, t, text) /\ IsText(text)
    <2> HIDE DEF t, room
    <2>1. room = d.width - Len(t)
      BY <1>5, <1>r
    <2> QED BY <1>5, <1>r, <2>1, FieldIs
  <1>7. Converted(text, 1)
    <2> HIDE DEF room
    <2> QED BY <1>2, <1>4
  <1> HIDE DEF text
  <1>8. PICK c : c = text
    OBVIOUS
  <1>9. InField(d, <<d.arg.char>>, c) /\ IsText(c) /\ Converted(c, Len(d.own))
    BY <1>4, <1>6, <1>7, <1>8
  <1>10. Says(d, c)'
    BY <1>3, <1>9, SaysIs
  <1> QED BY <1>9, <1>10, ConvertedAlone

\* s.
LEMMA StringStep ==
    ASSUME NEW d, OfCall(d), AtConversion(d), ConvertString PROVE AtLetter(d)'
  <1> DEFINE s == d.arg.text
             len == IF d.precision = -1 THEN Len(s) ELSE Min({d.precision, Len(s)})
             t == SubSeq(s, 1, len)
             room == d.width - len
             rest == IF room > 0 THEN -1 ELSE Wrap(d.width - 1) - len
             text == Padded(t, room, rest)
  <1>1. /\ Char = d.conv /\ precision = d.precision /\ field_width = d.width
        /\ d.own # <<>> => Head(args) = d.arg /\ IsWord(d.arg)
    BY ConversionThere
  <1>2. /\ Char = "s"
        /\ LET x == Head(args).text
               l == IF precision < 0 THEN Len(x) ELSE Min({Len(x), precision})
           IN  Converted(Padded(SubSeq(x, 1, l), field_width - l,
                                IF field_width - l > 0 THEN -1 ELSE Wrap(field_width - 1) - l), 1)
    BY DEF ConvertString
  <1>3. d.conv = "s" /\ d.conv \in Conversions \ {"f"}
    BY <1>1, <1>2 DEF Conversions
  <1>4. Len(d.own) = 1 /\ Head(args) = d.arg /\ s \in Seq(STRING)
    BY <1>1, <1>3, OwnCount DEF IsWord
  <1>5. (IF precision < 0 THEN Len(s) ELSE Min({Len(s), precision})) = len
    <2>1. d.precision = -1 \/ d.precision \in Nat
      BY Measured
    <2>2. precision < 0 <=> d.precision = -1
      BY <1>1, <2>1
    <2>3. {Len(s), precision} = {d.precision, Len(s)}
      BY <1>1
    <2> QED BY <2>2, <2>3
  <1>6. t \in Seq(STRING) /\ Len(t) = len /\ len \in Nat
    <2>1. Len(s) \in Nat
      BY <1>4, LenProperties
    <2>2. len \in 0..Len(s)
      <3>1. d.precision = -1 \/ d.precision \in Nat
        BY Measured
      <3>2. ASSUME d.precision \in Nat PROVE Min({d.precision, Len(s)}) \in 0..Len(s)
        <4> DEFINE x == IF d.precision <= Len(s) THEN d.precision ELSE Len(s)
        <4>1. /\ {d.precision, Len(s)} \in SUBSET Int /\ x \in {d.precision, Len(s)}
              /\ \A y \in {d.precision, Len(s)} : x <= y
          BY <2>1, <3>2
        <4>2. Min({d.precision, Len(s)}) = x
          BY <4>1, MinIs
        <4> QED BY <2>1, <3>2, <4>2
      <3> QED BY <2>1, <3>1, <3>2
    <2> HIDE DEF s, len
    <2>3. \A i \in 1..len : s[i] \in STRING
      BY <1>4, <2>1, <2>2, ElementOfSeq
    <2>4. SubSeq(s, 1, len) \in Seq(STRING) /\ Len(SubSeq(s, 1, len)) = len
      BY <2>1, <2>2, <2>3, SubSeqProperties
    <2> QED BY <2>1, <2>2, <2>4
  <1>7. Converted(text, 1)
    <2> HIDE DEF len, s
    <2>1. Head(args).text = s
      BY <1>4 DEF s
    <2>2. LET l == IF precision < 0 THEN Len(s) ELSE Min({Len(s), precision})
          IN  Converted(Padded(SubSeq(s, 1, l), d.width - l,
                               IF d.width - l > 0 THEN -1 ELSE Wrap(d.width - 1) - l), 1)
      BY <1>1, <1>2, <2>1
    <2> QED BY <1>5, <2>2
  <1>r. rest \in Int /\ rest <= 0
    <2>1. d.width \in Int /\ -1 <= d.width /\ d.width <= MaxInt /\ MaxInt \in Nat /\ MaxInt >= 127
      BY Measured, IntBounds DEF Bounded
    <2>2. Wrap(d.width - 1) = d.width - 1
      BY <2>1, WrapKeeps
    <2> HIDE DEF len
    <2> QED BY <1>6, <2>1, <2>2
  <1>8. InField(d, t, text) /\ IsText(text)
    <2> HIDE DEF t, len, rest
    <2> QED BY <1>6, <1>r, FieldIs
  <1> HIDE DEF text
  <1>9. PICK c : c = text
    OBVIOUS
  <1>10. InField(d, t, c) /\ IsText(c) /\ Converted(c, Len(d.own))
    <2> HIDE DEF t
    <2> QED BY <1>4, <1>7, <1>8, <1>9
  <1>11. Says(d, c)'
    BY <1>3, <1>10, SaysIs
  <1> QED BY <1>10, <1>11, ConvertedAlone

\* n, which prints nothing.
LEMMA CountStep ==
    ASSUME NEW d, OfCall(d), AtConversion(d), ConvertCount PROVE AtLetter(d)'
  <1>1. Char = d.conv /\ str = <<>>
    BY ConversionThere
  <1>2. Char = "n" /\ Converted(<<>>, 1) /\ stored' = Len(str)
    BY DEF ConvertCount
  <1>3. d.conv = "n" /\ d.conv \in Conversions \ {"f"}
    BY <1>1, <1>2 DEF Conversions
  <1>4. Len(d.own) = 1
    BY <1>3, OwnCount
  <1> DEFINE c == <<>>
  <1>5. stored' = 0 /\ c = <<>> /\ IsText(c)
    <2>1. c \in Seq({})
      OBVIOUS
    <2> QED BY <1>1, <1>2, <2>1 DEF IsText
  <1> HIDE DEF c
  <1>6. Says(d, c)' /\ Converted(c, Len(d.own))
    BY <1>2, <1>3, <1>4, <1>5, SaysIs
  <1> QED BY <1>5, <1>6, ConvertedAlone

\* Any other character, % among them.
LEMMA OtherStep ==
    ASSUME NEW d, OfCall(d), AtConversion(d), ConvertOther PROVE AtLetter(d)'
  <1> DEFINE c == IF d.conv = "%" THEN <<"%">> ELSE <<"%", d.conv>>
  <1>1. Char = d.conv /\ str = <<>> /\ d.conv # EOS /\ Left(Len(d.star))
    BY ConversionThere DEF AtConversion, Ready
  <1>2. d.conv \notin Conversions
    BY <1>1 DEF ConvertOther
  <1>3. Len(d.own) = 0
    BY <1>2, OwnCount
  <1>4. d.conv \in STRING
    BY DEF OfCall, IsWhole, IsDirective
  <1>5. IsText(c)
    <2> DEFINE S == STRING \cup {"%"}
    <2>1. "%" \in S /\ d.conv \in S
      BY <1>4
    <2> HIDE DEF S
    <2>2. c \in Seq(S)
      BY <2>1
    <2> QED BY <2>2 DEF IsText
  <1>6. /\ at' = "text" /\ str' = str \o c /\ fmt' = fmt + 1 /\ call' = call /\ args' = args
    <2>1. (IF Char \in {"%", EOS} THEN <<"%">> ELSE <<"%", Char>>) = c
      BY <1>1
    <2> HIDE DEF c
    <2> QED BY <1>1, <2>1 DEF ConvertOther
  <1>7. Says(d, c)'
    <2>1. c = IF d.conv = "%" THEN <<"%">> ELSE <<"%", d.conv>>
      OBVIOUS
    <2> HIDE DEF c
    <2> QED BY <1>2, <2>1, SaysIs
  <1> HIDE DEF c
  <1>8. str' = c
    <2>1. PICK S : c \in Seq(S)
      BY <1>5 DEF IsText
    <2> QED BY <1>1, <1>6, <2>1, ConcatEmptySeq
  <1>9. Rest(d)'
    <2>1. Left(Len(d.star))'
      BY <1>1, <1>6, LeftKeeps
    <2>2. Len(d.star) + Len(d.own) = Len(d.star)
      BY <1>3, Words
    <2> QED BY <2>1, <2>2 DEF Rest
  <1>10. fmt' = PC(d) + 2
    <2>1. Landmarks(d)
      BY Landed
    <2> QED BY <1>6, <2>1 DEF Landmarks, AtConversion
  <1>11. Printed(d, c)'
    BY <1>5, <1>7 DEF Printed
  <1> QED BY <1>6, <1>8, <1>9, <1>10, <1>11 DEF AtLetter

\* m and r have no flags, no width and no precision.
LEMMA PlainThere ==
    ASSUME NEW d, OfCall(d), AtConversion(d), d.conv \in {"m", "r"}
    PROVE  /\ flags = {} /\ field_width = -1 /\ precision = -1
           /\ Head(args) = d.arg /\ Len(d.own) = 1
           /\ d.arg.bytes \in Seq(0..255) /\ Len(d.arg.bytes) = 6
  <1>1. /\ flags = AllFlags(d) /\ field_width = d.width /\ precision = d.precision
        /\ d.own # <<>> => Head(args) = d.arg /\ IsWord(d.arg)
    BY ConversionThere
  <1>2. d.conv \in Conversions \ {"f"}
    BY DEF Conversions
  <1>3. d.flags = {} /\ d.width = -1 /\ d.precision = -1
    BY DEF OfCall, IsWhole, IsDirective
  <1>4. AllFlags(d) = {}
    BY <1>3, FlagsSaid
  <1>5. Head(args) = d.arg /\ Len(d.own) = 1 /\ IsWord(d.arg)
    BY <1>1, <1>2, OwnCount
  <1> QED BY <1>1, <1>3, <1>4, <1>5 DEF IsWord

\* m.
LEMMA MacStep ==
    ASSUME NEW d, OfCall(d), AtConversion(d), ConvertMac PROVE AtLetter(d)'
  <1> DEFINE bytes == d.arg.bytes
             text == Separated([k \in 1..6 |->
               number(Head(args).bytes[k], 16, 2, precision, flags \cup {"SMALL", "ZEROPAD"})], ":")
             said == Separated([k \in 1..6 |->
               number(bytes[k], 16, 2, -1, {} \cup {"SMALL", "ZEROPAD"})], ":")
  <1>1. Char = d.conv /\ Char = "m" /\ Converted(text, 1)
    BY ConversionThere DEF ConvertMac
  <1>2. /\ flags = {} /\ precision = -1 /\ Head(args) = d.arg /\ Len(d.own) = 1
        /\ bytes \in Seq(0..255) /\ Len(bytes) = 6
    BY <1>1, PlainThere
  <1>3. text = said
    <2>1. Head(args).bytes = bytes
      BY <1>2
    <2> HIDE DEF bytes
    <2> QED BY <1>2, <2>1
  <1> HIDE DEF text
  <1>4. Len(said) = 17 /\ AreBytes(said, bytes, ":", 16) /\ IsText(said)
    <2> HIDE DEF bytes
    <2> QED BY <1>2, MacSays
  <1> HIDE DEF said
  <1>5. PICK c : c = text
    OBVIOUS
  <1>6. Len(c) = 17 /\ AreBytes(c, d.arg.bytes, ":", 16) /\ IsText(c) /\ Converted(c, Len(d.own))
    BY <1>1, <1>2, <1>3, <1>4, <1>5
  <1>7. Says(d, c)'
    BY <1>1, <1>6, SaysIs
  <1> QED BY <1>6, <1>7, ConvertedAlone

\* r.
LEMMA IpStep ==
    ASSUME NEW d, OfCall(d), AtConversion(d), ConvertIp PROVE AtLetter(d)'
  <1> DEFINE bytes == d.arg.bytes
             text == Separated([k \in 1..4 |->
               number(Head(args).bytes[k], 10, field_width, precision, flags \cup {"SMALL"})], ".")
             said == Separated([k \in 1..4 |->
               number(bytes[k], 10, -1, -1, {} \cup {"SMALL"})], ".")
  <1>1. Char = d.conv /\ Char = "r" /\ Converted(text, 1)
    BY ConversionThere DEF ConvertIp
  <1>2. /\ flags = {} /\ field_width = -1 /\ precision = -1 /\ Head(args) = d.arg /\ Len(d.own) = 1
        /\ bytes \in Seq(0..255) /\ Len(bytes) = 6
    BY <1>1, PlainThere
  <1>3. text = said
    <2>1. Head(args).bytes = bytes
      BY <1>2
    <2> HIDE DEF bytes
    <2> QED BY <1>2, <2>1
  <1> HIDE DEF text
  <1>4. AreBytes(said, SubSeq(bytes, 1, 4), ".", 10) /\ IsText(said)
    <2> HIDE DEF bytes
    <2> QED BY <1>2, IpSays
  <1> HIDE DEF said
  <1>5. PICK c : c = text
    OBVIOUS
  <1>6. AreBytes(c, SubSeq(d.arg.bytes, 1, 4), ".", 10) /\ IsText(c) /\ Converted(c, Len(d.own))
    BY <1>1, <1>2, <1>3, <1>4, <1>5
  <1>7. Says(d, c)'
    BY <1>1, <1>6, SaysIs
  <1> QED BY <1>6, <1>7, ConvertedAlone

\* Every conversion prints what its directive says.
LEMMA ConversionStep ==
    ASSUME NEW d, OfCall(d), AtConversion(d), FormatNext PROVE AtLetter(d)'
  <1>1. \/ ConvertChar \/ ConvertString \/ ConvertNumber \/ ConvertCount
        \/ ConvertReal \/ ConvertMac \/ ConvertIp \/ ConvertOther
    BY NextPart DEF AtConversion
  <1> QED BY <1>1, CharStep, StringStep, NumberStep, CountStep, RealStep, MacStep, IpStep, OtherStep

(* What stands behind the directive. *)

\* What is printed stays printed.
LEMMA PrintedKeeps ==
    ASSUME NEW d, NEW text, Printed(d, text), stored' = stored PROVE Printed(d, text)'
  BY SaysIs DEF Printed

\* The arguments behind the directive stay left.
LEMMA RestKeeps ==
    ASSUME NEW d, Rest(d), args' = args, call' = call PROVE Rest(d)'
  BY LeftKeeps DEF Rest

\* The characters behind the directive.
LEMMA TailThere ==
    ASSUME NEW d, OfCall(d)
    PROVE  /\ PC(d) \in Nat
           /\ fmt = PC(d) + 2 => Char = "z"
           /\ fmt = PC(d) + 3 => Char = "%"
           /\ fmt = PC(d) + 4 => Char = "d" /\ DigitRun = {}
           /\ fmt = PC(d) + 5 => Char = EOS
  <1> DEFINE n == PC(d)
             l == Len(call.fmt)
  <1>1. /\ n \in Nat /\ l = n + 4 /\ call.fmt[(n + 1) + 1] = "z" /\ call.fmt[(n + 2) + 1] = "%"
        /\ call.fmt[(n + 3) + 1] = "d"
    BY Landed DEF Landmarks
  <1> HIDE DEF n, l
  <1>2. /\ (n + 1) + 1 = n + 2 /\ (n + 2) + 1 = n + 3 /\ (n + 3) + 1 = n + 4
        /\ n + 2 <= l /\ n + 3 <= l /\ n + 4 <= l /\ ~ (n + 5 <= l)
    BY <1>1
  <1>3. /\ fmt = n + 2 => Char = "z"
        /\ fmt = n + 3 => Char = "%"
        /\ fmt = n + 4 => Char = "d"
        /\ fmt = n + 5 => Char = EOS
    BY <1>1, <1>2 DEF Char, l
  <1>4. ASSUME fmt = n + 4 PROVE DigitRun = {}
    <2> DEFINE p == n + 3
    <2>1. p \in Nat /\ fmt = p + 1 /\ p + 1 <= Len(call.fmt) /\ call.fmt[p + 1] = "d"
      BY SMTT(60), <1>1, <1>2, <1>4 DEF l
    <2>2. "d" \notin ToSet(Digits)
      BY Marks
    <2> HIDE DEF p
    <2> QED BY <2>1, <2>2, NoNumeral
  <1> QED BY <1>1, <1>3, <1>4 DEF n

\* The letter behind the directive.
LEMMA LetterStep ==
    ASSUME NEW d, OfCall(d), AtLetter(d), FormatNext PROVE AtPercent(d)'
  <1>1. PICK text : Printed(d, text) /\ str = text
    BY DEF AtLetter
  <1>2. fmt = PC(d) + 2 /\ PC(d) \in Nat /\ Char = "z" /\ "z" # EOS
    BY TailThere, Marks DEF AtLetter
  <1>3. Literal
    BY <1>2, NextPart DEF AtLetter, Percent, Terminate
  <1>4. /\ str' = Append(text, "z") /\ fmt' = PC(d) + 3 /\ at' = "text" /\ stored' = stored
        /\ args' = args /\ call' = call
    BY <1>1, <1>2, <1>3 DEF Literal
  <1>5. Printed(d, text)' /\ Rest(d)'
    BY <1>1, <1>4, PrintedKeeps, RestKeeps DEF AtLetter
  <1> QED BY <1>4, <1>5 DEF AtPercent

\* The percent sign of the number behind it.
LEMMA PercentStep ==
    ASSUME NEW d, OfCall(d), AtPercent(d), FormatNext PROVE AtWord(d)'
  <1>1. PICK text : Printed(d, text) /\ str = Append(text, "z")
    BY DEF AtPercent
  <1>2. fmt = PC(d) + 3 /\ PC(d) \in Nat /\ Char = "%" /\ "%" # EOS
    BY TailThere, Marks DEF AtPercent
  <1>3. Percent
    BY <1>2, NextPart DEF AtPercent, Literal, Terminate
  <1>4. /\ str' = Append(text, "z") /\ fmt' = PC(d) + 4 /\ at' = "flags" /\ flags' = {}
        /\ stored' = stored /\ args' = args /\ call' = call
    BY <1>1, <1>2, <1>3 DEF Percent
  <1>5. Printed(d, text)' /\ Rest(d)'
    BY <1>1, <1>4, PrintedKeeps, RestKeeps DEF AtPercent
  <1> QED BY <1>4, <1>5 DEF AtWord

\* The number 42 is the one word left.
LEMMA LastWord ==
    ASSUME NEW d, OfCall(d), Rest(d)
    PROVE  Head(args).word = 42 /\ Len(args) = 1 /\ args \in Seq(ToSet(call.args))
  <1> DEFINE m == Len(d.star) + Len(d.own)
             z == Len(call.args)
  <1>1. m \in Nat /\ z = m + 1 /\ call.args[z].word = 42
    <2> DEFINE x == Len(d.star)
               y == Len(d.own)
    <2>1. x \in Nat /\ y \in Nat /\ z = x + y + 1 /\ call.args[z].word = 42
      BY Words
    <2> HIDE DEF x, y, z
    <2>2. x + y \in Nat /\ z = (x + y) + 1
      BY <2>1
    <2> QED BY <2>1, <2>2 DEF x, y
  <1>2. Left(m)
    BY DEF Rest
  <1> HIDE DEF m, z
  <1>3. /\ args \in Seq(ToSet(call.args)) /\ Len(args) = z - m
        /\ \A k \in 1..Len(args) : args[k] = call.args[m + k]
    BY <1>2 DEF Left, z
  <1>4. Len(args) = 1
    BY <1>1, <1>3
  <1>5. args # <<>>
    BY <1>4
  <1>6. Head(args) = args[1] /\ 1 \in 1..Len(args)
    BY <1>3, <1>4, <1>5, HeadTailProperties
  <1>7. args[1] = call.args[z]
    BY <1>1, <1>3, <1>6
  <1> QED BY <1>1, <1>3, <1>4, <1>6, <1>7

\* That number.
LEMMA WordStep ==
    ASSUME NEW d, OfCall(d), AtWord(d), FormatNext PROVE AtWord(d)' \/ AtEnd(d)'
  <1>1. PICK text : Printed(d, text) /\ str = Append(text, "z")
    BY DEF AtWord
  <1>2. /\ fmt = PC(d) + 4 /\ PC(d) \in Nat /\ flags = {} /\ Rest(d)
        /\ Char = "d" /\ DigitRun = {}
        /\ "d" \notin DOMAIN FlagOf /\ "d" \notin {"*", ".", "h", "l", "L", "c", "s", "n", "f", "m", "r"}
        /\ call' = call
    BY TailThere, Marks, NextPart DEF AtWord
  <1>3. ASSUME stored' = stored, args' = args, str' = str, fmt' = fmt, flags' = {},
               at' \in {"flags", "width", "precision", "qualifier", "conversion"},
               at' \in {"precision", "qualifier", "conversion"} => field_width' = -1,
               at' \in {"qualifier", "conversion"} => precision' = -1
        PROVE  AtWord(d)'
    <2>1. Printed(d, text)' /\ Rest(d)' /\ str' = Append(text, "z")
      BY <1>1, <1>2, <1>3, PrintedKeeps, RestKeeps
    <2> QED BY <1>2, <1>3, <2>1 DEF AtWord
  <1>4. CASE at = "flags"
    <2>1. Flag
      BY <1>4, NextPart
    <2> QED BY <1>2, <1>3, <2>1 DEF Flag
  <1>5. CASE at = "width"
    <2>1. Width
      BY <1>5, NextPart
    <2>2. /\ at' = "precision" /\ field_width' = -1 /\ fmt' = fmt /\ args' = args /\ flags' = flags
          /\ str' = str /\ stored' = stored
      BY <1>2, <2>1 DEF Width
    <2> QED BY <1>2, <1>3, <2>2
  <1>6. CASE at = "precision"
    <2>1. Point /\ field_width = -1
      BY <1>6, NextPart DEF AtWord
    <2>2. /\ at' = "qualifier" /\ precision' = -1 /\ field_width' = -1 /\ fmt' = fmt
          /\ args' = args /\ flags' = flags /\ str' = str /\ stored' = stored
      BY <1>2, <2>1 DEF Point
    <2> QED BY <1>2, <1>3, <2>2
  <1>7. CASE at = "qualifier"
    <2>1. Qualifier /\ field_width = -1 /\ precision = -1
      BY <1>7, NextPart DEF AtWord
    <2>2. /\ at' = "conversion" /\ precision' = -1 /\ field_width' = -1 /\ fmt' = fmt
          /\ args' = args /\ flags' = flags /\ str' = str /\ stored' = stored
      BY <1>2, <2>1 DEF Qualifier
    <2> QED BY <1>2, <1>3, <2>2
  <1>8. CASE at = "conversion"
    <2>1. field_width = -1 /\ precision = -1
      BY <1>8 DEF AtWord
    <2>2. ConvertNumber
      <3>1. \/ ConvertChar \/ ConvertString \/ ConvertNumber \/ ConvertCount
            \/ ConvertReal \/ ConvertMac \/ ConvertIp \/ ConvertOther
        BY <1>8, NextPart
      <3>2. Char \in Conversions
        BY <1>2 DEF Conversions, BaseOf
      <3> QED BY <1>2, <3>1, <3>2 DEF ConvertChar, ConvertString, ConvertCount, ConvertReal,
                                      ConvertMac, ConvertIp, ConvertOther
    <2> DEFINE more == (IF Char = "p" /\ field_width = -1 THEN {"ZEROPAD"} ELSE {})
                         \cup (IF Char = "x" THEN {"SMALL"} ELSE {})
                         \cup (IF Char \in {"d", "i"} THEN {"SIGN"} ELSE {})
    <2>3. /\ Converted(number(Head(args).word, BaseOf[Char],
                              IF Char = "p" /\ field_width = -1 THEN 8 ELSE field_width,
                              precision, flags \cup more), 1)
          /\ stored' = stored
      BY <2>2 DEF ConvertNumber
    <2>4. more = {"SIGN"}
      BY <1>2
    <2> HIDE DEF more
    <2>5. BaseOf[Char] = 10
      BY <1>2 DEF BaseOf
    <2>6. flags \cup more = {"SIGN"}
      BY <1>2, <2>4
    <2>7. Head(args).word = 42 /\ Len(args) = 1 /\ args \in Seq(ToSet(call.args))
      BY <1>2, LastWord
    <2>8. number(42, 10, -1, -1, {"SIGN"}) = <<"4", "2">>
      <3> DEFINE f == {"SIGN"}
      <3>1. /\ "SIGN" \in f /\ "SMALL" \notin f /\ "SPECIAL" \notin f /\ "PLUS" \notin f
            /\ "SPACE" \notin f /\ "LEFT" \notin f /\ "ZEROPAD" \notin f
        OBVIOUS
      <3> HIDE DEF f
      <3>2. number(42, 10, -1, -1, f) = <<"4", "2">>
        BY <3>1, FortyTwo
      <3> QED BY <3>2 DEF f
    <2>9. (IF Char = "p" /\ field_width = -1 THEN 8 ELSE field_width) = -1
      BY <1>2, <2>1
    <2>10. Converted(<<"4", "2">>, 1)
      BY <2>1, <2>3, <2>5, <2>6, <2>7, <2>8, <2>9
    <2>11. /\ at' = "text" /\ str' = Append(text, "z") \o <<"4", "2">> /\ fmt' = PC(d) + 5
           /\ args' = SubSeq(args, 1 + 1, Len(args))
      BY <1>1, <1>2, <2>10 DEF Converted
    <2>12. args' = <<>>
      <3>1. 1 + 1 \in Int /\ Len(args) \in Int /\ Len(args) < 1 + 1
        BY <2>7
      <3> QED BY <2>11, <3>1, SubSeqEmpty
    <2>13. Printed(d, text)'
      BY <1>1, <2>3, PrintedKeeps
    <2> QED BY <2>11, <2>12, <2>13 DEF AtEnd
  <1> QED BY <1>4, <1>5, <1>6, <1>7, <1>8 DEF AtWord

\* The end of the format.
LEMMA EndStep ==
    ASSUME NEW d, OfCall(d), AtEnd(d), FormatNext PROVE AtEnd(d)'
  <1>1. PICK text : Printed(d, text) /\ str = Append(text, "z") \o <<"4", "2">>
    BY DEF AtEnd
  <1>2. fmt = PC(d) + 5 /\ Char = EOS /\ EOS # "%" /\ at = "text"
    BY TailThere, Marks, NextPart DEF AtEnd
  <1>3. Terminate
    BY <1>2, NextPart DEF Literal, Percent
  <1>4. /\ at' = "done" /\ str' = str /\ fmt' = fmt /\ args' = args /\ stored' = stored
    BY <1>3 DEF Terminate
  <1>5. Printed(d, text)'
    BY <1>1, <1>4, PrintedKeeps
  <1> QED BY <1>1, <1>4, <1>5 DEF AtEnd

\* A step stays on the way.
LEMMA WayStep ==
    ASSUME NEW d, OfCall(d), OnTheWay(d), FormatNext PROVE OnTheWay(d)'
  BY StartStep, FlagsStep, WidthStep, PointStep, PrecisionStep, QualifierStep, ConversionStep,
     LetterStep, PercentStep, WordStep, EndStep DEF OnTheWay

\* And a step that changes nothing does.
LEMMA WayKeeps ==
    ASSUME NEW d, OnTheWay(d), UNCHANGED formatVars PROVE OnTheWay(d)'
  <1>1. /\ call' = call /\ fmt' = fmt /\ args' = args /\ str' = str /\ flags' = flags
        /\ field_width' = field_width /\ precision' = precision /\ stored' = stored /\ at' = at
    BY DEF formatVars
  <1>2. \A n : Left(n)' = Left(n)
    BY <1>1 DEF Left
  <1>3. Ready(d)' = Ready(d) /\ Rest(d)' = Rest(d)
    BY <1>1, <1>2 DEF Ready, Rest
  <1>4. \A text : Printed(d, text) => Printed(d, text)'
    BY <1>1, PrintedKeeps
  <1> QED BY SMTT(60), <1>1, <1>2, <1>3, <1>4
          DEF OnTheWay, AtStart, AtFlags, AtWidth, AtPrecision, AtLeast, AtQualifier, AtConversion,
              AtLetter, AtPercent, AtWord, AtEnd

CorrectInv == call \in Calls /\ (call.whole => OnTheWay(call.directive))

\* What the invariant says of a call that is whole.
LEMMA InvGives ==
    ASSUME CorrectInv, call.whole PROVE OfCall(call.directive) /\ OnTheWay(call.directive)
  <1>1. IsWhole(call)
    BY WholeCallsAssumption DEF CorrectInv
  <1>2. Laid(call)
    BY <1>1, WholeLaid
  <1>3. call.fmt \in Seq(STRING) /\ call.args \in Seq(ToSet(call.args))
    BY CallsAssumption DEF CorrectInv
  <1> QED BY <1>1, <1>2, <1>3 DEF OfCall, CorrectInv

\* A call begins at the start of the way.
LEMMA StartsOnTheWay == FormatInit => CorrectInv
  <1> SUFFICES ASSUME FormatInit PROVE CorrectInv
    OBVIOUS
  <1>1. PICK c \in Calls : FormatStart(c)
    BY DEF FormatInit
  <1>2. /\ call = c /\ args = c.args /\ fmt = 1 /\ str = <<>> /\ at = "text"
        /\ c.args \in Seq(ToSet(c.args))
    BY <1>1, CallsAssumption DEF FormatInit, FormatStart
  <1>3. Left(0)
    <2> DEFINE S == ToSet(call.args)
               all == call.args
    <2>1. all \in Seq(S) /\ args = all
      BY <1>2
    <2> HIDE DEF S, all
    <2>2. Len(all) \in Nat
      BY <2>1, LenProperties
    <2>3. 0 \in Nat /\ 0 <= Len(all) /\ Len(args) = Len(all) - 0 /\ \A k \in 1..Len(args) : 0 + k = k
      BY <2>1, <2>2
    <2> QED BY <2>1, <2>3 DEF Left, S, all
  <1> QED BY <1>2, <1>3 DEF CorrectInv, OnTheWay, AtStart

\* At the end of the way the text is what the directive says and its tail.
LEMMA WayEnds ==
    ASSUME CorrectInv PROVE FormatCorrect
  <1> SUFFICES ASSUME at = "done", call.whole
               PROVE  /\ args = <<>>
                      /\ IsSuffix(call.tail, str)
                      /\ Says(call.directive, SubSeq(str, 1, Len(str) - Len(call.tail)))
    BY DEF FormatCorrect
  <1> DEFINE d == call.directive
             z == <<"z">>
             fortytwo == <<"4", "2">>
             tail == <<"z", "4", "2">>
  <1>1. OfCall(d) /\ AtEnd(d)
    BY InvGives DEF OnTheWay, AtStart, AtFlags, AtWidth, AtPrecision, AtLeast, AtQualifier,
                    AtConversion, AtLetter, AtPercent, AtWord
  <1>2. PICK text : Printed(d, text) /\ str = Append(text, "z") \o fortytwo
    BY <1>1 DEF AtEnd
  <1>3. PICK R : text \in Seq(R)
    BY <1>2 DEF Printed, IsText
  <1> DEFINE S == R \cup {"z", "4", "2"}
  <1>4. text \in Seq(S) /\ z \in Seq(S) /\ fortytwo \in Seq(S) /\ tail \in Seq(S)
    <2>1. R \subseteq S /\ "z" \in S /\ "4" \in S /\ "2" \in S
      OBVIOUS
    <2> HIDE DEF S
    <2>2. text \in Seq(S)
      BY <1>3, <2>1, SeqMonotonic
    <2> QED BY <2>1, <2>2
  <1>5. z \o fortytwo = tail
    <2>1. Joined(S, z, fortytwo, z \o fortytwo)
      BY <1>4, Joins
    <2> DEFINE u == z \o fortytwo
    <2>2. Len(z) = 1 /\ Len(fortytwo) = 2 /\ Len(tail) = 3
      OBVIOUS
    <2>3. /\ z[1] = "z" /\ fortytwo[1] = "4" /\ fortytwo[2] = "2"
          /\ tail[1] = "z" /\ tail[2] = "4" /\ tail[3] = "2"
      OBVIOUS
    <2> HIDE DEF z, fortytwo, tail, S
    <2>4. /\ u \in Seq(S) /\ Len(u) = 3 /\ u[1] = z[1]
          /\ u[1 + 1] = fortytwo[1] /\ u[1 + 2] = fortytwo[2]
      <3>1. 1 \in 1..Len(z) /\ 1 \in 1..Len(fortytwo) /\ 2 \in 1..Len(fortytwo)
        BY <2>2
      <3> QED BY <2>1, <2>2, <3>1 DEF Joined
    <2> HIDE DEF u
    <2>5. \A i \in 1..3 : u[i] = tail[i]
      BY <2>3, <2>4
    <2>6. u = tail
      <3>1. u \in Seq(S) /\ tail \in Seq(S) /\ Len(u) = Len(tail)
        BY <1>4, <2>2, <2>4
      <3>2. \A i \in 1..Len(u) : u[i] = tail[i]
        BY <2>4, <2>5
      <3> QED BY <3>1, <3>2, SeqEqual
    <2> QED BY <2>6 DEF u
  <1>6. call.tail = tail /\ args = <<>>
    BY <1>1 DEF OfCall, IsWhole, AtEnd
  <1>7. "z" \in S
    OBVIOUS
  <1> HIDE DEF S, tail, d
  <1>8. str = text \o tail
    <2>1. Append(text, "z") = text \o z
      BY <1>4, <1>7, AppendIsConcat
    <2> HIDE DEF z, fortytwo
    <2>2. text \in Seq(S) /\ z \in Seq(S) /\ fortytwo \in Seq(S)
      BY <1>4
    <2>3. (text \o z) \o fortytwo = text \o (z \o fortytwo)
      <3>1. Chain(Chain(text, z), fortytwo) = Chain(text, Chain(z, fortytwo))
        BY <2>2, Regrouped
      <3> QED BY <3>1 DEF Chain
    <2> QED BY <1>2, <1>5, <2>1, <2>3
  <1>9. /\ SubSeq(text \o tail, 1, Len(text)) = text
        /\ IsSuffix(tail, text \o tail)
    BY <1>4, PartsOf
  <1>10. Len(str) - Len(call.tail) = Len(text)
    <2>1. Joined(S, text, tail, text \o tail)
      BY <1>4, Joins
    <2>2. Len(text \o tail) = Len(text) + Len(tail) /\ Len(text) \in Nat /\ Len(tail) \in Nat
      BY <2>1 DEF Joined
    <2> QED BY <1>6, <1>8, <2>2
  <1>11. SubSeq(str, 1, Len(str) - Len(call.tail)) = text
    BY <1>8, <1>9, <1>10
  <1> QED BY <1>2, <1>6, <1>8, <1>9, <1>11 DEF Printed, d

\* Every directive whose width and precision an int holds is printed as it says,
\* whatever its flags, its conversion and the word it prints, and every
\* floating-point number whose whole part an int holds; what follows it finds its
\* own argument (stdio.c:18-24, 33-178, 202-432).
THEOREM FormatAlwaysCorrect == FormatSpec => []FormatCorrect
  <1>1. CorrectInv /\ [FormatNext]_formatVars => CorrectInv'
    <2> SUFFICES ASSUME CorrectInv, [FormatNext]_formatVars PROVE CorrectInv'
      OBVIOUS
    <2>1. call' = call
      BY NextPart DEF formatVars
    <2>2. ASSUME call.whole PROVE OnTheWay(call.directive)'
      <3> PICK d : d = call.directive
        OBVIOUS
      <3>1. OfCall(d) /\ OnTheWay(d)
        BY <2>2, InvGives
      <3>2. OnTheWay(d)'
        BY <3>1, WayStep, WayKeeps
      <3> QED BY <2>1, <3>2
    <2> QED BY <2>1, <2>2 DEF CorrectInv
  <1>2. CorrectInv => FormatCorrect
    BY WayEnds
  <1> QED BY <1>1, <1>2, StartsOnTheWay, PTL DEF FormatSpec
-----------------------------------------------------------------------------
(* The pointer of vsprintf. *)

FormatInv == call \in Calls /\ FormatInBounds

\* A character that is there is not past the end.
LEMMA CharThere ==
    ASSUME FormatInv, Char # EOS
    PROVE  fmt \in Nat /\ fmt >= 1 /\ fmt <= Len(call.fmt) /\ fmt + 1 \in 1..(Len(call.fmt) + 1)
  <1>1. Len(call.fmt) \in Nat
    BY CallsAssumption DEF FormatInv
  <1> QED BY <1>1 DEF FormatInv, FormatInBounds, Char

\* Behind the digits of a number is a character or the end.
LEMMA DigitsEnd ==
    ASSUME FormatInv, DigitRun # {}
    PROVE  Max(DigitRun) + 1 \in 1..(Len(call.fmt) + 1) /\ Max(DigitRun) + 1 > fmt
  <1> DEFINE n == Len(call.fmt)
             S == {n - k : k \in DigitRun}
  <1>1. n \in Nat /\ fmt \in 1..(n + 1) /\ DigitRun \subseteq fmt..n
    BY CallsAssumption DEF FormatInv, FormatInBounds, DigitRun
  <1> HIDE DEF n
  <1>2. S \subseteq Nat /\ S # {}
    BY <1>1
  <1>3. PICK x \in S : \A y \in S : x <= y
    BY <1>2, LeastElement
  <1>4. PICK k \in DigitRun : x = n - k
    BY <1>3
  <1>5. \A l \in DigitRun : k >= l
    <2> TAKE l \in DigitRun
    <2>1. n - l \in S /\ x <= n - l
      BY <1>3
    <2> QED BY <1>1, <1>4, <2>1
  <1>6. Max(DigitRun) = k
    <2>1. DigitRun \in SUBSET Int
      BY <1>1
    <2> QED BY <1>5, <2>1, MaxIs
  <1> QED BY <1>1, <1>6 DEF n

\* The end is no flag.
LEMMA EndIsNoFlag == EOS \notin DOMAIN FlagOf
  <1>1. DOMAIN FlagOf = {"-", "+", Blank, "#", "0"}
    BY FlagsMean
  <1>2. EOS # "-" /\ EOS # "+" /\ EOS # Blank /\ EOS # "#" /\ EOS # "0"
    BY Zenon DEF EOS, Blank
  <1> QED BY <1>1, <1>2

\* A step leaves the pointer in the format.
LEMMA FormatStep ==
    ASSUME FormatInv, FormatNext PROVE FormatInv'
  <1> SUFFICES call' = call /\ fmt' \in 1..(Len(call.fmt) + 1)
    BY DEF FormatInv, FormatInBounds
  <1>0. /\ fmt \in 1..(Len(call.fmt) + 1)
        /\ Char # EOS => fmt + 1 \in 1..(Len(call.fmt) + 1)
        /\ DigitRun # {} => Max(DigitRun) + 1 \in 1..(Len(call.fmt) + 1)
    BY CharThere, DigitsEnd DEF FormatInv, FormatInBounds
  <1>1. CASE Literal
    BY <1>0, <1>1 DEF Literal
  <1>2. CASE Percent
    BY <1>0, <1>2 DEF Percent, EOS
  <1>3. CASE Flag
    <2>1. Char \in DOMAIN FlagOf => Char # EOS
      BY EndIsNoFlag
    <2> QED BY <1>0, <1>3, <2>1 DEF Flag
  <1>4. CASE Width
    BY <1>0, <1>4 DEF Width, EOS
  <1>5. CASE Point
    BY <1>0, <1>5 DEF Point, EOS
  <1>6. CASE Precision
    BY <1>0, <1>6 DEF Precision
  <1>7. CASE Qualifier
    BY <1>0, <1>7 DEF Qualifier, EOS
  <1>8. CASE ConvertChar \/ ConvertString \/ ConvertCount \/ ConvertReal \/ ConvertMac \/ ConvertIp
    BY <1>0, <1>8 DEF ConvertChar, ConvertString, ConvertCount, ConvertReal, ConvertMac,
                      ConvertIp, Converted, EOS
  <1>9. CASE ConvertNumber
    BY <1>0, <1>9 DEF ConvertNumber, Converted, BaseOf, EOS
  <1>10. CASE ConvertOther
    BY <1>0, <1>10 DEF ConvertOther
  <1>11. CASE Terminate
    BY <1>0, <1>11 DEF Terminate
  <1> QED
    BY <1>1, <1>2, <1>3, <1>4, <1>5, <1>6, <1>7, <1>8, <1>9, <1>10, <1>11, FormatNext
       DEF FormatNext

\* The pointer of vsprintf never passes the end of the format, wherever in a
\* directive the text breaks off (stdio.c:202-431).
THEOREM FormatStaysInBounds == FormatSpec => []FormatInBounds
  <1>1. FormatInit => FormatInv
    BY CallsAssumption DEF FormatInit, FormatStart, FormatInv, FormatInBounds
  <1>2. FormatInv /\ [FormatNext]_formatVars => FormatInv'
    BY FormatStep DEF formatVars, FormatInv, FormatInBounds
  <1>3. FormatInv => FormatInBounds
    BY DEF FormatInv
  <1> QED BY <1>1, <1>2, <1>3, PTL DEF FormatSpec

-----------------------------------------------------------------------------
(***************************************************************************)
(* vsprintf comes to an end: a part of the loop is followed by a later one *)
(* or by the next character.                                               *)
(***************************************************************************)

\* Where vsprintf may be.
FormatParts == {"done", "text", "conversion", "qualifier", "least", "precision", "width", "flags"}

\* The parts of the loop that may still come before a character of the format
\* is stepped over, or before vsprintf returns.
PartsLeft(part) ==
    CASE part = "flags" -> 7 [] part = "width" -> 6 [] part = "precision" -> 5
      [] part = "least" -> 4 [] part = "qualifier" -> 3 [] part = "conversion" -> 2
      [] part = "text"  -> 1 [] part = "done" -> 0

\* The steps left, at most.
FormatLeft == 8 * (Len(call.fmt) + 1 - fmt) + PartsLeft(at)

\* The pointer is in the format, and vsprintf in one of its parts.
FormatPlace == FormatInv /\ at \in FormatParts

\* How far each part is from the end of a turn.
LEMMA PartsLeftIs ==
    /\ PartsLeft("flags") = 7 /\ PartsLeft("width") = 6 /\ PartsLeft("precision") = 5
    /\ PartsLeft("least") = 4 /\ PartsLeft("qualifier") = 3 /\ PartsLeft("conversion") = 2
    /\ PartsLeft("text") = 1 /\ PartsLeft("done") = 0
  BY DEF PartsLeft

\* A step leads to a later part, or steps over a character.
LEMMA FormatPlaceStep ==
    ASSUME FormatPlace, FormatNext
    PROVE  /\ FormatPlace' /\ call' = call /\ Len(call.fmt) \in Nat
           /\ fmt \in Nat /\ fmt' \in Nat
           /\ \/ fmt' = fmt /\ PartsLeft(at') < PartsLeft(at)
              \/ fmt' > fmt /\ PartsLeft(at') <= 7
  <1> DEFINE n == Len(call.fmt)
  <1>0. /\ n \in Nat /\ fmt \in 1..(n + 1) /\ at \in FormatParts
        /\ DigitRun # {} => Max(DigitRun) + 1 > fmt
    <2>1. n \in Nat /\ fmt \in 1..(n + 1) /\ at \in FormatParts
      BY CallsAssumption DEF FormatPlace, FormatInv, FormatInBounds
    <2>2. ASSUME DigitRun # {} PROVE Max(DigitRun) + 1 > fmt
      BY <2>1, <2>2, DigitsEnd DEF FormatPlace
    <2> QED BY <2>1, <2>2
  <1>1. /\ call' = call /\ at' \in FormatParts
        /\ \/ fmt' = fmt /\ PartsLeft(at') < PartsLeft(at)
           \/ fmt' > fmt
    <2>1. CASE Literal
      BY <1>0, <2>1 DEF Literal
    <2>2. CASE Percent
      BY <1>0, <2>2 DEF Percent, FormatParts
    <2>3. CASE Flag
      BY <1>0, <2>3, PartsLeftIs DEF Flag, FormatParts
    <2>4. CASE Width
      BY <1>0, <2>4, PartsLeftIs DEF Width, FormatParts
    <2>5. CASE Point
      BY <1>0, <2>5, PartsLeftIs DEF Point, FormatParts
    <2>6. CASE Precision
      BY <1>0, <2>6, PartsLeftIs DEF Precision, FormatParts
    <2>7. CASE Qualifier
      BY <1>0, <2>7, PartsLeftIs DEF Qualifier, FormatParts
    <2>8. CASE ConvertChar \/ ConvertString \/ ConvertNumber \/ ConvertCount \/ ConvertReal
               \/ ConvertMac \/ ConvertIp
      <3>1. \E text, k : Converted(text, k)
        BY Zenon, <2>8 DEF ConvertChar, ConvertString, ConvertNumber, ConvertCount, ConvertReal,
                           ConvertMac, ConvertIp
      <3>2. call' = call /\ at' = "text" /\ fmt' = fmt + 1
        BY <3>1 DEF Converted
      <3> QED BY <1>0, <3>2 DEF FormatParts
    <2>9. CASE ConvertOther
      BY <1>0, <2>9, PartsLeftIs DEF ConvertOther, FormatParts
    <2>10. CASE Terminate
      BY <1>0, <2>10, PartsLeftIs DEF Terminate, FormatParts
    <2> QED
      BY <2>1, <2>2, <2>3, <2>4, <2>5, <2>6, <2>7, <2>8, <2>9, <2>10, FormatNext DEF FormatNext
  <1>2. FormatInv'
    BY FormatStep DEF FormatPlace
  <1>3. fmt' \in Nat
    BY <1>0, <1>1, <1>2 DEF FormatInv, FormatInBounds
  <1>4. PartsLeft(at') <= 7
    BY <1>1, PartsLeftIs DEF FormatParts
  <1> QED BY <1>0, <1>1, <1>2, <1>3, <1>4 DEF FormatPlace

\* vsprintf takes no more than eight steps a character, whatever the format:
\* every step of it brings FormatLeft down (stdio.c:202-433).
THEOREM FormatComesToEnd ==
    FormatSpec => [](FormatLeft \in Nat) /\ [][FormatLeft' < FormatLeft]_formatVars
  <1>1. FormatInit => FormatPlace
    BY CallsAssumption DEF FormatInit, FormatStart, FormatPlace, FormatInv, FormatInBounds, FormatParts
  <1>2. FormatPlace /\ [FormatNext]_formatVars => FormatPlace'
    <2>1. FormatPlace /\ UNCHANGED formatVars => FormatPlace'
      BY DEF FormatPlace, FormatInv, FormatInBounds, formatVars
    <2> QED BY <2>1, FormatPlaceStep
  <1>3. FormatPlace => FormatLeft \in Nat
    <2> SUFFICES ASSUME FormatPlace PROVE FormatLeft \in Nat
      OBVIOUS
    <2>1. Len(call.fmt) \in Nat /\ fmt \in 1..(Len(call.fmt) + 1)
      BY CallsAssumption DEF FormatPlace, FormatInv, FormatInBounds
    <2>2. PartsLeft(at) \in Nat
      BY PartsLeftIs DEF FormatPlace, FormatParts
    <2> DEFINE n == Len(call.fmt)
               p == PartsLeft(at)
    <2>3. n \in Nat /\ fmt \in 1..(n + 1) /\ p \in Nat
      BY <2>1, <2>2
    <2> HIDE DEF n, p
    <2>4. 8 * (n + 1 - fmt) + p \in Nat
      BY <2>3
    <2> QED BY <2>4 DEF n, p, FormatLeft
  <1>4. FormatPlace /\ [FormatNext]_formatVars => [FormatLeft' < FormatLeft]_formatVars
    <2> SUFFICES ASSUME FormatPlace, FormatNext PROVE FormatLeft' < FormatLeft
      OBVIOUS
    <2> DEFINE n == Len(call.fmt)
               p == PartsLeft(at)
               q == PartsLeft(at')
    <2>1. /\ n \in Nat /\ fmt \in Nat /\ fmt' \in Nat
          /\ \/ fmt' = fmt /\ q < p
             \/ fmt' > fmt /\ q <= 7
      BY FormatPlaceStep
    <2>2. p \in Nat /\ q \in Nat /\ (p = 0 => at = "done")
      BY FormatPlaceStep, PartsLeftIs DEF FormatPlace, FormatParts
    <2>3. p > 0
      <3>1. at # "done"
        BY DEF FormatNext, Literal, Percent, Flag, Width, Point, Precision, Qualifier, ConvertChar,
               ConvertString, ConvertNumber, ConvertCount, ConvertReal, ConvertMac, ConvertIp,
               ConvertOther, Terminate
      <3> QED BY <2>2, <3>1
    <2>4. FormatLeft = 8 * (n + 1 - fmt) + p /\ FormatLeft' = 8 * (n + 1 - fmt') + q
      BY FormatPlaceStep DEF FormatLeft
    <2> HIDE DEF n, p, q
    <2>5. ASSUME NEW f \in Nat, NEW g \in Nat, g > f, q <= 7
          PROVE  8 * (n + 1 - g) + q < 8 * (n + 1 - f) + p
      <3>1. 8 * (n + 1 - g) <= 8 * (n + 1 - f) - 8
        BY <2>1, <2>5
      <3> QED BY <2>1, <2>2, <2>3, <2>5, <3>1
    <2>6. CASE fmt' = fmt
      <3>1. q < p
        BY <2>1, <2>6
      <3>2. FormatLeft' = 8 * (n + 1 - fmt) + q
        BY <2>4, <2>6
      <3>3. ASSUME NEW k \in Int PROVE k + q < k + p
        BY <2>2, <3>1
      <3>4. 8 * (n + 1 - fmt) \in Int
        BY <2>1
      <3> QED BY <2>4, <3>2, <3>3, <3>4
    <2>7. CASE fmt' > fmt
      <3>1. q <= 7
        BY <2>1, <2>7
      <3> QED BY <2>1, <2>4, <2>5, <2>7, <3>1
    <2> QED BY <2>1, <2>6, <2>7
  <1> QED BY <1>1, <1>2, <1>3, <1>4, PTL DEF FormatSpec
=============================================================================
