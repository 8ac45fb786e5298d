------------------------------ MODULE Strings -------------------------------
(***************************************************************************)
(* The functions of kernel/lib/string.c, one iteration of their loops per  *)
(* step, on a memory of signed bytes (int8_t), and what each of them       *)
(* promises told from the memory before the call.                          *)
(***************************************************************************)
EXTENDS Integers, SequencesExt, FiniteSetsExt

CONSTANT Requests       \* calls, each with the memory it finds

VARIABLES request,      \* fn, mem, and the arguments dest, src, ch, count
          mem,
          ptr, src,     \* the two moving pointers
          left,         \* what is left of the count
          last,         \* the last match of strrchr and strrsep
          result,
          doing         \* "seek" (of strcat), "loop" or "done"

stringVars == <<request, mem, ptr, src, left, last, result, doing>>

NUL  == 0
Nowhere == -1
Separators == {47, 92}              \* / and \
Int8(ch)   == ((ch + 128) % 256) - 128
IsSmall(b) == b \in 97..122         \* a to z
-----------------------------------------------------------------------------
(* What may be asked for: strings end, and there is room. *)

Cells(m)      == DOMAIN m

\* Addresses count from 0, a byte is signed, pointers and counts are not.
ASSUME RequestsAssumption ==
    \A r \in Requests :
      /\ r.mem \in [Cells(r.mem) -> -128..127]
      /\ \A c \in Cells(r.mem) : c \in Nat /\ 0..c \subseteq Cells(r.mem)
      /\ r.dest \in Nat /\ r.src \in Nat /\ r.count \in Nat /\ r.ch \in Int

Ends(m, p)    == {k \in Cells(m) : k >= p /\ m[k] = NUL}
Length(m, p)  == Min(Ends(m, p)) - p
Room(m, p, n) == \A k \in p..(p + n - 1) : k \in Cells(m)

\* n bytes may be copied from their first one on.
Forward(p, q, n) == p <= q \/ p >= q + n

LegalCopy(r) ==
    CASE r.fn = "memcpy"  -> Room(r.mem, r.src, r.count) /\ Forward(r.dest, r.src, r.count)
      [] r.fn = "strncpy" ->
           /\ r.count > 0
           /\ Ends(r.mem, r.src) # {} \/ Room(r.mem, r.src, r.count)
           /\ Forward(r.dest, r.src, r.count)
      [] r.fn = "strcpy"  ->
           /\ Ends(r.mem, r.src) # {}
           /\ Forward(r.dest, r.src, Length(r.mem, r.src) + 1)
           /\ Room(r.mem, r.dest, Length(r.mem, r.src) + 1)
      [] r.fn = "strcat"  ->
           /\ Ends(r.mem, r.src) # {} /\ Ends(r.mem, r.dest) # {}
           /\ LET size == Length(r.mem, r.dest) + Length(r.mem, r.src) + 1
              IN  /\ Room(r.mem, r.dest, size)
                  /\ r.dest + size <= r.src \/ r.src + Length(r.mem, r.src) < r.dest

Legal(r) ==
    CASE r.fn \in {"strcpy", "strcat"} -> LegalCopy(r)
      [] r.fn \in {"strncpy", "memcpy"} -> LegalCopy(r) /\ Room(r.mem, r.dest, r.count)
      [] r.fn \in {"memset", "memchr"} -> Room(r.mem, r.dest, r.count)
      [] r.fn = "memcmp"  -> Room(r.mem, r.dest, r.count) /\ Room(r.mem, r.src, r.count)
      [] r.fn = "strnlen" -> Ends(r.mem, r.dest) # {} \/ Room(r.mem, r.dest, r.count + 1)
      [] r.fn = "strcmp"  -> Ends(r.mem, r.dest) # {} /\ Ends(r.mem, r.src) # {}
      [] OTHER -> Ends(r.mem, r.dest) # {}

StringStart(r) ==
    /\ request = r /\ mem = r.mem /\ ptr = r.dest /\ src = r.src /\ left = r.count
    /\ last = Nowhere /\ result = Nowhere

StringInit ==
    /\ \E r \in Requests : Legal(r) /\ StringStart(r)
    /\ doing = IF request.fn = "strcat" THEN "seek" ELSE "loop"
-----------------------------------------------------------------------------
(* One iteration. *)

Calling(f) == doing = "loop" /\ request.fn = f /\ UNCHANGED request

Returns(r) == doing' = "done" /\ result' = r /\ UNCHANGED <<ptr, src, left, last>>

Goes(p, q, n) ==
    ptr' = p /\ src' = q /\ left' = n /\ UNCHANGED <<last, result, doing>>

Store(p, b) == mem' = [mem EXCEPT ![p] = b]

CopyString ==
    /\ Store(ptr, mem[src])
    /\ IF mem[src] = NUL THEN Returns(request.dest) ELSE Goes(ptr + 1, src + 1, left)

strcpy == Calling("strcpy") /\ CopyString

\* A string of exactly count bytes left without an end.
Faulty_strncpy_Open ==
    /\ Calling("strncpy")
    /\ IF left = 0
       THEN UNCHANGED mem /\ Returns(request.dest)
       ELSE /\ Store(ptr, mem[src])
            /\ IF mem[src] = NUL THEN Returns(request.dest)
                                 ELSE Goes(ptr + 1, src + 1, left - 1)

strncpy ==
    /\ Calling("strncpy")
    /\ IF left = 0
       THEN Store(request.dest + request.count - 1, NUL) /\ Returns(request.dest)
       ELSE /\ Store(ptr, mem[src])
            /\ IF mem[src] = NUL THEN Returns(request.dest)
                                 ELSE Goes(ptr + 1, src + 1, left - 1)

SeekEnd ==
    /\ doing = "seek"
    /\ IF mem[ptr] # NUL THEN ptr' = ptr + 1 /\ UNCHANGED doing
                         ELSE doing' = "loop" /\ UNCHANGED ptr
    /\ UNCHANGED <<request, mem, src, left, last, result>>

strcat == SeekEnd \/ (Calling("strcat") /\ CopyString)

\* The byte is looked at before the bound.
strnlen ==
    /\ Calling("strnlen") /\ UNCHANGED mem
    /\ IF mem[ptr] # NUL /\ left > 0 THEN Goes(ptr + 1, src, left - 1)
                                     ELSE Returns(ptr - request.dest)

strlen ==
    /\ Calling("strlen") /\ UNCHANGED mem
    /\ IF mem[ptr] # NUL THEN Goes(ptr + 1, src, left) ELSE Returns(ptr - request.dest)

Compared(a, b) == IF a < b THEN -1 ELSE IF a > b THEN 1 ELSE 0

strcmp ==
    /\ Calling("strcmp") /\ UNCHANGED mem
    /\ IF mem[ptr] = mem[src] /\ mem[ptr] # NUL
       THEN Goes(ptr + 1, src + 1, left) ELSE Returns(Compared(mem[ptr], mem[src]))

FindFirst(those) ==
    /\ UNCHANGED mem
    /\ IF mem[ptr] \in those THEN Returns(ptr)
       ELSE IF mem[ptr] = NUL THEN Returns(Nowhere) ELSE Goes(ptr + 1, src, left)

FindLast(those) ==
    LET match == IF mem[ptr] \in those THEN ptr ELSE last
    IN  /\ last' = match
        /\ IF mem[ptr] = NUL
           THEN doing' = "done" /\ result' = match /\ UNCHANGED <<ptr, src, left>>
           ELSE ptr' = ptr + 1 /\ UNCHANGED <<src, left, result, doing>>
        /\ UNCHANGED mem

strchr  == Calling("strchr") /\ FindFirst({request.ch})
strrchr == Calling("strrchr") /\ FindLast({request.ch})
strsep  == Calling("strsep") /\ FindFirst(Separators)
strrsep == Calling("strrsep") /\ FindLast(Separators)

memcmp ==
    /\ Calling("memcmp") /\ UNCHANGED mem
    /\ IF left > 0 /\ mem[ptr] = mem[src] THEN Goes(ptr + 1, src + 1, left - 1)
       ELSE Returns(IF left = 0 THEN 0 ELSE Compared(mem[ptr], mem[src]))

memset ==
    /\ Calling("memset")
    /\ IF left > 0 THEN Store(ptr, Int8(request.ch)) /\ Goes(ptr + 1, src, left - 1)
                   ELSE UNCHANGED mem /\ Returns(request.dest)

memcpy ==
    /\ Calling("memcpy")
    /\ IF left > 0 THEN Store(ptr, mem[src]) /\ Goes(ptr + 1, src + 1, left - 1)
                   ELSE UNCHANGED mem /\ Returns(request.dest)

\* Past the last byte there is no return statement: anything is returned.
memchr ==
    /\ Calling("memchr") /\ UNCHANGED mem
    /\ IF left = 0 THEN \E r \in {Nowhere} \cup Cells(mem) : Returns(r)
       ELSE IF mem[ptr] = request.ch THEN Returns(ptr) ELSE Goes(ptr + 1, src, left - 1)

strupr ==
    /\ Calling("strupr")
    /\ IF mem[ptr] = NUL THEN UNCHANGED mem /\ Returns(ptr)
       ELSE /\ Store(ptr, IF IsSmall(mem[ptr]) THEN mem[ptr] - 32 ELSE mem[ptr])
            /\ Goes(ptr + 1, src, left)

StringNext ==
    \/ strcpy \/ strncpy \/ strcat \/ strnlen \/ strlen \/ strcmp \/ strchr \/ strrchr
    \/ memcmp \/ memset \/ memcpy \/ memchr \/ strsep \/ strrsep \/ strupr

StringSpec == StringInit /\ [][StringNext]_stringVars
-----------------------------------------------------------------------------
(* What the functions promise. *)

BytesAt(m, p, n) == [k \in 1..n |-> m[p + k - 1]]
StringAt(m, p)   == BytesAt(m, p, Length(m, p))

\* The memory with `bytes' at p, and untouched elsewhere.
With(m, p, bytes) ==
    [k \in Cells(m) |-> IF k - p + 1 \in 1..Len(bytes) THEN bytes[k - p + 1] ELSE m[k]]

Outcome(r) ==
    CASE r.fn = "strcpy"  -> With(r.mem, r.dest, Append(StringAt(r.mem, r.src), NUL))
      [] r.fn = "strncpy" ->
           LET fits == {n \in 0..(r.count - 1) : n + r.src \in Ends(r.mem, r.src)}
               n    == IF fits = {} THEN r.count - 1 ELSE Min(fits)
           IN  With(r.mem, r.dest, Append(BytesAt(r.mem, r.src, n), NUL))
      [] r.fn = "strcat"  ->
           With(r.mem, r.dest, StringAt(r.mem, r.dest) \o Append(StringAt(r.mem, r.src), NUL))
      [] r.fn = "memset"  -> With(r.mem, r.dest, [k \in 1..r.count |-> Int8(r.ch)])
      [] r.fn = "memcpy"  -> With(r.mem, r.dest, BytesAt(r.mem, r.src, r.count))
      [] r.fn = "strupr"  ->
           With(r.mem, r.dest, [k \in 1..Length(r.mem, r.dest) |->
               LET b == r.mem[r.dest + k - 1] IN IF IsSmall(b) THEN b - 32 ELSE b])
      [] OTHER -> r.mem

\* The C library compares bytes as unsigned ones.
Unsigned(b) == b % 256

Differ(s, t) == {k \in DOMAIN s \cap DOMAIN t : s[k] # t[k]}

\* The order of texts: by the first byte in which they differ.
Order(s, t) ==
    LET k == Min(Differ(s, t))
    IN  IF Differ(s, t) = {} THEN 0 ELSE IF Unsigned(s[k]) < Unsigned(t[k]) THEN -1 ELSE 1

\* That byte is above 127 in one of them only.
Apart(s, t) ==
    LET k == Min(Differ(s, t)) IN Differ(s, t) # {} /\ (s[k] < 0) # (t[k] < 0)

TellsOrder(value, s, t) ==
    /\ value = 0 <=> Order(s, t) = 0
    /\ Apart(s, t) \/ value = Order(s, t)

\* What is looked for is a char, not an int that is to be converted to one.
AsksForChar(r) == r.fn \in {"strsep", "strrsep"} \/ Int8(r.ch) = r.ch

\* The cells of a string with its end, or of count bytes, that hold what is
\* looked for.
Matches(r) ==
    LET n     == IF r.fn = "memchr" THEN r.count ELSE Length(r.mem, r.dest) + 1
        those == IF r.fn \in {"strsep", "strrsep"} THEN Separators ELSE {Int8(r.ch)}
    IN  {k \in r.dest..(r.dest + n - 1) : r.mem[k] \in those}

Promised(r, value) ==
    CASE r.fn \in {"strcpy", "strncpy", "strcat", "memset", "memcpy"} -> value = r.dest
      [] r.fn = "strlen"  -> value = Length(r.mem, r.dest)
      [] r.fn = "strnlen" ->
           value = Min({r.count} \cup {k - r.dest : k \in Ends(r.mem, r.dest)})
      [] r.fn = "strcmp"  -> TellsOrder(value, Append(StringAt(r.mem, r.dest), NUL),
                                               Append(StringAt(r.mem, r.src), NUL))
      [] r.fn = "memcmp"  -> TellsOrder(value, BytesAt(r.mem, r.dest, r.count),
                                               BytesAt(r.mem, r.src, r.count))
      [] r.fn = "memchr"  ->
           AsksForChar(r) /\ Matches(r) # {} => value = Min(Matches(r))
      [] r.fn \in {"strchr", "strsep"}   ->
           AsksForChar(r) => value = IF Matches(r) = {} THEN Nowhere ELSE Min(Matches(r))
      [] r.fn \in {"strrchr", "strrsep"} ->
           AsksForChar(r) => value = IF Matches(r) = {} THEN Nowhere ELSE Max(Matches(r))
      [] OTHER -> TRUE

\* Each function leaves in memory and returns what the C library's does, and
\* touches no other byte: strings that fill their room, empty ones, counts of
\* 0, and source and destination that overlap (string.c:7-232).  The library's
\* is not claimed where the code does something else: the sign of a comparison
\* that a byte above 127 decides against one below, a search for an int that is
\* no char, what memchr returns for a byte that is not there, and strncpy, of
\* which it is claimed that it copies what fits and always ends the string.
\* What strupr returns is left open.
CallCorrect == doing = "done" => mem = Outcome(request) /\ Promised(request, result)
=============================================================================
