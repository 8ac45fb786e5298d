----------------------------- MODULE MCLibrary ------------------------------
(***************************************************************************)
(* The parts the others are built on: bitmap_scan, vsprintf, the functions *)
(* of string.c and the lists of free blocks.  A behaviour is one call of   *)
(* one of the first three, or any sequence of operations on a list.        *)
(***************************************************************************)
EXTENDS BitmapScan, Format, Strings, MemBlockList

(* Formats: one directive of every make, then "z%d". *)

Argument(w) == [word |-> w, char |-> "z", text |-> <<"k", "e", "y">>,
                bytes |-> <<0, 9, 10, 171, 255, 16>>,
                real |-> [negative |-> FALSE, millionths |-> 0]]
Words == {Argument(w) : w \in {0, 5, 128, 171}}
Real(negative, n) ==
    [Argument(0) EXCEPT !.real = [negative |-> negative, millionths |-> n]]
Reals == {Real(FALSE, 0), Real(TRUE, 20), Real(FALSE, 2345678), Real(TRUE, 11500000),
          Real(FALSE, 127999999)}

FlagTexts == {<<>>, <<"-">>, <<"0">>, <<"+">>, <<" ">>, <<"#">>, <<"0", "-">>,
              <<"+", "0">>, <<"#", "0">>}

NoWidth == [text |-> <<>>, args |-> <<>>, value |-> -1, left |-> FALSE]
Widths  == {NoWidth,
            [text |-> <<"1", "1">>, args |-> <<>>, value |-> 11, left |-> FALSE],
            [text |-> <<"*">>, args |-> <<Argument(6)>>, value |-> 6, left |-> FALSE],
            [text |-> <<"*">>, args |-> <<Argument(250)>>, value |-> 6, left |-> TRUE]}

NoPrecision == [text |-> <<>>, length |-> <<>>, value |-> -1]
Precisions  == {[text |-> <<>>, length |-> <<"l">>, value |-> -1],
                [text |-> <<".">>, length |-> <<>>, value |-> 0],
                [text |-> <<".", "3">>, length |-> <<"h">>, value |-> 3]}

Own(conv, a) == CASE conv = "f" -> <<a, Argument(0)>>
                  [] conv \in {"%", "y"} -> <<>>
                  [] OTHER -> <<a>>

Directives(flagTexts, widths, precisions, convs, arguments) ==
    {[text |-> [flags |-> f, width |-> w.text, precision |-> p.text, length |-> p.length],
      star |-> w.args, flags |-> ToSet(f) \cup (IF w.left THEN {"-"} ELSE {}),
      width |-> w.value, precision |-> p.value, conv |-> conv, arg |-> a, own |-> Own(conv, a)] :
        f \in flagTexts, w \in widths, p \in precisions, conv \in convs, a \in arguments}

MCDirectives ==
    Directives(FlagTexts, Widths, Precisions, DOMAIN BaseOf, Words)
    \cup Directives(FlagTexts, Widths, Precisions, {"c", "s", "n"}, {Argument(0)})
    \cup Directives(FlagTexts, Widths, Precisions, {"f"}, Reals)
    \cup Directives(FlagTexts, {NoWidth}, {NoPrecision}, DOMAIN BaseOf, Words)
    \cup Directives({<<>>}, {NoWidth}, {NoPrecision}, {"m", "r", "%", "y"}, {Argument(0)})

Whole(d)  == [fmt |-> Text(d) \o <<"z", "%", "d">>, args |-> d.star \o d.own \o <<Argument(42)>>,
              whole |-> TRUE, tail |-> <<"z", "4", "2">>, directive |-> d]
Broken(d) == [fmt |-> Front(Text(d)), args |-> d.star,
              whole |-> FALSE, tail |-> <<>>, directive |-> d]
Starred   == [fmt |-> <<"%", ".", "*", "d">>, args |-> <<Argument(3), Argument(5)>>,
              whole |-> FALSE, tail |-> <<>>, directive |-> {}]

(* The largest width and precision, and what no int of the model holds. *)

Widest == [text |-> <<"1", "2", "7">>, args |-> <<>>, value |-> 127, left |-> FALSE]
Most   == [text |-> <<".", "1", "2", "2">>, length |-> <<>>, value |-> 122]

LimitDirectives ==
    Directives({<<>>, <<"-">>, <<"#", "0">>}, {NoWidth, Widest}, {NoPrecision, Most},
               {"d", "X", "c", "s"}, {Argument(171)})

TooWide == {[text |-> <<"3", "8", "3">>, args |-> <<>>, value |-> 383, left |-> FALSE],
            [text |-> <<"*">>, args |-> <<Argument(128)>>, value |-> 128, left |-> TRUE]}
TooMuch == {[text |-> <<".", "1", "2", "3">>, length |-> <<>>, value |-> 123],
            [text |-> <<".", "2", "0", "0">>, length |-> <<>>, value |-> 200]}

BeyondDirectives ==
    Directives({<<>>, <<"-">>}, {NoWidth} \cup TooWide, {NoPrecision} \cup TooMuch,
               {"d", "X", "c", "s"}, {Argument(171)})
    \cup Directives({<<>>}, {NoWidth}, {NoPrecision}, {"f"}, {Real(TRUE, 128000000)})

MCCalls == {Whole(d) : d \in MCDirectives \cup LimitDirectives}
           \cup {Broken(d) : d \in MCDirectives} \cup {Starred}
           \cup {[Whole(d) EXCEPT !.whole = FALSE] : d \in BeyondDirectives}

(* Calls of string.c, in every small memory. *)

Signed == [0..3 -> {-4, NUL, 97}]
Paths  == [0..4 -> {NUL, 47, 92, 97}]

MCRequests ==
    [fn : {"strcpy", "strcat", "strcmp"}, mem : Signed,
     dest : 0..3, src : 0..3, ch : {0}, count : {0}]
    \cup [fn : {"strncpy", "memcmp", "memcpy"}, mem : Signed,
          dest : 0..3, src : 0..3, ch : {0}, count : 0..4]
    \cup [fn : {"memset", "memchr"}, mem : Signed,
          dest : 0..2, src : {0}, ch : {-4, 97, 252}, count : 0..4]
    \cup [fn : {"strnlen"}, mem : Signed, dest : 0..2, src : {0}, ch : {0}, count : 0..4]
    \cup [fn : {"strlen", "strchr", "strrchr", "strsep", "strrsep", "strupr"},
          mem : Paths, dest : 0..2, src : {0}, ch : {0, 47}, count : {0}]
-----------------------------------------------------------------------------
ScanIdle   == ones = {} /\ cnt = 0 /\ start = NotFound /\ count = 0 /\ next_bit = 0 /\ pc = "idle"
FormatIdle == FormatStart(Starred) /\ at = "idle"
StringIdle == StringStart([fn |-> "none", mem |-> <<>>, dest |-> 0, src |-> 0,
                           ch |-> 0, count |-> 0]) /\ doing = "idle"

\* An empty list nobody uses.
ListIdle   == Init /\ \A b \in Blocks : next[b] = HeadNode /\ prev[b] = HeadNode

LibraryInit ==
    \/ ListIdle /\ ScanInit /\ FormatIdle /\ StringIdle
    \/ ListIdle /\ ScanIdle /\ FormatInit /\ StringIdle
    \/ ListIdle /\ ScanIdle /\ FormatIdle /\ StringInit
    \/ Init /\ ScanIdle /\ FormatIdle /\ StringIdle

ListUsed == pc = "idle" /\ at = "idle" /\ doing = "idle"

LibraryNext ==
    \/ ScanNext /\ UNCHANGED <<formatVars, stringVars, vars>>
    \/ FormatNext /\ UNCHANGED <<scanVars, stringVars, vars>>
    \/ StringNext /\ UNCHANGED <<scanVars, formatVars, vars>>
    \/ ListUsed /\ Next /\ UNCHANGED <<scanVars, formatVars, stringVars>>

libraryVars == <<scanVars, formatVars, stringVars, vars>>

\* The processor runs straight through a call.
LibrarySpec == LibraryInit /\ [][LibraryNext]_libraryVars /\ WF_libraryVars(LibraryNext)

\* No loop of these functions runs for ever: whatever the bitmap, the format
\* or the memory holds, the call returns (bitmap.c:58-69, stdio.c:202-433,
\* string.c:7-232).
EveryCallReturns ==
    <>(pc # "scan" /\ at \in {"done", "idle"} /\ doing \in {"done", "idle"})
=============================================================================
