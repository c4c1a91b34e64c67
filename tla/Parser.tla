-------------------------------- MODULE Parser --------------------------------
(***************************************************************************)
(* 2/parser.c: bytes are fed in chunks of any length, command lines are    *)
(* popped.  The parser keeps nothing but the bytes that no line was made   *)
(* of; each call of parser_pop_next reads them from the beginning.         *)
(*                                                                         *)
(* parse_token is a machine over bytes and parser_pop_next a machine over  *)
(* tokens; a call folds them over the buffer.  Bytes are taken by what the *)
(* code tells apart: "a" is any byte without a meaning, " " any of blank,  *)
(* tab and carriage return.  A failed assertion ends the program.          *)
(*                                                                         *)
(* An operator that nothing uses, right before one with the same           *)
(* parameters, is a plausible mistake in that one.                         *)
(***************************************************************************)
EXTENDS Integers, Sequences, SequencesExt

CONSTANTS Alphabet,   \* bytes that are fed
          MaxFed      \* bound on their number, for TLC

Quotes == {"'", "\""}
Operators == {"&", "|", ">"}
ASSUME AlphabetAssumption ==
    /\ Alphabet \subseteq {"a", " ", "\n", "\\", "#"} \cup Quotes \cup Operators
    /\ MaxFed \in Nat

VARIABLES
    fed,       \* all bytes fed so far: history, for the properties only
    buffer,    \* p->buffer: the bytes of fed that are not consumed
    popped     \* what parser_pop_next has returned so far

vars == <<fed, buffer, popped>>

-----------------------------------------------------------------------------
(* parse_token.  mode is where the loops are: "blank" in the first one,     *)
(* "word" in the second one outside of quotes, a quote inside of it, an     *)
(* operator right after its first byte.  used counts the bytes of the token.*)

Scanning == [mode |-> "blank", type |-> "NONE", data |-> <<>>, used |-> 0]

Found(s, type) == [s EXCEPT !.mode = "found", !.type = type]
Consumed(s, mode) == [s EXCEPT !.mode = mode, !.used = @ + 1]
Appended(s, c, mode) ==
    [s EXCEPT !.mode = mode, !.data = Append(@, c), !.used = @ + 1]

Doubled(op) ==
    CASE op = "&" -> "AND" [] op = "|" -> "OR" [] op = ">" -> "OUT_APPEND"
Single(op) ==
    CASE op = "&" -> "BACKGROUND" [] op = "|" -> "PIPE" [] op = ">" -> "OUT_NEW"

\* Lines 247-260: a blank ends a word, and there must be one.
EndOfWord(s, c) ==
    IF s.data = <<>> THEN Found(s, "FAILED_ASSERTION")
    ELSE IF c = "\n" THEN Found(s, "STR") ELSE Found(Consumed(s, "word"), "STR")

\* Outside of quotes an operator and a comment end a word or begin a token.
InWord(s, c) ==
    CASE c \in Quotes -> Consumed(s, c)
      [] c = "\\" -> Consumed(s, "escape")
      [] c \in Operators \cup {"#"} ->
             IF s.data # <<>> THEN Found(s, "STR") ELSE Consumed(s, c)
      [] c \in {" ", "\n"} -> EndOfWord(s, c)
      [] OTHER -> Appended(s, c, "word")

InBlank(s, c) ==
    CASE c = "\n" -> Found(Consumed(s, "blank"), "NEW_LINE")
      [] c = " " -> Consumed(s, "blank")
      [] OTHER -> InWord(s, c)

InQuotes(s, c) ==
    CASE c = s.mode -> Found(Consumed(s, c), "STR")
      [] c = "\\" /\ s.mode = "\"" -> Consumed(s, "quoted escape")
      [] OTHER -> Appended(s, c, s.mode)

\* Lines 193-201: a new line after the backslash is left out.
AfterEscape(s, c) ==
    IF c = "\n" THEN Consumed(s, "word") ELSE Appended(s, c, "word")

\* Lines 173-190: before other bytes the backslash stands for itself.
AfterQuotedEscape(s, c) ==
    CASE c \in {"\\", "\""} -> Appended(s, c, "\"")
      [] c = "\n" -> Consumed(s, "\"")
      [] OTHER -> Appended([s EXCEPT !.data = Append(@, "\\")], c, "\"")

InComment(s, c) ==
    IF c = "\n" THEN Found(Consumed(s, "#"), "NEW_LINE") ELSE Consumed(s, "#")

\* Lines 211-246: the byte after an operator decides which one it is.
AfterOperator(s, c) ==
    IF c = s.mode THEN Found(Consumed(s, c), Doubled(c)) ELSE Found(s, Single(s.mode))

ScanByte(s, c) ==
    CASE s.mode = "found" -> s
      [] s.mode = "blank" -> InBlank(s, c)
      [] s.mode = "word" -> InWord(s, c)
      [] s.mode \in Quotes -> InQuotes(s, c)
      [] s.mode = "escape" -> AfterEscape(s, c)
      [] s.mode = "quoted escape" -> AfterQuotedEscape(s, c)
      [] s.mode = "#" -> InComment(s, c)
      [] s.mode \in Operators -> AfterOperator(s, c)

\* A token that is not over at the end of the buffer is no token: line 284
\* and the other returns of 0.
EagerToken(bytes) ==
    LET s == FoldLeft(ScanByte, Scanning, bytes) IN
    IF s.mode = "#" THEN Found(s, "NEW_LINE") ELSE s
Token(bytes) == FoldLeft(ScanByte, Scanning, bytes)

\* The tokens of bytes, one after the other.
Tokens(bytes) ==
    LET from[i \in 1 .. Len(bytes) + 1] ==
            LET t == Token(SubSeq(bytes, i, Len(bytes))) IN
            IF t.mode = "found" THEN <<t>> \o from[i + t.used] ELSE <<>>
    IN from[1]

-----------------------------------------------------------------------------
(* parser_pop_next.  phase is what the code does with the next token: add   *)
(* it to the expressions, take it as the file of a redirect, see whether    *)
(* the line ends or goes to the background, expect the end of the line, or  *)
(* skip a line with an error.                                               *)

Reading == [phase |-> "exprs", exprs |-> <<>>, out |-> "STDOUT", background |-> FALSE,
            error |-> "NONE", used |-> 0]

Wrong(g, error) == [g EXCEPT !.phase = "skip", !.error = error]
Ended(g) == [g EXCEPT !.phase = "ended"]
Aborted(g) == [g EXCEPT !.phase = "aborted"]

EndsWithCommand(g) == g.exprs # <<>> /\ Last(g.exprs).type = "COMMAND"

\* Lines 396-406.
CloseAnyway(g) == Ended(g)
Close(g) ==
    CASE g.exprs = <<>> -> Aborted(g)
      [] EndsWithCommand(g) -> Ended(g)
      [] OTHER -> Ended([g EXCEPT !.error = "ENDS_NOT_WITH_A_COMMAND"])

\* Lines 304-313: the first word of a command is its exe, the others its args.
AddWord(g, t) ==
    IF t.data = <<>> THEN Aborted(g)
    ELSE IF EndsWithCommand(g)
         THEN [g EXCEPT !.exprs[Len(g.exprs)].words = Append(@, t.data)]
         ELSE [g EXCEPT !.exprs = Append(@, [type |-> "COMMAND", words |-> <<t.data>>])]

\* Lines 319-357.
AddOperator(g, t) ==
    IF g.exprs = <<>> THEN Wrong(g, "WITH_NO_LEFT_ARG")
    ELSE IF EndsWithCommand(g)
         THEN [g EXCEPT !.exprs = Append(@, [type |-> t.type, words |-> <<>>])]
         ELSE Wrong(g, "WITH_LEFT_ARG_NOT_A_COMMAND")

\* Lines 303-364.
InExprs(g, t) ==
    CASE t.type = "STR" -> AddWord(g, t)
      [] t.type = "NEW_LINE" -> IF g.exprs = <<>> THEN g ELSE Close(g)
      [] t.type \in {"PIPE", "AND", "OR"} -> AddOperator(g, t)
      [] t.type \in {"OUT_NEW", "OUT_APPEND"} -> [g EXCEPT !.phase = "file", !.out = t.type]
      [] t.type = "BACKGROUND" -> [g EXCEPT !.phase = "end", !.background = TRUE]

\* Lines 375-388.
InFile(g, t) ==
    IF t.type # "STR" THEN Wrong(g, "OUTOUT_REDIRECT_BAD_ARG")
    ELSE IF t.data = <<>> THEN Aborted(g) ELSE [g EXCEPT !.phase = "tail"]

\* Lines 389-408.
InTail(g, t) ==
    CASE t.type = "BACKGROUND" -> [g EXCEPT !.phase = "end", !.background = TRUE]
      [] t.type = "NEW_LINE" -> Close(g)
      [] OTHER -> Wrong(g, "TOO_LATE_ARGUMENTS")
InEnd(g, t) ==
    IF t.type = "NEW_LINE" THEN Close(g) ELSE Wrong(g, "TOO_LATE_ARGUMENTS")

\* Lines 415-424.
InSkipToAnything(g, t) == Ended(g)
InSkip(g, t) == IF t.type = "NEW_LINE" THEN Ended(g) ELSE g

ReadToken(g, t) ==
    LET h == [g EXCEPT !.used = @ + t.used] IN
    IF g.phase \in {"ended", "aborted"} THEN g
    ELSE IF t.type = "FAILED_ASSERTION" THEN Aborted(g)
    ELSE CASE g.phase = "exprs" -> InExprs(h, t)
           [] g.phase = "file" -> InFile(h, t)
           [] g.phase = "tail" -> InTail(h, t)
           [] g.phase = "end" -> InEnd(h, t)
           [] g.phase = "skip" -> InSkip(h, t)

Line(bytes) == FoldLeft(ReadToken, Reading, Tokens(bytes))

\* What the caller gets: an error, a line, or the end of the program.
Returned(g) ==
    CASE g.phase = "aborted" -> [error |-> "ABORT", line |-> <<>>]
      [] g.phase = "ended" -> [error |-> g.error,
             line |-> IF g.error = "NONE" THEN <<g.exprs, g.out, g.background>> ELSE <<>>]

-----------------------------------------------------------------------------

Running == \A i \in DOMAIN popped : popped[i].error # "ABORT"

Init == fed = <<>> /\ buffer = <<>> /\ popped = <<>>

\* parser_feed of one byte; a longer chunk is several with no pop in between.
Feed(c) ==
    /\ Running
    /\ Len(fed) < MaxFed
    /\ fed' = Append(fed, c)
    /\ buffer' = Append(buffer, c)
    /\ UNCHANGED popped

\* parser_consume.
Rest(bytes, used) == SubSeq(bytes, used + 1, Len(bytes))

\* parser_pop_next.  It consumes and returns nothing, and so is no step, when
\* the buffer does not hold the end of a line.
PopLine ==
    LET g == Line(buffer) IN
    /\ Running
    /\ g.phase \in {"ended", "aborted"}
    /\ popped' = Append(popped, Returned(g))
    /\ buffer' = IF g.phase = "ended" THEN Rest(buffer, g.used) ELSE buffer
    /\ UNCHANGED fed

Next == (\E c \in Alphabet : Feed(c)) \/ PopLine

Spec == Init /\ [][Next]_vars
=============================================================================
