----------------------------- MODULE TurtleLexer -----------------------------
(***************************************************************************)
(* The lexer of Turtle files (TurtleParser.cpp), from the characters of a  *)
(* stream to tokens.                                                       *)
(*                                                                         *)
(* A step is one call of read and what is done with the character; at says *)
(* which loop of the lexer makes it.  A character may stand for a run of   *)
(* letters that are never told apart ("base", "http://").  The counter of  *)
(* lines, which only messages show, is left out.                           *)
(***************************************************************************)
EXTENDS TurtleTokens, Integers

CONSTANTS
    BufferSize,  \* readBufferSize
    Letters,     \* the characters that are letters
    Char(_)      \* the character whose code is a byte

ASSUME BufferSizeAssumption == BufferSize \in Nat \ {0}

VARIABLES
    file,            \* the characters of the stream
    position, good,  \* how many of them it has given, and whether it still does
    readBuffer,      \* how many characters come before those in the buffer
    readBufferStart, readBufferEnd,
    at, token,       \* the running loop of the lexer, and the text so far
    escape           \* the hex digits to come, their value so far, and the loop to go back to

stream == <<position, good>>
buffer == <<readBuffer, readBufferStart, readBufferEnd>>
lexer == <<stream, buffer, at, token, escape>>

NoEscape == [left |-> 0, code |-> 0, outer |-> "start"]

LexerInit ==
    /\ position = 0 /\ good = TRUE
    /\ readBuffer = 0 /\ readBufferStart = 0 /\ readBufferEnd = 0
    /\ at = "start" /\ token = <<>> /\ escape = NoEscape

-----------------------------------------------------------------------------
(* read, unread and doRead.                                                *)
EndOfFile == "end of file"

Buffered == readBufferStart < readBufferEnd
Rest == Len(file) - position
Filled == IF ~good THEN 0 ELSE IF Rest < BufferSize THEN Rest ELSE BufferSize

\* What the next read gives.
Current ==
    IF Buffered THEN file[readBuffer + readBufferStart + 1]
    ELSE IF Filled = 0 THEN EndOfFile ELSE file[position + 1]

\* A read that uses the character (1) or puts it back (0).  A read that finds
\* nothing in the stream sets the start of the buffer back, but not its end.
Refill(used, end, more) ==
    IF Buffered
    THEN readBufferStart' = readBufferStart + used /\ UNCHANGED <<readBuffer, readBufferEnd, stream>>
    ELSE /\ readBufferStart' = IF Filled > 0 THEN used ELSE IF good THEN 0 ELSE readBufferStart
         /\ readBufferEnd' = IF Filled > 0 THEN end ELSE readBufferEnd
         /\ readBuffer' = IF Filled > 0 THEN position ELSE readBuffer
         /\ position' = position + Filled
         /\ good' = (good /\ more)

\* Mutants: a short read does not end the stream, or the buffer.
Fetch_StaysGood(used) == Refill(used, Filled, Filled > 0)
Fetch_FullBuffer(used) == Refill(used, BufferSize, Filled = BufferSize)
Fetch(used) == Refill(used, Filled, Filled = BufferSize)

Read == Fetch(1)
ReadAndUnread == Fetch(0)

\* How a step leaves the lexer: in a loop, or with a token for the parser.
Goes(loop, text) == at' = loop /\ token' = text /\ UNCHANGED <<input, escape>>
Gives(kind, text) ==
    /\ input' = <<Token(kind, text)>>
    /\ at' = "start" /\ token' = <<>> /\ UNCHANGED escape

\* Mutant: what ends a token is not put back.
Ends_Drops(kind, text) == Read /\ Gives(kind, text)
Ends(kind, text) == ReadAndUnread /\ Gives(kind, text)

-----------------------------------------------------------------------------
(* Characters.                                                             *)
Quote == "\""
Backslash == "\\"
LineEnds == {"\n", "\r"}
Blanks == {" ", "\t"} \union LineEnds
Digits == {"0", "1", "2", "3", "4", "5", "6", "7", "8", "9"}
Signs == {"+", "-"}
Exponents == {"e", "E"}

Marks == [c \in {":", ";", ",", "[", "]", "(", ")", "@"} |->
             CASE c = ":" -> "Colon"    [] c = ";" -> "Semicolon" [] c = "," -> "Comma"
               [] c = "[" -> "LBracket" [] c = "]" -> "RBracket"  [] c = "(" -> "LParen"
               [] c = ")" -> "RParen"   [] c = "@" -> "At"]

issep(c) == c \in Blanks \union {"[", "]", "(", ")", ",", ";", ":", "."}

-----------------------------------------------------------------------------
(* Numbers.  A dot ends the first block of digits, it does not continue it. *)
Numeric == {"signed", "digits", "point", "fraction", "exponent", "exponentSign", "power"}
NumberKinds == [loop \in {"digits", "point", "fraction", "power"} |->
                   CASE loop = "digits" -> "Integer" [] loop = "power" -> "Double" [] OTHER -> "Decimal"]

\* The loop that takes c, if there is one.
NumberLoop(loop, c) ==
    CASE c \in Digits /\ loop \in {"signed", "digits"} -> "digits"
      [] c \in Digits /\ loop \in {"point", "fraction"} -> "fraction"
      [] c \in Digits /\ loop \in {"exponent", "exponentSign", "power"} -> "power"
      [] c = "." /\ loop = "signed" -> "point"
      [] c \in Exponents /\ loop \in {"digits", "point", "fraction"} -> "exponent"
      [] c \in Signs /\ loop = "exponent" -> "exponentSign"
      [] OTHER -> "none"

LexNumber ==
    /\ at \in Numeric
    /\ \E c \in {Current} :
           IF c = EndOfFile
           THEN Read /\ Gives(IF at \in DOMAIN NumberKinds \ {"point"}
                              THEN NumberKinds[at] ELSE "Broken", token)
           ELSE IF NumberLoop(at, c) # "none"
           THEN Read /\ Goes(NumberLoop(at, c), Append(token, c))
           ELSE IF issep(c) /\ at \in DOMAIN NumberKinds
           THEN Ends(NumberKinds[at], token)
           ELSE Read /\ Gives("Broken", token)

-----------------------------------------------------------------------------
(* Strings and URIs.                                                       *)
Closes(c) == c = (IF at = "uri" THEN ">" ELSE Quote)

\* A second quote may end the string or begin a long one.
LexDelimited ==
    /\ at \in {"quote", "string", "uri"}
    /\ Read
    /\ \E c \in {Current}, loop \in {IF at = "uri" THEN "uri" ELSE "string"} :
           CASE c = EndOfFile -> Gives("Broken", token)
             [] Closes(c) /\ at = "quote" -> Goes("quotequote", token)
             [] Closes(c) /\ at # "quote" -> Gives(IF at = "uri" THEN "URI" ELSE "String", token)
             [] c = Backslash -> /\ escape' = [NoEscape EXCEPT !.outer = loop]
                                 /\ at' = "escape" /\ UNCHANGED <<token, input>>
             [] OTHER -> Goes(loop, Append(token, c))

LexEmptyString ==
    /\ at = "quotequote"
    /\ IF Current = Quote THEN Read /\ Goes("long", token)
       ELSE Ends("String", token)

\* Quotes that do not end the string are kept; what follows them is not.
LexLongString ==
    /\ at \in {"long", "long1", "long2"}
    /\ Read
    /\ \E c \in {Current} :
           CASE c = EndOfFile -> Gives("Broken", token)
             [] at = "long" /\ c = Quote -> Goes("long1", token)
             [] at = "long" /\ c = Backslash ->
                    /\ escape' = [NoEscape EXCEPT !.outer = "long"]
                    /\ at' = "escape" /\ UNCHANGED <<token, input>>
             [] at = "long" /\ c \notin {EndOfFile, Quote, Backslash} -> Goes("long", Append(token, c))
             [] at = "long1" /\ c = Quote -> Goes("long2", token)
             [] at = "long1" /\ c \notin {EndOfFile, Quote} -> Goes("long", Append(token, Quote))
             [] at = "long2" /\ c = Quote -> Gives("String", token)
             [] at = "long2" /\ c \notin {EndOfFile, Quote} -> Goes("long", token \o <<Quote, Quote>>)

-----------------------------------------------------------------------------
(* Escapes.                                                                *)
Escapes == [c \in {"t", "n", "r", Quote, ">", Backslash} |->
               CASE c = "t" -> "\t" [] c = "n" -> "\n" [] c = "r" -> "\r" [] OTHER -> c]
HexLength == [c \in {"u", "U"} |-> IF c = "u" THEN 4 ELSE 8]

HexDigits == << "1", "2", "3", "4", "5", "6", "7", "8", "9", "a", "b", "c", "d", "e", "f" >>
Capitals == << "A", "B", "C", "D", "E", "F" >>
HexValues(c) ==
    { n \in 0..15 : \/ n = 0 /\ c = "0"
                    \/ n > 0 /\ c = HexDigits[n]
                    \/ n > 9 /\ c = Capitals[n - 9] }

\* At most three bytes are made: of a larger code the upper bits are lost.
encodeUtf8(code) ==
    LET rest(shift) == Char(128 + ((code \div shift) % 64))
    IN  IF code \in 1..127 THEN << Char(code) >>
        ELSE IF code < 2048 THEN << Char(192 + ((code \div 64) % 32)), rest(1) >>
        ELSE << Char(224 + ((code \div 4096) % 16)), rest(64), rest(1) >>

GoesBack(text) ==
    at' = escape.outer /\ token' = text /\ escape' = NoEscape /\ UNCHANGED input

Fails == input' = <<Token("Broken", token)>> /\ at' = "start" /\ token' = <<>> /\ escape' = NoEscape

LexEscape ==
    /\ at = "escape"
    /\ Read
    /\ \E c \in {Current} :
           CASE c \in DOMAIN Escapes -> GoesBack(Append(token, Escapes[c]))
             [] c \in DOMAIN HexLength ->
                    /\ escape' = [escape EXCEPT !.left = HexLength[c]]
                    /\ at' = "hex" /\ UNCHANGED <<token, input>>
             [] OTHER -> Fails

LexHexCode ==
    /\ at = "hex"
    /\ Read
    /\ IF HexValues(Current) = {} THEN Fails
       ELSE \E value \in HexValues(Current) : \E code \in {16 * escape.code + value} :
                IF escape.left = 1 THEN GoesBack(token \o encodeUtf8(code))
                ELSE /\ escape' = [escape EXCEPT !.left = @ - 1, !.code = code]
                     /\ UNCHANGED <<at, token, input>>

-----------------------------------------------------------------------------
(* next.                                                                   *)
LexStart ==
    /\ at = "start"
    /\ Read
    /\ \E c \in {Current} :
           CASE c = EndOfFile -> Gives("Eof", <<>>)
             [] c \in Blanks -> Goes("start", <<>>)
             [] c = "#" -> Goes("comment", <<>>)
             [] c = "." -> Goes("dot", <<>>)
             [] c \in DOMAIN Marks -> Gives(Marks[c], <<>>)
             [] c \in Signs -> Goes("signed", <<c>>)
             [] c \in Digits -> Goes("digits", <<c>>)
             [] c = "^" -> Goes("caret", <<>>)
             [] c = Quote -> Goes("quote", <<>>)
             [] c = "<" -> Goes("uri", <<>>)
             [] c \in Letters \union {"_"} -> Goes("name", <<c>>)
             [] OTHER -> Gives("Error", <<>>)

\* Mutant: the end of the file does not end a comment.
LexComment_NoEnd ==
    /\ at = "comment"
    /\ Read
    /\ Goes(IF Current \in LineEnds THEN "start" ELSE "comment", <<>>)

LexComment ==
    /\ at = "comment"
    /\ Read
    /\ Goes(IF Current \in LineEnds \union {EndOfFile} THEN "start" ELSE "comment", <<>>)

\* A dot is part of a number when a digit follows.
LexDot ==
    /\ at = "dot"
    /\ IF Current \in Digits THEN ReadAndUnread /\ Goes("point", <<".">>) ELSE Ends("Dot", <<>>)

LexType ==
    /\ at = "caret"
    /\ Read
    /\ Gives(IF Current = "^" THEN "Type" ELSE "Error", <<>>)

NameKind(text) ==
    CASE text = <<"a">> -> "A" [] text = <<"true">> -> "True" [] text = <<"false">> -> "False"
      [] OTHER -> "Name"

LexName ==
    /\ at = "name"
    /\ \E c \in {Current} :
           IF c = EndOfFile \/ issep(c) THEN Ends(NameKind(token), token)
           ELSE Read /\ Goes("name", Append(token, c))

LexerStep ==
    /\ \/ LexStart \/ LexComment \/ LexDot \/ LexType \/ LexName \/ LexNumber
       \/ LexDelimited \/ LexEmptyString \/ LexLongString \/ LexEscape \/ LexHexCode
    /\ UNCHANGED file
=============================================================================
