------------------------------ MODULE GetValues ------------------------------
(***************************************************************************)
(* getValues of PerformanceTestRunner.cpp: a stream is read by the lexer,  *)
(* its tokens by the parser, and the texts of the triples are collected.   *)
(*                                                                         *)
(* The parser asks for a token when it needs one.  A source has a file,    *)
(* the tokens that were written into it, the texts that they mean and      *)
(* whether it is a whole document.                                         *)
(***************************************************************************)
EXTENDS TurtleParser, TurtleLexer

VARIABLES
    reading,    \* where the loop of getValues is
    collected,  \* values
    given       \* how many tokens the lexer has given

ASSUME FilesAssumption == \A s \in Sources : Len(s.file) \in Nat

values == <<reading, collected, given>>
everything == <<vars, lexer, file, values>>

GetValuesInit ==
    /\ ParserInit /\ LexerInit
    /\ file = source.file
    /\ input = <<>>
    /\ reading = "parsing" /\ collected = {} /\ given = <<>>

\* The parser waits for a token.
Asks ==
    /\ reading = "parsing" /\ stack # <<>>
    /\ Top.at \notin {"close", "typed", "verb", "subject"}
    /\ putBack = Eof /\ input = <<>>

ReadToken ==
    /\ Asks
    /\ LexerStep
    /\ given' = given \o input'
    /\ UNCHANGED <<source, putBack, scope, queue, nextBlank, stack, node, outcome>>
    /\ UNCHANGED <<reading, collected>>

TextsOf(triple) == {triple.subject, triple.predicate, triple.object.text}

\* What getValues does when parse has given a triple, thrown or come to the end.
Collect ==
    IF delivered' # delivered
    THEN /\ collected' = collected \union TextsOf(delivered'[Len(delivered')])
         /\ UNCHANGED reading
    ELSE /\ reading' = IF stack # <<>> /\ stack' = <<>>
                       THEN IF answer' = "exception" THEN "recovering" ELSE "done"
                       ELSE reading
         /\ UNCHANGED collected

Parse ==
    /\ reading = "parsing" /\ ~Asks
    /\ Call /\ Collect
    /\ UNCHANGED <<source, lexer, file, given>>

\* Characters are taken past the buffer until a line ends.
Recover ==
    /\ reading = "recovering"
    /\ IF good /\ Rest > 0
       THEN /\ position' = position + 1 /\ UNCHANGED good
            /\ reading' = IF file[position + 1] = "\n" THEN "parsing" ELSE "recovering"
       ELSE good' = FALSE /\ UNCHANGED <<position, reading>>
    /\ UNCHANGED <<buffer, at, token, escape, file, collected, given>>
    /\ UNCHANGED vars

GetValuesNext == ReadToken \/ Parse \/ Recover
GetValuesSpec ==
    GetValuesInit /\ [][GetValuesNext]_everything /\ WF_everything(GetValuesNext)

-----------------------------------------------------------------------------
\* doRead sees the end of the file in a short read.  When the file ends with a
\* full one, it serves the last buffer again before it says that nothing is left.
EndsInShortRead == Len(file) % BufferSize # 0

\* The buffer holds what the stream gave last, to its end and not more; only
\* the recovery, which reads past it, leaves a gap (doRead, unread).
BufferHolds ==
    /\ position \in 0..Len(file) /\ good \in BOOLEAN
    /\ readBufferEnd \in 0..BufferSize /\ readBufferStart \in 0..readBufferEnd
    /\ readBuffer + readBufferEnd <= position
    /\ ~thrown => readBuffer + readBufferEnd = position
    /\ good /\ Buffered /\ ~thrown => readBufferEnd = BufferSize

\* The lexer gives the tokens that were written, whatever stands between them
\* and wherever a buffer ends (next, lexNumber, lexString, lexURI).
TokensAsWritten ==
    LET seen == [i \in 1..Len(given) |->
                    IF given[i].kind = "Broken" THEN Sign("Error") ELSE given[i]]
    IN  EndsInShortRead /\ ~thrown => IsPrefix(seen, Append(source.tokens, Eof))

\* The characters of the file are taken one by one, none twice and none left
\* out, across the ends of buffers and what is unread (read, unread, doRead).
Served == readBuffer + readBufferStart
ReadsInOrder ==
    [][EndsInShortRead /\ ~thrown => Served' - Served \in {0, 1}]_everything

\* Of a whole document nothing is refused.  What is collected are its texts, and
\* when getValues ends all of them: none is cut, joined or left in a queue.
ValuesCollected ==
    EndsInShortRead /\ source.whole =>
        /\ ~thrown
        /\ collected \subseteq source.texts
        /\ reading = "done" => collected = source.texts

\* getValues comes to the end of a file, unless it has to recover.
GetValuesReturns == <>(reading = "done" \/ thrown)

\* Violated: after "recover..." (PerformanceTestRunner.cpp) reading goes on.
GetValuesEnds == <>(reading = "done")
=============================================================================
