----------------------------- MODULE MCGetValues -----------------------------
(***************************************************************************)
(* Small Turtle files for GetValues, character by character: documents in  *)
(* several layouts, moved against the ends of the buffer, and broken ones. *)
(***************************************************************************)
EXTENDS GetValues

G == INSTANCE TurtleGrammar

MCBufferSize == 5
MCLetters == {"a", "true", "false", "base", "prefix", "p", "n", "en", "x"}
MCChar(byte) == IF byte = 65 THEN "A" ELSE "byte " \o ToString(byte)

Absolute == G!Uri(<<"http://", "s">>)
Relative == G!Uri(<<"r">>)
Name == G!Qualified(<<"p">>, <<"n", "1">>)
String(text) == G!Plain("String", text)

\* Texts that can not be written as they are.
Accented == <<MCChar(195), MCChar(169)>>
Euro == <<"x", MCChar(226), MCChar(130), MCChar(172)>>
Quoted == <<Quote, "\n", "\t", "x", Backslash>>
Long == <<"x", Quote, "\n", "x">>
Capital == <<"A", ">">>
Hex(digits) == <<Backslash>> \o digits
Spellings ==
    Accented :> Hex(<<"u", "0", "0", "E", "9">>)
    @@ Euro :> <<"x">> \o Hex(<<"U", "0", "0", "0", "0", "2", "0", "a", "c">>)
    @@ Quoted :> <<Backslash, Quote, Backslash, "n", Backslash, "t", "x", Backslash, Backslash>>
    @@ Long :> <<Quote, Quote, "x", Backslash, Quote, "\n", "x", Quote, Quote>>
    @@ Capital :> Hex(<<"u", "0", "0", "4", "1">>) \o <<Backslash, ">">>
Spelled(text) == IF text \in DOMAIN Spellings THEN Spellings[text] ELSE text

MarkOf(kind) ==
    CASE kind = "Dot" -> <<".">> [] kind = "Type" -> <<"^", "^">> [] kind = "Error" -> <<"%">>
      [] OTHER -> << CHOOSE c \in DOMAIN Marks : Marks[c] = kind >>
SpelledToken(t) ==
    CASE t.kind = "URI" -> <<"<">> \o Spelled(t.text) \o <<">">>
      [] t.kind = "String" -> <<Quote>> \o Spelled(t.text) \o <<Quote>>
      [] t.kind \in Names \union Numbers \union {"Broken"} -> t.text
      [] OTHER -> MarkOf(t.kind)

\* What stands between two tokens; a name or a number may need something.
Layouts == { <<" ">>, <<"\n", "\t">>, <<" ", "#", "x", "\r", "#", "\n">>, <<>> }
Gap(left, right, layout) ==
    IF layout = <<>> /\ left.kind \in Names \union Numbers /\ ~issep(Head(SpelledToken(right)))
    THEN <<" ">> ELSE layout
SpelledTokens(tokens, layout) ==
    FlattenSeq([i \in 1..Len(tokens) |->
        SpelledToken(tokens[i])
        \o (IF i < Len(tokens) THEN Gap(tokens[i], tokens[i + 1], layout) ELSE layout)])

Blank(n) == [i \in 1..n |-> " "]
Endings == { <<>>, <<"\n">>, <<"#", "x">> }
Files(tokens, ends) ==
    { Blank(n) \o SpelledTokens(tokens, layout) \o ending :
        n \in 0..MCBufferSize - 1, layout \in Layouts, ending \in ends }

-----------------------------------------------------------------------------
Simple(subject, predicate, objects) ==
    G!Statement(subject, G!List(<<G!Line(predicate, objects)>>, FALSE))
Prefixed == << G!Prefix(<<"p">>, <<"http://", "p#">>) >>
Documents ==
    { << Simple(Absolute, G!TypeKeyword, <<String(<<>>), String(Accented)>>) >>,
      << G!Base(<<"http://", "b">>), Simple(Relative, G!Uri(Capital), <<String(Quoted), String(Long)>>) >>,
      Prefixed \o << Simple(Name, Name, <<String(Euro), G!Plain("Integer", <<"1", "0">>)>>) >>,
      << Simple(G!Labelled("x"), Absolute,
                << G!Plain("Decimal", <<".", "5">>), G!Plain("Decimal", <<"-", ".", "5">>),
                   G!Plain("Double", <<"+", "1", "e", "-", "2">>), G!Plain("Double", <<".", "1", "E", "2">>),
                   G!Plain("True", <<"true">>), G!Plain("False", <<"false">>) >>) >>,
      << Simple(Relative, Relative, << G!Tagged(<<"x">>, <<"en">>), G!Datatyped(<<>>, Absolute),
                                       G!Brackets(G!List(<<>>, FALSE)) >>),
         Simple(Relative, Relative, << G!Brackets(G!List(<<G!Line(Absolute, <<Relative>>)>>, TRUE)) >>) >>,
      << Simple(G!Collection(<<>>), Relative, << G!Collection(<<Relative>>) >>) >> }

\* The blank nodes without a label, in the order of the text.
Texts(document) ==
    LET facts == ToSet(G!Facts(document))
        texts == { f.subject : f \in facts } \union { f.predicate : f \in facts }
                 \union { f.object.text : f \in facts }
        unlabelled == { t \in texts : t # <<>> /\ Head(t) = "_:" /\ t # <<"_:", "x">> }
        kept == texts \ unlabelled
    IN  kept \union { NewBlankNode(n) : n \in 0..Cardinality(unlabelled) - 1 }

\* What no token begins with, a token that is cut by a character, and by the end.
Cut == { <<"%">>, <<"^", "x">>, <<"+", "x">>, <<"1", "e", "x">>, <<"1", "x">>, <<"1", "e", "+", ".">>,
         <<Quote, Backslash, "x">>, <<Quote, Backslash, "u", "x">>, <<"<", Backslash, "p">> }
Open == { <<Quote, "x">>, <<Quote, Backslash>>, <<Quote, Quote, Quote, "x", Quote, Quote>>, <<Quote, Quote, Quote>>,
          <<"<", "x">>, <<"+">>, <<".", "5", "e">>, <<Quote, Backslash, "U", "0">> }
Recoveries == { <<>>, <<"\n">>, Blank(6) \o <<"\n">> \o Blank(2) }
\* Tokens that end with the file.
Final == { String(<<>>), G!Plain("Integer", <<"1">>), G!Plain("Decimal", <<".", "5">>), G!Plain("Double", <<"1", "e", "1">>) }
Failing == { cut \o ending : cut \in Cut, ending \in Recoveries } \union Open

MCSources ==
    UNION { { [file |-> f, tokens |-> G!Tokens(d), texts |-> Texts(d), whole |-> TRUE] :
                f \in Files(G!Tokens(d), Endings) } : d \in Documents }
    \union { [file |-> Blank(n) \o f, tokens |-> <<Sign("Error")>>, texts |-> {}, whole |-> FALSE] :
               f \in Failing, n \in 0..MCBufferSize - 1 }
    \union { [file |-> SpelledToken(t), tokens |-> <<t>>, texts |-> {}, whole |-> FALSE] :
               t \in { Head(G!NodeTokens(last)) : last \in Final } }
=============================================================================
