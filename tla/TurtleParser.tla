---------------------------- MODULE TurtleParser ----------------------------
(***************************************************************************)
(* The parser of Turtle files (TurtleParser.cpp), from tokens to triples.  *)
(*                                                                         *)
(* The functions of the parser call each other; stack holds a frame for    *)
(* each that runs, which says where it goes on (at) and keeps its locals.  *)
(* A step goes from one call, return or token to the next; node is what    *)
(* the function that returned last gave: a node or, for a list, its first  *)
(* triple.                                                                 *)
(***************************************************************************)
EXTENDS TurtleTokens, SequencesExt, TLC

CONSTANT Sources  \* the files that are parsed: tokens, and the document they start with

VARIABLES
    source,         \* the file
    putBack,        \* the token that was put back, or Eof
    base, prefixes, \* what the directives have set
    triples, triplesReader,  \* the triples behind the one that was returned
    nextBlank,      \* the number of the next blank node
    stack, node,    \* the running functions, and what the last one returned
    answer,         \* what the last call of parse gave
    delivered,      \* the triples that parse has returned
    thrown          \* whether a call has thrown

scope == <<base, prefixes>>
queue == <<triples, triplesReader>>
outcome == <<answer, delivered, thrown>>
vars == <<source, input, putBack, scope, queue, nextBlank, stack, node, outcome>>

Rdf(name) == <<"http://", "rdf#", name>>
Xsd(name) == <<"http://", "xsd#", name>>
XsdTypes == Xsd("string") :> "String" @@ Xsd("integer") :> "Integer"
            @@ Xsd("decimal") :> "Decimal" @@ Xsd("double") :> "Double"
            @@ Xsd("boolean") :> "Boolean"

Node(text, type, sub) == [text |-> text, type |-> type, sub |-> sub]
Resource(text) == Node(text, "URI", <<>>)
NoNode == Resource(<<>>)
Triple(subject, predicate, object) ==
    [subject |-> subject, predicate |-> predicate, object |-> object]

Label(name) == <<"_:">> \o name
NewBlankNode(n) == Label(<<"_" \o ToString(n)>>)

ParserInit ==
    /\ source \in Sources
    /\ putBack = Eof
    /\ base = <<>> /\ prefixes = <<>>
    /\ triples = <<>> /\ triplesReader = 0
    /\ nextBlank = 0
    /\ stack = <<>> /\ node = NoNode
    /\ answer = "none" /\ delivered = <<>> /\ thrown = FALSE

Init == ParserInit /\ input = source.tokens

-----------------------------------------------------------------------------
(* The frames.                                                             *)
Frame(at) == [at |-> at]
Waiting(at, text) == [at |-> at, text |-> text]
Expecting(kind, value) == [at |-> "expect", kind |-> kind, value |-> value]
Entries(opened, entries) == [at |-> "collection", opened |-> opened, entries |-> entries]
Lines(at, subject, predicate, first) ==
    [at |-> at, subject |-> subject, predicate |-> predicate, first |-> first]

Top == Head(stack)
At(place) == stack # <<>> /\ Top.at = place

(* The lexer: the next token, and how a step leaves it.                    *)
Next1 ==
    IF putBack # Eof THEN putBack ELSE IF input = <<>> THEN Eof ELSE Head(input)
Kind == Next1.kind
Text == Next1.text
Advance == input' = IF putBack # Eof \/ input = <<>> THEN input ELSE Tail(input)

\* Mutant: the token that was not expected is left for the next call.
Throw_PutsBack ==
    /\ Advance /\ putBack' = Next1
    /\ stack' = <<>> /\ node' = NoNode
    /\ answer' = "exception" /\ thrown' = TRUE
    /\ UNCHANGED delivered

Throw ==
    /\ Advance /\ putBack' = Eof
    /\ stack' = <<>> /\ node' = NoNode
    /\ answer' = "exception" /\ thrown' = TRUE
    /\ UNCHANGED delivered

\* The token leaves the slot as given, and frames replace the frame on top.
Reads(slot, frames, value) ==
    /\ Advance /\ putBack' = slot
    /\ stack' = frames \o Tail(stack) /\ node' = value
    /\ UNCHANGED outcome

Accept(frames, value) == Reads(Eof, frames, value)

\* unget and ungetIgnored; to put Eof back leaves the slot empty.
Unget(frames, value) == Reads(Next1, frames, value)

\* The same, when the token can be any.
Decline(frames, value) == IF Kind \in Exceptions THEN Throw ELSE Unget(frames, value)

\* No token is read.
Continue(frames, value) ==
    /\ stack' = frames \o Tail(stack) /\ node' = value
    /\ UNCHANGED <<input, putBack, outcome>>

Expect ==
    /\ At("expect")
    /\ IF Kind = Top.kind THEN Accept(<<>>, Top.value) ELSE Throw

-----------------------------------------------------------------------------
(* Names.                                                                  *)

\* "://" among the first ten characters makes a URI absolute.
IsAbsolute(uri) == uri # <<>> /\ Head(uri) = "http://"
ConstructAbsoluteURI(uri) == IF IsAbsolute(uri) THEN uri ELSE base \o uri

StartsLabel == Kind = "Name" /\ Text = <<"_">>
StartsBlank == Kind \in {"LBracket", "LParen"} \/ StartsLabel
StartsTerm == Kind \in {"URI", "A", "Colon", "Name"} /\ ~StartsLabel

\* What subjects, predicates and objects have in common.
Term(frames) ==
    CASE Kind = "URI" -> Accept(frames, Resource(ConstructAbsoluteURI(Text)))
      [] Kind = "A" -> Accept(frames, Resource(Rdf("type")))
      [] Kind = "Colon" -> Unget(<<Waiting("qualified", <<>>)>> \o frames, node)
      [] Kind = "Name" -> Accept(<<Waiting("qualified", Text)>> \o frames, node)

ParseQualifiedName ==
    /\ At("qualified")
    /\ IF Kind = "Colon" /\ Top.text \in DOMAIN prefixes
       THEN Accept(<<Waiting("local", prefixes[Top.text])>>, node) ELSE Throw

ParseLocalName ==
    /\ At("local")
    /\ IF Kind \in Names THEN Accept(<<>>, Resource(Top.text \o Text))
       ELSE Decline(<<>>, Resource(Top.text))

-----------------------------------------------------------------------------
(* Blank nodes and collections.                                            *)
ParseBlank ==
    /\ At("blank")
    /\ CASE Kind = "LBracket" -> Accept(<<Waiting("inside", NewBlankNode(nextBlank))>>, node)
         [] Kind = "LParen" -> Accept(<<Entries(TRUE, <<>>)>>, node)
         [] OTHER -> Accept(<<Expecting("Colon", node), Frame("label")>>, node)
    /\ nextBlank' = IF Kind = "LBracket" THEN nextBlank + 1 ELSE nextBlank
    /\ UNCHANGED <<scope, queue>>

ParseLabel ==
    /\ At("label")
    /\ IF Kind \in Names THEN Accept(<<>>, Resource(Label(Text))) ELSE Throw

ParseInside ==
    /\ At("inside")
    /\ IF Kind = "RBracket" THEN Accept(<<>>, Resource(Top.text))
       ELSE Decline(<<Lines("predicate", Top.text, <<>>, <<>>), Waiting("close", Top.text)>>, node)

\* Mutant: the first triple of the list in brackets is lost.
CloseBrackets_Lost ==
    /\ At("close")
    /\ Continue(<<Expecting("RBracket", Resource(Top.text))>>, node)
    /\ UNCHANGED <<scope, queue, nextBlank>>

\* The first triple of the list in brackets goes to the queue, ']' or not.
CloseBrackets ==
    /\ At("close")
    /\ triples' = Append(triples, node)
    /\ Continue(<<Expecting("RBracket", Resource(Top.text))>>, node)
    /\ UNCHANGED <<scope, triplesReader, nextBlank>>

\* The cells of a collection are made when its last entry has been read.
Cell(entries, i) ==
    IF i > Len(entries) THEN Rdf("nil") ELSE NewBlankNode(nextBlank + i - 1)

CellTriples(entries) ==
    [i \in 1..2 * Len(entries) |->
        LET n == (i + 1) \div 2
        IN  IF i % 2 = 1 THEN Triple(Cell(entries, n), Rdf("first"), entries[n])
            ELSE Triple(Cell(entries, n), Rdf("rest"), Resource(Cell(entries, n + 1)))]

ParseCollection ==
    /\ At("collection")
    /\ \E entries \in {IF Top.opened THEN <<>> ELSE Append(Top.entries, node)} :
           IF Kind = "RParen"
           THEN /\ Accept(<<>>, Resource(Cell(entries, 1)))
                /\ triples' = triples \o CellTriples(entries)
                /\ nextBlank' = nextBlank + Len(entries)
           ELSE /\ Decline(<<Frame("object"), Entries(FALSE, entries)>>, node)
                /\ UNCHANGED <<triples, nextBlank>>
    /\ UNCHANGED <<scope, triplesReader>>

-----------------------------------------------------------------------------
(* Objects.                                                                *)
ParseObject ==
    /\ At("object")
    /\ CASE StartsBlank -> Unget(<<Frame("blank")>>, node)
         [] StartsTerm -> Term(<<>>)
         [] Kind \in Numbers -> Accept(<<>>, Node(Text, Kind, <<>>))
         [] Kind \in {"True", "False"} -> Accept(<<>>, Node(Text, "Boolean", <<>>))
         [] Kind = "String" -> Accept(<<Waiting("string", Text)>>, node)
         [] OTHER -> Throw

ParseAfterString ==
    /\ At("string")
    /\ CASE Kind = "At" -> Accept(<<Waiting("language", Top.text)>>, node)
         [] Kind = "Type" -> Accept(<<Waiting("datatype", Top.text)>>, node)
         [] OTHER -> Decline(<<>>, Node(Top.text, "Literal", <<>>))

ParseLanguage ==
    /\ At("language")
    /\ IF Kind = "Name" THEN Accept(<<>>, Node(Top.text, "CustomLanguage", Text)) ELSE Throw

\* Every token that is not a name is taken as the type.
ParseDatatype ==
    /\ At("datatype")
    /\ CASE Kind = "Colon" ->
                Accept(<<Waiting("qualified", <<>>), Waiting("typed", Top.text)>>, node)
         [] Kind = "Name" ->
                Accept(<<Waiting("qualified", Text), Waiting("typed", Top.text)>>, node)
         [] Kind \in Exceptions -> Throw
         [] OTHER -> Accept(<<Waiting("typed", Top.text)>>, Resource(Text))

ParseTyped ==
    /\ At("typed")
    /\ Continue(<<>>, IF node.text \in DOMAIN XsdTypes
                      THEN Node(Top.text, XsdTypes[node.text], <<>>)
                      ELSE Node(Top.text, "CustomType", node.text))

-----------------------------------------------------------------------------
(* Lists of predicates and objects.  A semicolon may be their last token.  *)
ParsePredicate ==
    /\ At("predicate")
    /\ IF StartsTerm THEN Term(<<Lines("verb", Top.subject, Top.predicate, Top.first)>>)
       ELSE IF Top.first = <<>> \/ Kind = "Name" THEN Throw
       ELSE Decline(<<>>, Head(Top.first))

ParseVerb ==
    /\ At("verb")
    /\ Continue(<<Frame("object"), Lines("after", Top.subject, node.text, Top.first)>>, node)

\* The first triple is returned, the others go to the queue.
ParseAfterObject ==
    /\ At("after")
    /\ \E triple \in {Triple(Top.subject, Top.predicate, node)} :
           /\ triples' = IF Top.first = <<>> THEN triples ELSE Append(triples, triple)
           /\ \E first \in {IF Top.first = <<>> THEN <<triple>> ELSE Top.first} :
                  CASE Kind = "Comma" ->
                           Accept(<<Frame("object"),
                                    Lines("after", Top.subject, Top.predicate, first)>>, node)
                    [] Kind = "Semicolon" ->
                           Accept(<<Lines("predicate", Top.subject, Top.predicate, first)>>, node)
                    [] OTHER -> Decline(<<>>, Head(first))
    /\ UNCHANGED <<scope, triplesReader, nextBlank>>

-----------------------------------------------------------------------------
(* Directives.  The text is assigned to base before its kind is looked at, *)
(* and also when the lexer throws on the way.                              *)
ParseDirective ==
    /\ At("directive")
    /\ IF Kind = "Name" /\ Text = <<"base">> THEN Accept(<<Frame("base")>>, node)
       ELSE IF Kind = "Name" /\ Text = <<"prefix">> THEN Accept(<<Frame("prefix")>>, node)
       ELSE Throw

ParseBase ==
    /\ At("base")
    /\ base' = IF HasText(Next1) \/ Kind = "Broken" THEN Text ELSE base
    /\ IF Kind = "URI" THEN Accept(<<Expecting("Dot", node)>>, node) ELSE Throw
    /\ UNCHANGED <<prefixes, queue, nextBlank>>

ParsePrefix ==
    /\ At("prefix")
    /\ CASE Kind = "Name" -> Accept(<<Expecting("Colon", node), Waiting("prefixURI", Text)>>, node)
         [] Kind = "Colon" -> Accept(<<Waiting("prefixURI", <<>>)>>, node)
         [] OTHER -> Throw

ParsePrefixURI ==
    /\ At("prefixURI")
    /\ IF Kind = "URI"
       THEN /\ Accept(<<Expecting("Dot", node)>>, node)
            /\ prefixes' = (Top.text :> Text) @@ prefixes
       ELSE Throw /\ UNCHANGED prefixes
    /\ UNCHANGED <<base, queue, nextBlank>>

-----------------------------------------------------------------------------
(* parse.  The queue is served first.                                      *)
\* Mutant: the queue is emptied, but the reader stays where it was.
ServeQueue_Stays ==
    /\ stack = <<>> /\ triplesReader < Len(triples)
    /\ delivered' = Append(delivered, triples[triplesReader + 1])
    /\ answer' = "triple"
    /\ triplesReader' = triplesReader + 1
    /\ triples' = IF triplesReader + 1 < Len(triples) THEN triples ELSE <<>>
    /\ UNCHANGED <<input, putBack, scope, nextBlank, stack, node, thrown>>

ServeQueue ==
    /\ stack = <<>> /\ triplesReader < Len(triples)
    /\ delivered' = Append(delivered, triples[triplesReader + 1])
    /\ answer' = "triple"
    /\ IF triplesReader + 1 < Len(triples)
       THEN triplesReader' = triplesReader + 1 /\ UNCHANGED triples
       ELSE triplesReader' = 0 /\ triples' = <<>>
    /\ UNCHANGED <<input, putBack, scope, nextBlank, stack, node, thrown>>

CallParse ==
    /\ stack = <<>> /\ triplesReader >= Len(triples)
    /\ stack' = <<Frame("start")>>
    /\ UNCHANGED <<input, putBack, node, outcome>>

\* Mutant: the end of the input is a token like others.
Start_NoEnd ==
    /\ At("start")
    /\ CASE Kind = "At" -> Accept(<<Frame("directive"), Frame("start")>>, node)
         [] StartsBlank -> Unget(<<Frame("blank"), Frame("subject"), Frame("statement")>>, node)
         [] StartsTerm -> Term(<<Frame("subject"), Frame("statement")>>)
         [] OTHER -> Throw

\* The loop past the directives, and the first token of a triple.
Start ==
    /\ At("start")
    /\ IF Next1 = Eof
       THEN /\ stack' = <<>> /\ answer' = "end"
            /\ UNCHANGED <<input, putBack, node, delivered, thrown>>
       ELSE CASE Kind = "At" -> Accept(<<Frame("directive"), Frame("start")>>, node)
              [] StartsBlank -> Unget(<<Frame("blank"), Frame("subject"), Frame("statement")>>, node)
              [] StartsTerm -> Term(<<Frame("subject"), Frame("statement")>>)
              [] OTHER -> Throw

ParseSubject ==
    /\ At("subject")
    /\ Continue(<<Lines("predicate", node.text, <<>>, <<>>)>>, node)

ParseTriple ==
    /\ At("statement")
    /\ IF Kind = "Dot"
       THEN /\ Advance /\ putBack' = Eof
            /\ stack' = <<>> /\ node' = NoNode
            /\ answer' = "triple" /\ delivered' = Append(delivered, node)
            /\ UNCHANGED thrown
       ELSE Throw

\* The steps that leave directives, queue and numbers alone, and the others.
Step ==
    \/ Expect \/ ParseQualifiedName \/ ParseLocalName \/ ParseLabel \/ ParseInside
    \/ ParseObject \/ ParseAfterString \/ ParseLanguage \/ ParseDatatype \/ ParseTyped
    \/ ParsePredicate \/ ParseVerb \/ ParseDirective \/ ParsePrefix
    \/ CallParse \/ Start \/ ParseSubject \/ ParseTriple

Call ==
    \/ Step /\ UNCHANGED <<scope, queue, nextBlank>>
    \/ ParseBlank \/ CloseBrackets \/ ParseCollection \/ ParseAfterObject
    \/ ParseBase \/ ParsePrefixURI \/ ServeQueue

\* The caller goes on after an exception.
Next == Call /\ UNCHANGED source
Spec == Init /\ [][Next]_vars
FairSpec == Spec /\ WF_vars(Next)

-----------------------------------------------------------------------------
\* Between two calls the queue is empty or is being read; in every call it can be.
TypeOK ==
    /\ answer \in {"none", "triple", "end", "exception"}
    /\ thrown \in BOOLEAN
    /\ nextBlank \in Nat
    /\ triplesReader \in 0..Len(triples)
    /\ stack = <<>> /\ triples # <<>> => triplesReader < Len(triples)
    /\ HasText(putBack) \/ putBack.text = <<>>

\* One slot for a token put back is enough, and what is put back is read again
\* by the call that did so, whether it returns or throws (unget, next).
NothingPutBack == stack = <<>> => putBack = Eof

\* A caller that goes on after exceptions comes to the end of the file.
ParseEnds == <>(answer = "end")
=============================================================================
