--------------------------- MODULE TurtleGrammar ---------------------------
(***************************************************************************)
(* What a Turtle file says: documents as trees, the tokens that write them *)
(* down and the triples that they mean.  This is the reference that        *)
(* TurtleParser is checked against; it knows nothing of put-backs, queues  *)
(* or the order in which triples are found.                                *)
(*                                                                         *)
(* A blank node without a label is named by its path in the document.      *)
(***************************************************************************)
EXTENDS Naturals, Sequences, SequencesExt, TLC

Uri(text) == [is |-> "uri", text |-> text]
Qualified(prefix, local) == [is |-> "qualified", prefix |-> prefix, local |-> local]
Labelled(name) == [is |-> "label", name |-> name]
TypeKeyword == [is |-> "a"]
Plain(kind, text) == [is |-> "plain", kind |-> kind, text |-> text]
Tagged(text, language) == [is |-> "tagged", text |-> text, language |-> language]
Datatyped(text, type) == [is |-> "typed", text |-> text, type |-> type]
Brackets(list) == [is |-> "brackets", list |-> list]
Collection(entries) == [is |-> "collection", entries |-> entries]

\* A list has lines: a predicate and its objects.  An empty one is only found in [].
List(lines, trailing) == [lines |-> lines, trailing |-> trailing]
Line(predicate, objects) == [predicate |-> predicate, objects |-> objects]

Statement(subject, list) == [is |-> "statement", subject |-> subject, list |-> list]
Base(uri) == [is |-> "base", uri |-> uri]
Prefix(name, uri) == [is |-> "prefix", name |-> name, uri |-> uri]

-----------------------------------------------------------------------------
(* The tokens of a document.                                               *)
Tok(kind, text) == <<[kind |-> kind, text |-> text]>>
Mark(kind) == Tok(kind, <<>>)
Named(name) == IF name = <<>> THEN <<>> ELSE Tok("Name", name)

Separated(parts, kind) ==
    FlattenSeq([i \in 1..Len(parts) |-> IF i = 1 THEN parts[i] ELSE Mark(kind) \o parts[i]])

RECURSIVE NodeTokens(_), ListTokens(_)
NodeTokens(node) ==
    CASE node.is = "uri" -> Tok("URI", node.text)
      [] node.is = "qualified" -> Named(node.prefix) \o Mark("Colon") \o Named(node.local)
      [] node.is = "label" -> Tok("Name", <<"_">>) \o Mark("Colon") \o Tok("Name", <<node.name>>)
      [] node.is = "a" -> Tok("A", <<"a">>)
      [] node.is = "plain" -> Tok(node.kind, node.text)
      [] node.is = "tagged" ->
             Tok("String", node.text) \o Mark("At") \o Tok("Name", node.language)
      [] node.is = "typed" ->
             Tok("String", node.text) \o Mark("Type") \o NodeTokens(node.type)
      [] node.is = "brackets" -> Mark("LBracket") \o ListTokens(node.list) \o Mark("RBracket")
      [] node.is = "collection" ->
             Mark("LParen") \o FlattenSeq([i \in 1..Len(node.entries) |-> NodeTokens(node.entries[i])])
                 \o Mark("RParen")

ListTokens(list) ==
    LET lineTokens(line) == NodeTokens(line.predicate)
            \o Separated([j \in 1..Len(line.objects) |-> NodeTokens(line.objects[j])], "Comma")
    IN  Separated([i \in 1..Len(list.lines) |-> lineTokens(list.lines[i])], "Semicolon")
        \o (IF list.trailing THEN Mark("Semicolon") ELSE <<>>)

ItemTokens(item) ==
    (CASE item.is = "statement" -> NodeTokens(item.subject) \o ListTokens(item.list)
       [] item.is = "base" -> Mark("At") \o Tok("Name", <<"base">>) \o Tok("URI", item.uri)
       [] item.is = "prefix" -> Mark("At") \o Tok("Name", <<"prefix">>) \o Named(item.name)
                                \o Mark("Colon") \o Tok("URI", item.uri))
    \o Mark("Dot")

Tokens(document) == FlattenSeq([i \in 1..Len(document) |-> ItemTokens(document[i])])

-----------------------------------------------------------------------------
(* The triples of a document, each as often as it is written.  env gives   *)
(* the base and the prefixes that hold where a node stands.                *)
Ref(text) == [text |-> text, type |-> "URI", sub |-> <<>>]
Fact(subject, predicate, object) ==
    <<[subject |-> subject, predicate |-> predicate, object |-> object]>>

RdfName(name) == <<"http://", "rdf#", name>>
Unlabelled(path) == <<"_:", ToString(path)>>
Standard == [type \in {"string", "integer", "decimal", "double", "boolean"} |->
                CASE type = "string" -> "String"   [] type = "integer" -> "Integer"
                  [] type = "decimal" -> "Decimal" [] type = "double" -> "Double"
                  [] type = "boolean" -> "Boolean"]

\* The URI of a node.  The types of literals are not relative to the base.
Resolved(node, path, env) ==
    CASE node.is = "uri" -> IF Head(node.text) = "http://" THEN node.text ELSE env.base \o node.text
      [] node.is = "qualified" -> env.prefixes[node.prefix] \o node.local
      [] node.is = "label" -> <<"_:", node.name>>
      [] node.is = "a" -> RdfName("type")
      [] node.is = "brackets" -> Unlabelled(path)
      [] node.is = "collection" ->
             IF node.entries = <<>> THEN RdfName("nil") ELSE Unlabelled(Append(path, 1))

TypedLiteral(text, type) ==
    IF \E t \in DOMAIN Standard : type = <<"http://", "xsd#", t>>
    THEN [text |-> text, type |-> Standard[type[3]], sub |-> <<>>]
    ELSE [text |-> text, type |-> "CustomType", sub |-> type]

Meaning(node, path, env) ==
    CASE node.is = "plain" ->
             [text |-> node.text, sub |-> <<>>,
              type |-> IF node.kind = "String" THEN "Literal"
                       ELSE IF node.kind \in {"True", "False"} THEN "Boolean" ELSE node.kind]
      [] node.is = "tagged" ->
             [text |-> node.text, type |-> "CustomLanguage", sub |-> node.language]
      [] node.is = "typed" ->
             TypedLiteral(node.text, Resolved(node.type, path, [env EXCEPT !.base = <<>>]))
      [] OTHER -> Ref(Resolved(node, path, env))

RECURSIVE NodeFacts(_, _, _), ListFacts(_, _, _, _)
NodeFacts(node, path, env) ==
    LET size == Len(node.entries)
        cell(i) == IF i > size THEN RdfName("nil") ELSE Unlabelled(Append(path, i))
        entryPath(i) == path \o <<i, 0>>
        cellFacts(i) ==
            Fact(cell(i), RdfName("first"), Meaning(node.entries[i], entryPath(i), env))
            \o Fact(cell(i), RdfName("rest"), Ref(cell(i + 1)))
            \o NodeFacts(node.entries[i], entryPath(i), env)
    IN  CASE node.is = "brackets" -> ListFacts(Unlabelled(path), node.list, path, env)
          [] node.is = "collection" -> FlattenSeq([i \in 1..size |-> cellFacts(i)])
          [] OTHER -> <<>>

ListFacts(subject, list, path, env) ==
    LET objectFacts(i, j) ==
            LET line == list.lines[i]
                objectPath == path \o <<i, j>>
            IN  Fact(subject, Resolved(line.predicate, path, env),
                     Meaning(line.objects[j], objectPath, env))
                \o NodeFacts(line.objects[j], objectPath, env)
        lineFacts(i) == FlattenSeq([j \in 1..Len(list.lines[i].objects) |-> objectFacts(i, j)])
    IN  FlattenSeq([i \in 1..Len(list.lines) |-> lineFacts(i)])

\* Item i stands at path <<i>>.
EnvironmentAfter(item, env) ==
    CASE item.is = "base" -> [env EXCEPT !.base = item.uri]
      [] item.is = "prefix" -> [env EXCEPT !.prefixes = (item.name :> item.uri) @@ @]
      [] OTHER -> env

RECURSIVE FactsFrom(_, _, _)
FactsFrom(document, i, env) ==
    IF i > Len(document) THEN <<>>
    ELSE LET item == document[i]
             subjectPath == <<i, 0>>
             own == NodeFacts(item.subject, subjectPath, env)
                    \o ListFacts(Resolved(item.subject, subjectPath, env), item.list, <<i>>, env)
         IN  (IF item.is = "statement" THEN own ELSE <<>>)
             \o FactsFrom(document, i + 1, EnvironmentAfter(item, env))

Facts(document) == FactsFrom(document, 1, [base |-> <<>>, prefixes |-> <<>>])
=============================================================================
