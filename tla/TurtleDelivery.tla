--------------------------- MODULE TurtleDelivery ---------------------------
(***************************************************************************)
(* TurtleParser gives the triples that TurtleGrammar says a document means. *)
(***************************************************************************)
EXTENDS TurtleParser

G == INSTANCE TurtleGrammar

Times(sequence) ==
    [x \in ToSet(sequence) |-> Cardinality({ i \in 1..Len(sequence) : sequence[i] = x })]

WrittenLabels == { Label(token.text) : token \in ToSet(source.tokens) }
UnlabelledIn(facts) ==
    { text \in { f.subject : f \in ToSet(facts) } \union { f.object.text : f \in ToSet(facts) } :
        text # <<>> /\ Head(text) = "_:" } \ WrittenLabels

Renamed(facts, names) ==
    LET name(text) == IF text \in DOMAIN names THEN names[text] ELSE text
    IN  [i \in 1..Len(facts) |-> [facts[i] EXCEPT !.subject = name(@), !.object.text = name(@)]]

SameUpToBlankNodes(facts) ==
    \E unlabelled \in {UnlabelledIn(facts)} :
        /\ Cardinality(unlabelled) = nextBlank
        /\ \E names \in Injection(unlabelled, { NewBlankNode(n) : n \in 0..nextBlank - 1 }) :
               Times(Renamed(facts, names)) = Times(delivered)

\* When a statement has been read and the queue is empty, the calls of parse
\* have given its triples and those of the statements before it, each as often
\* as it is written, with blank nodes that are told apart.
StatementsDelivered ==
    stack = <<>> /\ triples = <<>> /\ ~thrown =>
        \A k \in 0..Len(source.document) :
            Len(input) = Len(source.tokens) - Len(G!Tokens(SubSeq(source.document, 1, k)))
                => \E facts \in {G!Facts(SubSeq(source.document, 1, k))} : SameUpToBlankNodes(facts)
=============================================================================
