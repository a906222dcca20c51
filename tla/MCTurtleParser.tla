--------------------------- MODULE MCTurtleParser ---------------------------
(***************************************************************************)
(* Small Turtle files for TurtleParser, whole ones and broken ones.      *)
(***************************************************************************)
EXTENDS TurtleDelivery

MCAbsolute == G!Uri(<<"http://", "s">>)
MCRelative == G!Uri(<<"r">>)
InPrefix == G!Qualified(<<"p">>, <<"n">>)
InDefault == G!Qualified(<<>>, <<"n">>)
BarePrefix == G!Qualified(<<"p">>, <<>>)
MCLabel == G!Labelled("x")
String == G!Plain("String", <<"text">>)

One(object) == G!List(<<G!Line(MCAbsolute, <<object>>)>>, FALSE)
NoList == G!List(<<>>, FALSE)
Twice(object) ==
    G!List(<<G!Line(InPrefix, <<object, object>>), G!Line(G!TypeKeyword, <<String>>)>>, TRUE)

Nested == { G!Brackets(NoList), G!Brackets(One(String)), G!Brackets(Twice(G!Brackets(NoList))),
            G!Brackets(One(G!Collection(<<String, MCLabel>>))),
            G!Collection(<<>>), G!Collection(<<BarePrefix>>),
            G!Collection(<<G!Brackets(One(MCRelative)), G!Collection(<<InDefault>>)>>) }
Resources == { MCAbsolute, MCRelative, InPrefix, InDefault, G!TypeKeyword }
Literals == { String, G!Plain("Integer", <<"1">>), G!Plain("Decimal", <<"1.5">>),
              G!Plain("True", <<"true">>), G!Tagged(<<"text">>, <<"en">>),
              G!Datatyped(<<"1">>, G!Uri(Xsd("integer"))), G!Datatyped(<<"1">>, MCRelative),
              G!Datatyped(<<"1">>, InPrefix) }

\* Every term in every place.
Simple(subject, predicate, object) ==
    G!Statement(subject, G!List(<<G!Line(predicate, <<object>>)>>, FALSE))
Subjects == Resources \union Nested \union {MCLabel}
Objects == Subjects \union Literals \union {BarePrefix}
Places == { Simple(s, MCAbsolute, o) : s \in Subjects, o \in Objects \ Nested }
          \union { Simple(s, MCAbsolute, o) : s \in Subjects \ Nested, o \in Nested }
          \union { Simple(MCAbsolute, p, o) : p \in Resources, o \in Objects }

\* Every shape of a list of two lines, at the top and in brackets.
Few == { MCRelative, String, G!Brackets(One(String)), G!Collection(<<MCRelative>>) }
ObjectLists == { <<o>> : o \in Few } \union { <<o, MCLabel, n>> : o, n \in Few }
Lists == { G!List(<<G!Line(MCAbsolute, os)>> \o more, trailing) :
              os \in ObjectLists,
              more \in { <<>> } \union { <<G!Line(InPrefix, os)>> : os \in ObjectLists },
              trailing \in BOOLEAN }
Shapes == { G!Statement(MCAbsolute, list) : list \in Lists }
          \union { Simple(MCLabel, MCAbsolute, G!Brackets(list)) : list \in Lists }

Prefixed == << G!Prefix(<<"p">>, <<"http://", "p#">>), G!Prefix(<<>>, <<"d#">>) >>
Based == Prefixed \o << G!Base(<<"http://", "b/">>) >>

\* Two statements, and between them a directive that changes what names mean.
Bodies == { Simple(MCRelative, InPrefix, MCRelative),
            G!Statement(InPrefix, Twice(G!Brackets(One(InDefault)))),
            Simple(G!Collection(<<InPrefix, MCRelative>>), MCRelative, MCLabel) }
Between == { <<>>, << G!Prefix(<<"p">>, <<"q#">>) >>, << G!Base(<<"c/">>) >>, Prefixed }
Pairs == { Based \o <<s>> \o between \o <<t>> : s, t \in Bodies, between \in Between }

Documents == { Prefixed \o <<s>> : s \in Places } \union { Based \o <<s>> : s \in Places \union Shapes }
             \union Pairs

\* Broken files: a token is lost, or another one stands in its place.
WholeItems(document, tokens) ==
    LET whole == { k \in 0..Len(document) : Len(G!Tokens(SubSeq(document, 1, k))) <= tokens }
    IN  SubSeq(document, 1, CHOOSE k \in whole : \A l \in whole : l <= k)

Damage == { <<>>, <<Sign("Error")>>, <<Token("Broken", <<"b">>)>>, <<Sign("Semicolon")>>, <<Token("Name", <<"_">>)>> }
LiteralBody == G!Statement(MCAbsolute, G!List(<<G!Line(MCAbsolute,
                   <<G!Tagged(<<"text">>, <<"en">>), G!Datatyped(<<"1">>, InPrefix), String>>)>>, FALSE))
Damaged == { Based \o <<s, t>> : s \in Bodies, t \in Bodies \union {LiteralBody} }

MCSources ==
    { [tokens |-> G!Tokens(d), document |-> d] : d \in Documents }
    \union UNION { LET tokens == G!Tokens(d)
                       broken(i, damage) ==
                           SubSeq(tokens, 1, i - 1) \o damage \o SubSeq(tokens, i + 1, Len(tokens))
                   IN  { [tokens |-> broken(i, damage), document |-> WholeItems(d, i - 1)] :
                         i \in 1..Len(tokens), damage \in Damage } : d \in Damaged }

=============================================================================
