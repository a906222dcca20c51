---------------------------- MODULE TurtleTokens ----------------------------
(***************************************************************************)
(* What the lexer of TurtleParser.cpp gives and the parser takes.          *)
(*                                                                         *)
(* A token is its kind and its text, a sequence of characters.  Two kinds  *)
(* stand for an exception of the lexer: "Error", which leaves the string   *)
(* for the text alone, and "Broken", which has overwritten it.             *)
(***************************************************************************)
EXTENDS Naturals, Sequences

VARIABLE input  \* the tokens that were lexed and not yet read by the parser

Token(kind, text) == [kind |-> kind, text |-> text]
Sign(kind) == Token(kind, <<>>)
Eof == Sign("Eof")

Names == {"Name", "A", "True", "False"}
Numbers == {"Integer", "Decimal", "Double"}
Exceptions == {"Error", "Broken"}
HasText(token) == token.kind \in Names \union Numbers \union {"String", "URI"}
=============================================================================
