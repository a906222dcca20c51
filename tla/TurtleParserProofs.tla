------------------------ MODULE TurtleParserProofs ------------------------
(***************************************************************************)
(* The one slot of the lexer is empty whenever parse returns or throws,    *)
(* and the queue of triples and its reader stay in step.                   *)
(*                                                                         *)
(* The invariant behind it: a frame of parse itself lies at the bottom of  *)
(* the stack and nowhere else, and such a frame takes the token it reads,  *)
(* so that a token put back by a function that returns finds a reader.     *)
(* For the queue of triples: it is read only when no function runs.        *)
(*                                                                         *)
(* The read buffer of the lexer, for every buffer size and every file,     *)
(* holds what the stream gave last, and serves each character once.        *)
(*                                                                         *)
(* The invariant behind it: until something is thrown nobody but the lexer *)
(* reads the stream, and the stream is good only as long as every read of  *)
(* it was full.                                                            *)
(***************************************************************************)
EXTENDS GetValues, SequenceTheorems, TLAPS

Bottom == {"start", "statement"}

IsSeq(s) == s \in Seq(ToSet(s))
Gathers(frame) == frame.at = "collection" => IsSeq(frame.entries)

Founded(frames) ==
    /\ frames \in Seq(ToSet(frames))
    /\ \A i \in 1..Len(frames) : Gathers(frames[i])
    /\ frames # <<>> => frames[Len(frames)].at \in Bottom
    /\ \A i \in 1..Len(frames) : i < Len(frames) => frames[i].at \notin Bottom

SlotInv ==
    /\ Founded(stack)
    /\ stack = <<>> => putBack = Eof

\* Frames of functions that parse calls.
Inner(frames) ==
    /\ frames \in Seq(ToSet(frames))
    /\ \A i \in 1..Len(frames) : Gathers(frames[i])
    /\ \A i \in 1..Len(frames) : frames[i].at \notin Bottom

-----------------------------------------------------------------------------
(* Stacks.                                                                 *)
LEMMA SeqToSet ==
    ASSUME NEW S, NEW s \in Seq(S)
    PROVE  s \in Seq(ToSet(s))
<1>1. \A i \in 1..Len(s) : s[i] \in ToSet(s)
  BY DEF ToSet
<1>2. s \in [1..Len(s) -> ToSet(s)] /\ Len(s) \in Nat
  BY <1>1
<1>. QED
  BY <1>2

LEMMA AppendSeq ==
    /\ IsSeq(<<>>)
    /\ \A s, e : IsSeq(s) => IsSeq(Append(s, e)) /\ Len(Append(s, e)) = Len(s) + 1
<1>1. IsSeq(<<>>)
  BY EmptySeq DEF IsSeq
<1>2. ASSUME NEW s, NEW e, IsSeq(s)
      PROVE  IsSeq(Append(s, e)) /\ Len(Append(s, e)) = Len(s) + 1
  <2>. DEFINE S == ToSet(s) \union {e}
  <2>1. s \in Seq(S) /\ e \in S
    BY <1>2 DEF IsSeq
  <2>2. Append(s, e) \in Seq(S) /\ Len(Append(s, e)) = Len(s) + 1
    BY <2>1
  <2>. QED
    BY <2>2, SeqToSet DEF IsSeq
<1>. QED
  BY <1>1, <1>2

LEMMA FewFrames ==
    /\ Inner(<<>>)
    /\ \A a : a.at \notin Bottom /\ Gathers(a) => Inner(<<a>>)
    /\ \A a, b : (a.at \notin Bottom /\ b.at \notin Bottom /\ Gathers(a) /\ Gathers(b))
                    => Inner(<<a, b>>)
<1>1. Inner(<<>>)
  BY DEF Inner
<1>2. ASSUME NEW a, a.at \notin Bottom, Gathers(a) PROVE Inner(<<a>>)
  <2>1. <<a>> \in Seq({a}) /\ Len(<<a>>) = 1 /\ <<a>>[1] = a
    OBVIOUS
  <2>2. <<a>> \in Seq(ToSet(<<a>>))
    BY <2>1, SeqToSet
  <2>3. \A i \in 1..Len(<<a>>) : <<a>>[i].at \notin Bottom /\ Gathers(<<a>>[i])
    <3>1. \A i \in 1..Len(<<a>>) : i = 1
      BY <2>1
    <3>. QED
      BY <1>2, <2>1, <3>1
  <2>. QED
    BY <2>2, <2>3 DEF Inner
<1>3. ASSUME NEW a, NEW b, a.at \notin Bottom, b.at \notin Bottom, Gathers(a), Gathers(b)
      PROVE  Inner(<<a, b>>)
  <2>1. <<a, b>> \in Seq({a, b}) /\ Len(<<a, b>>) = 2 /\ <<a, b>>[1] = a /\ <<a, b>>[2] = b
    OBVIOUS
  <2>2. <<a, b>> \in Seq(ToSet(<<a, b>>))
    BY <2>1, SeqToSet
  <2>3. \A i \in 1..Len(<<a, b>>) : <<a, b>>[i].at \notin Bottom /\ Gathers(<<a, b>>[i])
    <3>1. \A i \in 1..Len(<<a, b>>) : i = 1 \/ i = 2
      BY <2>1
    <3>. QED
      BY <1>3, <2>1, <3>1
  <2>. QED
    BY <2>2, <2>3 DEF Inner
<1>4. \A a : a.at \notin Bottom /\ Gathers(a) => Inner(<<a>>)
  BY <1>2
<1>5. \A a, b : (a.at \notin Bottom /\ b.at \notin Bottom /\ Gathers(a) /\ Gathers(b))
                  => Inner(<<a, b>>)
  BY <1>3
<1>. QED
  BY <1>1, <1>4, <1>5

\* A function that parse has called gives way to what it calls and returns to.
LEMMA ReplaceInner ==
    ASSUME NEW s, Founded(s), s # <<>>, Head(s).at \notin Bottom,
           NEW f, Inner(f)
    PROVE  Founded(f \o Tail(s)) /\ f \o Tail(s) # <<>>
<1>. DEFINE S == ToSet(s) \union ToSet(f)  t == f \o Tail(s)
<1>1. s \in Seq(S) /\ f \in Seq(S)
  BY DEF Founded, Inner
<1>2. Len(s) >= 2
  BY <1>1 DEF Founded
<1>3. /\ Tail(s) \in Seq(S) /\ Len(Tail(s)) = Len(s) - 1
      /\ \A i \in 1..Len(s) - 1 : Tail(s)[i] = s[i + 1]
  BY <1>1, <1>2
<1>4. /\ t \in Seq(S) /\ Len(t) = Len(f) + Len(s) - 1
      /\ \A i \in 1..Len(f) : t[i] = f[i]
      /\ \A i \in Len(f) + 1..Len(t) : t[i] = s[i - Len(f) + 1]
  BY <1>1, <1>2, <1>3
<1>5. t \in Seq(ToSet(t))
  BY <1>4, SeqToSet
<1>6. t[Len(t)].at \in Bottom /\ t # <<>>
  <2>1. Len(t) \in Len(f) + 1..Len(t) /\ Len(t) - Len(f) + 1 = Len(s)
    BY <1>1, <1>2, <1>4
  <2>2. t[Len(t)] = s[Len(s)]
    BY <1>4, <2>1
  <2>. QED
    BY <2>1, <2>2, <1>1, <1>2, <1>4, SMTT(30) DEF Founded
<1>7. ASSUME NEW i \in 1..Len(t)
      PROVE  Gathers(t[i]) /\ (i < Len(t) => t[i].at \notin Bottom)
  <2>1. CASE i \in 1..Len(f)
    BY <2>1, <1>4 DEF Inner
  <2>2. CASE i \in Len(f) + 1..Len(t)
    <3>1. i - Len(f) + 1 \in 1..Len(s) /\ (i < Len(t) => i - Len(f) + 1 < Len(s))
      BY <1>1, <1>2, <1>4, <1>7, <2>2
    <3>2. t[i] = s[i - Len(f) + 1]
      BY <1>4, <2>2
    <3>. QED
      BY <3>1, <3>2 DEF Founded
  <2>. QED
    BY <2>1, <2>2, <1>1, <1>4
<1>. QED
  BY <1>5, <1>6, <1>7 DEF Founded

\* Frames that parse puts on the empty stack, or in place of its own frame.
LEMMA ReplaceBottom ==
    ASSUME NEW s, Founded(s), s # <<>>, Head(s).at \in Bottom,
           NEW f, Inner(f), NEW b, b.at \in Bottom, Gathers(b)
    PROVE  Founded(Append(f, b) \o Tail(s)) /\ Append(f, b) \o Tail(s) # <<>>
<1>. DEFINE S == ToSet(s) \union ToSet(f) \union {b}  t == Append(f, b)
<1>1. s \in Seq(S) /\ f \in Seq(S) /\ b \in S
  BY DEF Founded, Inner
<1>2. Len(s) = 1
  <2>1. Len(s) \in Nat /\ Len(s) >= 1 /\ Head(s) = s[1]
    BY <1>1
  <2>2. CASE Len(s) > 1
    BY <1>1, <2>1, <2>2 DEF Founded
  <2>. QED
    BY <2>1, <2>2
<1>3. Tail(s) = <<>>
  <2>1. Tail(s) \in Seq(S) /\ Len(Tail(s)) = 0
    BY <1>1, <1>2
  <2>. QED
    BY <2>1, EmptySeq
<1>4. /\ t \in Seq(S) /\ Len(t) = Len(f) + 1 /\ t[Len(t)] = b
      /\ \A i \in 1..Len(f) : t[i] = f[i]
  BY <1>1
<1>5. t \o Tail(s) = t
  BY <1>3, <1>4, ConcatEmptySeq
<1>6. t \in Seq(ToSet(t))
  BY <1>4, SeqToSet
<1>7. ASSUME NEW i \in 1..Len(t)
      PROVE  Gathers(t[i]) /\ (i < Len(t) => t[i].at \notin Bottom)
  <2>1. i \in 1..Len(f) \/ i = Len(t)
    BY <1>1, <1>4
  <2>2. Len(f) \in Nat
    BY <1>1
  <2>. QED
    BY <1>4, <2>1, <2>2 DEF Inner
<1>8. t[Len(t)].at \in Bottom /\ t # <<>>
  BY <1>4, <1>1
<1>9. Founded(t)
  BY <1>6, <1>7, <1>8 DEF Founded
<1>. QED
  BY <1>5, <1>8, <1>9
-----------------------------------------------------------------------------
(* Steps.                                                                  *)
Below == stack # <<>> /\ Top.at \notin Bottom
Replaces == \E frames : Inner(frames) /\ stack' = frames \o Tail(stack)

LEMMA ThrowKeepsSlot == Throw => SlotInv'
<1>1. <<>> \in Seq(ToSet(<<>>)) /\ Len(<<>>) = 0
  BY EmptySeq
<1>. QED
  BY <1>1 DEF Throw, SlotInv, Founded

LEMMA ReplacesKeepsSlot == SlotInv /\ Below /\ Replaces => SlotInv'
<1>. SUFFICES ASSUME SlotInv, Below, Replaces PROVE SlotInv'
  OBVIOUS
<1>1. PICK frames : Inner(frames) /\ stack' = frames \o Tail(stack)
  BY DEF Replaces
<1>2. Founded(frames \o Tail(stack)) /\ frames \o Tail(stack) # <<>>
  BY <1>1, ReplaceInner DEF SlotInv, Below, Top
<1>. QED
  BY <1>1, <1>2 DEF SlotInv

LEMMA PutTogether ==
    ASSUME NEW a, NEW b, NEW c
    PROVE  /\ <<a>> \o <<>> = <<a>> /\ <<a>> \o <<b>> = <<a, b>>
           /\ <<a>> \o <<b, c>> = <<a, b, c>>
           /\ Append(<<a>>, b) = <<a, b>> /\ Append(<<a, b>>, c) = <<a, b, c>>
<1>. DEFINE S == {a, b, c}
<1>1. <<a>> \in Seq(S) /\ <<b>> \in Seq(S) /\ <<b, c>> \in Seq(S) /\ <<a, b>> \in Seq(S)
      /\ <<a, b, c>> \in Seq(S)
  OBVIOUS
<1>2. <<a>> \o <<>> = <<a>>
  BY <1>1, ConcatEmptySeq
<1>3. <<a>> \o <<b>> = <<a, b>>
  <2>. DEFINE t == <<a>> \o <<b>>  u == <<a, b>>
  <2>1. t \in Seq(S) /\ Len(t) = 2 /\ Len(u) = 2
    BY <1>1
  <2>2. t[1] = a /\ u[1] = a /\ t[2] = b /\ u[2] = b
    BY <1>1
  <2>3. \A i \in 1..Len(t) : i = 1 \/ i = 2
    BY <2>1
  <2>. QED
    BY <1>1, <2>1, <2>2, <2>3, SeqEqual
<1>4. <<a>> \o <<b, c>> = <<a, b, c>>
  <2>. DEFINE t == <<a>> \o <<b, c>>  u == <<a, b, c>>
  <2>1. t \in Seq(S) /\ Len(t) = 3 /\ Len(u) = 3
    BY <1>1
  <2>2. t[1] = a /\ u[1] = a /\ t[2] = b /\ u[2] = b /\ t[3] = c /\ u[3] = c
    BY <1>1
  <2>3. \A i \in 1..Len(t) : i = 1 \/ i = 2 \/ i = 3
    BY <2>1
  <2>. QED
    BY <1>1, <2>1, <2>2, <2>3, SeqEqual
<1>5. Append(<<a>>, b) = <<a, b>>
  <2>. DEFINE t == Append(<<a>>, b)  u == <<a, b>>
  <2>1. t \in Seq(S) /\ Len(t) = 2 /\ Len(u) = 2
    BY <1>1
  <2>2. t[1] = a /\ u[1] = a /\ t[2] = b /\ u[2] = b
    BY <1>1
  <2>3. \A i \in 1..Len(t) : i = 1 \/ i = 2
    BY <2>1
  <2>. QED
    BY <1>1, <2>1, <2>2, <2>3, SeqEqual
<1>6. Append(<<a, b>>, c) = <<a, b, c>>
  <2>. DEFINE t == Append(<<a, b>>, c)  u == <<a, b, c>>
  <2>1. t \in Seq(S) /\ Len(t) = 3 /\ Len(u) = 3
    BY <1>1
  <2>2. t[1] = a /\ u[1] = a /\ t[2] = b /\ u[2] = b /\ t[3] = c /\ u[3] = c
    BY <1>1
  <2>3. \A i \in 1..Len(t) : i = 1 \/ i = 2 \/ i = 3
    BY <2>1
  <2>. QED
    BY <1>1, <2>1, <2>2, <2>3, SeqEqual
<1>. QED
  BY <1>2, <1>3, <1>4, <1>5, <1>6

\* What a term does to the stack.
LEMMA TermSteps ==
    ASSUME NEW frames, StartsTerm, Term(frames)
    PROVE  \/ stack' = frames \o Tail(stack)
           \/ \E text : stack' = (<<Waiting("qualified", text)>> \o frames) \o Tail(stack)
<1>1. Kind = "URI" \/ Kind = "A" \/ Kind = "Colon" \/ Kind = "Name"
  BY DEF StartsTerm
<1>. QED
  BY <1>1 DEF Term, Accept, Unget, Reads

\* Every function that parse calls stays above the frames of parse, or throws.
LEMMA InnerSteps ==
    ASSUME Founded(stack),
           \/ Expect \/ ParseQualifiedName \/ ParseLocalName \/ ParseLabel
           \/ ParseInside \/ ParseAfterString \/ ParseLanguage \/ ParseDatatype
           \/ ParseTyped \/ ParseVerb \/ ParseDirective \/ ParsePrefix
           \/ ParseBlank \/ CloseBrackets \/ ParseCollection \/ ParseAfterObject
           \/ ParseBase \/ ParsePrefixURI \/ ParseSubject \/ ParseObject
           \/ ParsePredicate
    PROVE  Below /\ (Throw \/ Replaces)
<1>. USE FewFrames DEF Below, Replaces, At, Bottom, Gathers
<1>1. CASE Expect
  BY <1>1 DEF Expect, Accept, Reads
<1>2. CASE ParseQualifiedName
  BY <1>2 DEF ParseQualifiedName, Accept, Reads, Waiting
<1>3. CASE ParseLocalName
  BY <1>3 DEF ParseLocalName, Accept, Decline, Unget, Reads
<1>4. CASE ParseLabel
  BY <1>4 DEF ParseLabel, Accept, Reads
<1>5. CASE ParseInside
  BY <1>5 DEF ParseInside, Accept, Decline, Unget, Reads, Lines, Waiting
<1>6. CASE ParseAfterString
  BY <1>6 DEF ParseAfterString, Accept, Decline, Unget, Reads, Waiting
<1>7. CASE ParseLanguage
  BY <1>7 DEF ParseLanguage, Accept, Reads
<1>8. CASE ParseDatatype
  BY <1>8 DEF ParseDatatype, Accept, Reads, Waiting
<1>9. CASE ParseTyped
  BY <1>9 DEF ParseTyped, Continue
<1>10. CASE ParseVerb
  BY <1>10 DEF ParseVerb, Continue, Frame, Lines
<1>11. CASE ParseDirective
  BY <1>11 DEF ParseDirective, Accept, Reads, Frame
<1>12. CASE ParsePrefix
  BY <1>12 DEF ParsePrefix, Accept, Reads, Expecting, Waiting
<1>13. CASE ParseBlank
  BY <1>13, AppendSeq DEF ParseBlank, Accept, Reads, Waiting, Entries, Expecting, Frame
<1>14. CASE CloseBrackets
  BY <1>14 DEF CloseBrackets, Continue, Expecting
<1>15. CASE ParseCollection
  <2>. DEFINE entries == IF Top.opened THEN <<>> ELSE Append(Top.entries, node)
  <2>1. stack # <<>> /\ Top.at = "collection"
    BY <1>15 DEF ParseCollection
  <2>2. Top = stack[1] /\ 1 \in 1..Len(stack)
    BY <2>1 DEF Founded, Top
  <2>3. IsSeq(Top.entries)
    BY <2>1, <2>2 DEF Founded
  <2>4. IsSeq(entries)
    BY <2>3, AppendSeq
  <2>. HIDE DEF entries
  <2>5. Inner(<<Frame("object"), Entries(FALSE, entries)>>)
    BY <2>4 DEF Frame, Entries
  <2>6. \/ Accept(<<>>, Resource(Cell(entries, 1)))
        \/ Decline(<<Frame("object"), Entries(FALSE, entries)>>, node)
    BY <1>15 DEF ParseCollection, entries
  <2>. QED
    BY <2>1, <2>5, <2>6 DEF Accept, Decline, Unget, Reads
<1>16. CASE ParseAfterObject
  BY <1>16 DEF ParseAfterObject, Accept, Decline, Unget, Reads, Frame, Lines
<1>17. CASE ParseBase
  BY <1>17 DEF ParseBase, Accept, Reads, Expecting
<1>18. CASE ParsePrefixURI
  BY <1>18 DEF ParsePrefixURI, Accept, Reads, Expecting
<1>19. CASE ParseSubject
  BY <1>19 DEF ParseSubject, Continue, Lines
<1>20. CASE ParseObject
  <2>1. CASE StartsBlank
    BY <1>20, <2>1 DEF ParseObject, Unget, Reads, Frame, StartsBlank, StartsTerm, StartsLabel, Numbers
  <2>2. CASE ~StartsBlank /\ StartsTerm
    <3>1. Term(<<>>)
      BY <1>20, <2>2 DEF ParseObject, StartsBlank, StartsTerm, StartsLabel, Numbers
    <3>2. \/ stack' = <<>> \o Tail(stack)
          \/ \E text : stack' = (<<Waiting("qualified", text)>> \o <<>>) \o Tail(stack)
      BY <2>2, <3>1, TermSteps
    <3>3. \A text : <<Waiting("qualified", text)>> \o <<>> = <<Waiting("qualified", text)>>
      BY PutTogether
    <3>4. \A text : Inner(<<Waiting("qualified", text)>>)
      BY DEF Waiting
    <3>. QED
      BY <1>20, <3>2, <3>3, <3>4 DEF ParseObject
  <2>3. CASE ~StartsBlank /\ ~StartsTerm
    BY <1>20, <2>3 DEF ParseObject, Accept, Reads, Waiting
  <2>. QED
    BY <2>1, <2>2, <2>3
<1>21. CASE ParsePredicate
  <2>1. CASE StartsTerm
    <3>. DEFINE verb == Lines("verb", Top.subject, Top.predicate, Top.first)
    <3>1. Term(<<verb>>)
      BY <1>21, <2>1 DEF ParsePredicate
    <3>2. \/ stack' = <<verb>> \o Tail(stack)
          \/ \E text : stack' = (<<Waiting("qualified", text)>> \o <<verb>>) \o Tail(stack)
      BY <2>1, <3>1, TermSteps
    <3>3. \A text : <<Waiting("qualified", text)>> \o <<verb>> = <<Waiting("qualified", text), verb>>
      BY PutTogether
    <3>4. Inner(<<verb>>) /\ \A text : Inner(<<Waiting("qualified", text), verb>>)
      BY DEF Waiting, Lines
    <3>. QED
      BY <1>21, <3>2, <3>3, <3>4 DEF ParsePredicate
  <2>2. CASE ~StartsTerm
    BY <1>21, <2>2 DEF ParsePredicate, Decline, Unget, Reads
  <2>. QED
    BY <2>1, <2>2
<1>. QED
  BY <1>1, <1>2, <1>3, <1>4, <1>5, <1>6, <1>7, <1>8, <1>9, <1>10, <1>11,
     <1>12, <1>13, <1>14, <1>15, <1>16, <1>17, <1>18, <1>19, <1>20, <1>21

-----------------------------------------------------------------------------
(* parse itself.                                                           *)
\* The frames of parse take the token that they read, or leave others above.
LEMMA StartKeepsSlot == SlotInv /\ Start => SlotInv'
<1>. SUFFICES ASSUME SlotInv, Start PROVE SlotInv'
  OBVIOUS
<1>. DEFINE Founds == \E frames, b : /\ Inner(frames) /\ b.at \in Bottom /\ Gathers(b)
                                    /\ stack' = Append(frames, b) \o Tail(stack)
<1>1. Founded(stack) /\ stack # <<>> /\ Head(stack).at \in Bottom
  BY DEF Start, At, Top, SlotInv, Bottom
<1>2. Founds => SlotInv'
  BY <1>1, ReplaceBottom DEF SlotInv
<1>3. CASE Next1 = Eof
  <2>1. stack' = <<>> /\ putBack' = putBack
    BY <1>3 DEF Start
  <2>2. putBack = Eof
    BY <1>3 DEF Next1
  <2>3. <<>> \in Seq(ToSet(<<>>)) /\ Len(<<>>) = 0
    BY EmptySeq
  <2>. QED
    BY <2>1, <2>2, <2>3 DEF SlotInv, Founded
<1>4. CASE Next1 # Eof /\ Kind = "At"
  <2>1. stack' = <<Frame("directive"), Frame("start")>> \o Tail(stack)
    BY <1>4 DEF Start, StartsBlank, StartsTerm, StartsLabel, Accept, Reads
  <2>2. <<Frame("directive"), Frame("start")>> = Append(<<Frame("directive")>>, Frame("start"))
    BY PutTogether
  <2>3. Inner(<<Frame("directive")>>) /\ Frame("start").at \in Bottom /\ Gathers(Frame("start"))
    BY FewFrames DEF Frame, Bottom, Gathers
  <2>. QED
    BY <1>2, <2>1, <2>2, <2>3
<1>5. CASE Next1 # Eof /\ StartsBlank
  <2>1. stack' = <<Frame("blank"), Frame("subject"), Frame("statement")>> \o Tail(stack)
    BY <1>5 DEF Start, StartsBlank, StartsTerm, StartsLabel, Unget, Reads
  <2>2. <<Frame("blank"), Frame("subject"), Frame("statement")>>
            = Append(<<Frame("blank"), Frame("subject")>>, Frame("statement"))
    BY PutTogether
  <2>3. Inner(<<Frame("blank"), Frame("subject")>>) /\ Frame("statement").at \in Bottom /\ Gathers(Frame("statement"))
    BY FewFrames DEF Frame, Bottom, Gathers
  <2>. QED
    BY <1>2, <2>1, <2>2, <2>3
<1>6. CASE Next1 # Eof /\ StartsTerm
  <2>1. Term(<<Frame("subject"), Frame("statement")>>)
    BY <1>6 DEF Start, StartsBlank, StartsTerm, StartsLabel
  <2>2. \/ stack' = <<Frame("subject"), Frame("statement")>> \o Tail(stack)
        \/ \E text : stack' = (<<Waiting("qualified", text)>> \o <<Frame("subject"), Frame("statement")>>)
                               \o Tail(stack)
    BY <1>6, <2>1, TermSteps
  <2>3. CASE stack' = <<Frame("subject"), Frame("statement")>> \o Tail(stack)
    <3>1. <<Frame("subject"), Frame("statement")>> = Append(<<Frame("subject")>>, Frame("statement"))
      BY PutTogether
    <3>2. Inner(<<Frame("subject")>>) /\ Frame("statement").at \in Bottom /\ Gathers(Frame("statement"))
      BY FewFrames DEF Frame, Bottom, Gathers
    <3>. QED
      BY <1>2, <2>3, <3>1, <3>2
  <2>4. ASSUME NEW text, stack' = (<<Waiting("qualified", text)>>
                                  \o <<Frame("subject"), Frame("statement")>>) \o Tail(stack)
        PROVE  SlotInv'
    <3>. DEFINE name == Waiting("qualified", text)
    <3>1. <<name>> \o <<Frame("subject"), Frame("statement")>>
              = Append(<<name, Frame("subject")>>, Frame("statement"))
      BY PutTogether
    <3>2. Inner(<<name, Frame("subject")>>) /\ Frame("statement").at \in Bottom /\ Gathers(Frame("statement"))
      BY FewFrames DEF Frame, Waiting, Bottom, Gathers
    <3>. QED
      BY <1>2, <2>4, <3>1, <3>2
  <2>. QED
    BY <2>2, <2>3, <2>4
<1>7. CASE Next1 # Eof /\ Kind # "At" /\ ~StartsBlank /\ ~StartsTerm
  <2>1. Throw
    BY <1>7 DEF Start
  <2>. QED
    BY <2>1, ThrowKeepsSlot
<1>. QED
  BY <1>3, <1>4, <1>5, <1>6, <1>7

LEMMA CallKeepsSlot == SlotInv /\ CallParse => SlotInv'
<1>. SUFFICES ASSUME SlotInv, CallParse PROVE SlotInv'
  OBVIOUS
<1>1. stack' = <<Frame("start")>>
  BY DEF CallParse
<1>2. Frame("start").at \in Bottom /\ Gathers(Frame("start"))
  BY DEF Frame, Bottom, Gathers
<1>3. <<Frame("start")>> \in Seq({Frame("start")})
  OBVIOUS
<1>4. <<Frame("start")>> \in Seq(ToSet(<<Frame("start")>>)) /\ Len(<<Frame("start")>>) = 1
  BY <1>3, SeqToSet
<1>5. Founded(<<Frame("start")>>)
  BY <1>2, <1>4 DEF Founded
<1>. QED
  BY <1>1, <1>5 DEF SlotInv

LEMMA TripleKeepsSlot == SlotInv /\ ParseTriple => SlotInv'
<1>1. <<>> \in Seq(ToSet(<<>>)) /\ Len(<<>>) = 0
  BY EmptySeq
<1>2. ParseTriple => stack' = <<>> /\ putBack' = Eof
  BY DEF ParseTriple, Throw
<1>. QED
  BY <1>1, <1>2 DEF SlotInv, Founded

LEMMA SlotStep == SlotInv /\ [Next]_vars => SlotInv'
<1>. SUFFICES ASSUME SlotInv, [Next]_vars PROVE SlotInv'
  OBVIOUS
<1>1. CASE UNCHANGED vars \/ ServeQueue
  BY <1>1 DEF SlotInv, vars, ServeQueue
<1>2. CASE Start \/ CallParse \/ ParseTriple
  BY <1>2, StartKeepsSlot, CallKeepsSlot, TripleKeepsSlot
<1>3. CASE Next /\ ~(Start \/ CallParse \/ ParseTriple) /\ ~ServeQueue
  <2>1. Below /\ (Throw \/ Replaces)
    BY <1>3, InnerSteps DEF Next, Call, Step, SlotInv
  <2>. QED
    BY <2>1, ThrowKeepsSlot, ReplacesKeepsSlot
<1>. QED
  BY <1>1, <1>2, <1>3

\* A token that was put back has been read when parse returns or throws, for
\* every input: one slot in the lexer is enough (unget, next).
THEOREM SlotIsEmpty == Spec => []NothingPutBack
<1>1. Init => SlotInv
  <2>1. <<>> \in Seq(ToSet(<<>>)) /\ Len(<<>>) = 0
    BY EmptySeq
  <2>. QED
    BY <2>1 DEF Init, ParserInit, SlotInv, Founded
<1>2. SlotInv => NothingPutBack
  BY DEF SlotInv, NothingPutBack
<1>. QED
  BY <1>1, SlotStep, <1>2, PTL DEF Spec

-----------------------------------------------------------------------------
(* The queue, the numbers and the tokens.                                  *)

\* Files are sequences of tokens, and a token has a text if its kind has one.
Spelled(tok) == HasText(tok) \/ tok.kind \in Exceptions \/ tok.text = <<>>
SpelledSources ==
    \A s \in Sources : IsSeq(s.tokens) /\ \A tok \in ToSet(s.tokens) : Spelled(tok)

Given == ToSet(source.tokens)
TokensInv ==
    /\ source \in Sources /\ input \in Seq(Given)
    /\ putBack \in {Eof} \union {tok \in Given : tok.kind \notin Exceptions}

\* As long as a function runs, nobody has begun to read the queue.
QueueInv ==
    /\ IsSeq(triples) /\ nextBlank \in Nat
    /\ triplesReader \in Nat
    /\ triplesReader = 0 \/ (stack = <<>> /\ triplesReader < Len(triples))

OutcomeInv == answer \in {"none", "triple", "end", "exception"} /\ thrown \in BOOLEAN

ParserInv == SlotInv /\ TokensInv /\ QueueInv /\ OutcomeInv

\* What a step may do to the tokens.
Taken == UNCHANGED input \/ (input # <<>> /\ input' = Tail(input))
Kept == putBack' = putBack \/ putBack' = Eof \/ (putBack' = Next1 /\ Kind \notin Exceptions)

LEMMA ReadsTakes ==
    ASSUME NEW frames, NEW value
    PROVE  /\ Throw => Taken /\ Kept
           /\ Accept(frames, value) => Taken /\ Kept
           /\ Unget(frames, value) /\ Kind \notin Exceptions => Taken /\ Kept
           /\ Decline(frames, value) => Taken /\ Kept
           /\ Continue(frames, value) => Taken /\ Kept
<1>1. Advance => Taken
  BY DEF Advance, Taken
<1>. QED
  BY <1>1 DEF Throw, Accept, Unget, Decline, Continue, Reads, Kept, Taken

LEMMA TermTakes ==
    ASSUME NEW frames, StartsTerm, Term(frames)
    PROVE  Taken /\ Kept /\ UNCHANGED outcome
<1>1. Kind = "URI" \/ Kind = "A" \/ Kind = "Colon" \/ Kind = "Name"
  BY DEF StartsTerm
<1>2. Kind \notin Exceptions
  BY <1>1 DEF Exceptions
<1>3. UNCHANGED outcome
  BY <1>1 DEF Term, Accept, Unget, Reads
<1>. QED
  BY <1>1, <1>2, <1>3, ReadsTakes DEF Term

LEMMA BlankIsNoException ==
    StartsBlank => Kind \notin Exceptions
BY DEF StartsBlank, StartsLabel, Exceptions

LEMMA StepsTake ==
    ASSUME Call
    PROVE  Taken /\ Kept
<1>. USE ReadsTakes
<1>1. CASE Expect \/ ParseQualifiedName \/ ParseLocalName \/ ParseLabel \/ ParseInside
  BY <1>1 DEF Expect, ParseQualifiedName, ParseLocalName, ParseLabel, ParseInside
<1>2. CASE ParseAfterString \/ ParseLanguage \/ ParseTyped \/ ParseVerb
  BY <1>2 DEF ParseAfterString, ParseLanguage, ParseTyped, ParseVerb
<1>3. CASE ParseDatatype
  BY <1>3 DEF ParseDatatype
<1>4. CASE ParseDirective \/ ParsePrefix \/ ParseSubject
  BY <1>4 DEF ParseDirective, ParsePrefix, ParseSubject
<1>5. CASE ParseObject
  <2>1. CASE StartsBlank
    BY <1>5, <2>1, BlankIsNoException DEF ParseObject, StartsBlank, StartsTerm, StartsLabel, Numbers
  <2>2. CASE ~StartsBlank /\ StartsTerm
    <3>1. Term(<<>>)
      BY <1>5, <2>2 DEF ParseObject, StartsBlank, StartsTerm, StartsLabel, Numbers
    <3>. QED
      BY <2>2, <3>1, TermTakes
  <2>3. CASE ~StartsBlank /\ ~StartsTerm
    BY <1>5, <2>3 DEF ParseObject
  <2>. QED
    BY <2>1, <2>2, <2>3
<1>6. CASE ParsePredicate
  <2>1. CASE StartsTerm
    BY <1>6, <2>1, TermTakes DEF ParsePredicate
  <2>2. CASE ~StartsTerm
    BY <1>6, <2>2 DEF ParsePredicate
  <2>. QED
    BY <2>1, <2>2
<1>7. CASE ParseBlank \/ CloseBrackets
  BY <1>7 DEF ParseBlank, CloseBrackets
<1>8. CASE ParseCollection
  BY <1>8 DEF ParseCollection
<1>9. CASE ParseAfterObject
  BY <1>9 DEF ParseAfterObject
<1>10. CASE ParseBase \/ ParsePrefixURI
  BY <1>10 DEF ParseBase, ParsePrefixURI
<1>11. CASE ServeQueue \/ CallParse
  BY <1>11 DEF ServeQueue, CallParse, Taken, Kept
<1>12. CASE Start
  <2>1. CASE Next1 = Eof
    BY <1>12, <2>1 DEF Start, Taken, Kept
  <2>2. CASE Next1 # Eof /\ StartsBlank
    BY <1>12, <2>2, BlankIsNoException DEF Start, StartsBlank, StartsTerm, StartsLabel
  <2>3. CASE Next1 # Eof /\ StartsTerm
    <3>1. Term(<<Frame("subject"), Frame("statement")>>)
      BY <1>12, <2>3 DEF Start, StartsBlank, StartsTerm, StartsLabel
    <3>. QED
      BY <2>3, <3>1, TermTakes
  <2>4. CASE Next1 # Eof /\ ~StartsBlank /\ ~StartsTerm
    BY <1>12, <2>4 DEF Start
  <2>. QED
    BY <2>1, <2>2, <2>3, <2>4
<1>13. CASE ParseTriple
  <2>1. Advance => Taken
    BY DEF Advance, Taken
  <2>. QED
    BY <1>13, <2>1 DEF ParseTriple, Kept
<1>. QED
  BY <1>1, <1>2, <1>3, <1>4, <1>5, <1>6, <1>7, <1>8, <1>9, <1>10, <1>11, <1>12, <1>13
     DEF Call, Step

LEMMA TokensStep ==
    ASSUME TokensInv, Taken, Kept, UNCHANGED source
    PROVE  TokensInv'
<1>1. input' \in Seq(Given)
  BY DEF TokensInv, Taken
<1>2. Next1 \in {Eof} \union Given
  <2>1. CASE putBack # Eof
    BY <2>1 DEF TokensInv, Next1
  <2>2. CASE putBack = Eof /\ input = <<>>
    BY <2>2 DEF Next1
  <2>3. CASE putBack = Eof /\ input # <<>>
    BY <2>3 DEF Next1, TokensInv
  <2>. QED
    BY <2>1, <2>2, <2>3
<1>3. putBack' \in {Eof} \union {tok \in Given : tok.kind \notin Exceptions}
  BY <1>2 DEF TokensInv, Kept, Kind
<1>. QED
  BY <1>1, <1>3 DEF TokensInv, Given

-----------------------------------------------------------------------------
(* The queue and its reader stay in step.                                  *)
LEMMA ConcatSeq ==
    ASSUME NEW s, NEW t, IsSeq(s), IsSeq(t)
    PROVE  IsSeq(s \o t)
<1>. DEFINE S == ToSet(s) \union ToSet(t)
<1>1. s \in Seq(S) /\ t \in Seq(S)
  BY DEF IsSeq
<1>2. s \o t \in Seq(S)
  BY <1>1
<1>. QED
  BY <1>2, SeqToSet DEF IsSeq

LEMMA CellsAreSeq ==
    ASSUME NEW entries, IsSeq(entries)
    PROVE  IsSeq(CellTriples(entries)) /\ Len(entries) \in Nat
<1>. DEFINE n == 2 * Len(entries)
            triple(i) == LET k == (i + 1) \div 2
                         IN  IF i % 2 = 1 THEN Triple(Cell(entries, k), Rdf("first"), entries[k])
                             ELSE Triple(Cell(entries, k), Rdf("rest"), Resource(Cell(entries, k + 1)))
            cells == [i \in 1..n |-> triple(i)]
            S == {cells[i] : i \in 1..n}
<1>1. Len(entries) \in Nat
  BY DEF IsSeq
<1>2. n \in Nat
  BY <1>1
<1>3. CellTriples(entries) = cells
  BY DEF CellTriples
<1>. HIDE DEF triple, n
<1>4. cells \in [1..n -> S]
  OBVIOUS
<1>. HIDE DEF cells, S
<1>5. cells \in Seq(S)
  BY <1>2, <1>4
<1>. QED
  BY <1>1, <1>3, <1>5, SeqToSet DEF IsSeq

LEMMA QueueStep ==
    ASSUME SlotInv, QueueInv, Call
    PROVE  QueueInv'
<1>1. stack # <<>> => triplesReader = 0
  BY DEF QueueInv
<1>2. CASE CallParse /\ UNCHANGED <<queue, nextBlank>>
  <2>1. Len(triples) \in Nat
    BY DEF QueueInv, IsSeq
  <2>2. triplesReader = 0
    BY <1>2, <2>1 DEF CallParse, QueueInv
  <2>. QED
    BY <1>2, <2>2 DEF QueueInv, queue
<1>3. CASE Step /\ ~CallParse /\ UNCHANGED <<queue, nextBlank>>
  <2>1. stack # <<>>
    BY <1>3 DEF Step, At, Expect, ParseQualifiedName, ParseLocalName, ParseLabel, ParseInside,
         ParseObject, ParseAfterString, ParseLanguage, ParseDatatype, ParseTyped, ParsePredicate,
         ParseVerb, ParseDirective, ParsePrefix, Start, ParseSubject, ParseTriple
  <2>. QED
    BY <1>1, <1>3, <2>1 DEF QueueInv, queue
<1>4. CASE ParseBlank
  BY <1>1, <1>4 DEF ParseBlank, At, QueueInv, queue
<1>5. CASE ParseBase \/ ParsePrefixURI
  BY <1>1, <1>5 DEF ParseBase, ParsePrefixURI, At, QueueInv, queue
<1>6. CASE CloseBrackets
  BY <1>1, <1>6, AppendSeq DEF CloseBrackets, At, QueueInv
<1>7. CASE ParseAfterObject
  <2>1. triples' = triples \/ \E triple : triples' = Append(triples, triple)
    BY <1>7 DEF ParseAfterObject
  <2>2. IsSeq(triples')
    BY <2>1, AppendSeq DEF QueueInv
  <2>3. UNCHANGED <<triplesReader, nextBlank>> /\ stack # <<>>
    BY <1>7 DEF ParseAfterObject, At
  <2>. QED
    BY <1>1, <2>2, <2>3 DEF QueueInv
<1>8. CASE ParseCollection
  <2>. DEFINE entries == IF Top.opened THEN <<>> ELSE Append(Top.entries, node)
  <2>1. stack # <<>> /\ Top.at = "collection" /\ UNCHANGED triplesReader
    BY <1>8 DEF ParseCollection, At
  <2>2. Top = stack[1] /\ 1 \in 1..Len(stack)
    BY <2>1 DEF SlotInv, Founded, Top
  <2>3. IsSeq(Top.entries)
    BY <2>1, <2>2 DEF SlotInv, Founded, Gathers
  <2>4. IsSeq(entries)
    BY <2>3, AppendSeq
  <2>. HIDE DEF entries
  <2>5. IsSeq(triples \o CellTriples(entries)) /\ Len(entries) \in Nat
    BY <2>4, CellsAreSeq, ConcatSeq DEF QueueInv
  <2>6. \/ triples' = triples \o CellTriples(entries) /\ nextBlank' = nextBlank + Len(entries)
        \/ UNCHANGED <<triples, nextBlank>>
    BY <1>8 DEF ParseCollection, entries
  <2>7. IsSeq(triples') /\ nextBlank' \in Nat
    <3>1. IsSeq(triples) /\ nextBlank \in Nat
      BY DEF QueueInv
    <3>2. nextBlank + Len(entries) \in Nat
      BY <2>5, <3>1
    <3>. QED
      BY <2>5, <2>6, <3>1, <3>2
  <2>. QED
    BY <1>1, <2>1, <2>7 DEF QueueInv
<1>9. CASE ServeQueue
  <2>1. Len(triples) \in Nat
    BY DEF QueueInv, IsSeq
  <2>2. CASE triplesReader + 1 < Len(triples)
    BY <1>9, <2>1, <2>2 DEF ServeQueue, QueueInv
  <2>3. CASE ~(triplesReader + 1 < Len(triples))
    BY <1>9, <2>3, AppendSeq DEF ServeQueue, QueueInv
  <2>. QED
    BY <2>2, <2>3
<1>. QED
  BY <1>2, <1>3, <1>4, <1>5, <1>6, <1>7, <1>8, <1>9 DEF Call

LEMMA OutcomeStep ==
    ASSUME OutcomeInv, Call
    PROVE  OutcomeInv'
<1>. USE DEF OutcomeInv, outcome, Throw, Accept, Unget, Reads, Decline, Continue
<1>1. CASE Expect \/ ParseQualifiedName \/ ParseLocalName \/ ParseLabel \/ ParseInside
  BY <1>1 DEF Expect, ParseQualifiedName, ParseLocalName, ParseLabel, ParseInside
<1>2. CASE ParseAfterString \/ ParseLanguage \/ ParseDatatype \/ ParseTyped
  BY <1>2 DEF ParseAfterString, ParseLanguage, ParseDatatype, ParseTyped
<1>3. CASE ParseVerb \/ ParseDirective \/ ParsePrefix \/ CallParse \/ ParseSubject \/ ParseTriple
  BY <1>3 DEF ParseVerb, ParseDirective, ParsePrefix, CallParse, ParseSubject, ParseTriple
<1>4. CASE ParseBlank \/ CloseBrackets \/ ParseCollection
  BY <1>4 DEF ParseBlank, CloseBrackets, ParseCollection
<1>5. CASE ParseBase \/ ParsePrefixURI \/ ServeQueue
  BY <1>5 DEF ParseBase, ParsePrefixURI, ServeQueue
<1>6. CASE ParseAfterObject
  BY <1>6 DEF ParseAfterObject
<1>7. CASE ParseObject
  <2>1. CASE StartsBlank \/ ~StartsTerm
    BY <1>7, <2>1 DEF ParseObject, StartsBlank, StartsTerm, StartsLabel, Numbers
  <2>2. CASE ~StartsBlank /\ StartsTerm
    <3>1. Term(<<>>)
      BY <1>7, <2>2 DEF ParseObject, StartsBlank, StartsTerm, StartsLabel, Numbers
    <3>. QED
      BY <2>2, <3>1, TermTakes
  <2>. QED
    BY <2>1, <2>2
<1>8. CASE ParsePredicate
  <2>1. CASE StartsTerm
    BY <1>8, <2>1, TermTakes DEF ParsePredicate
  <2>2. CASE ~StartsTerm
    BY <1>8, <2>2 DEF ParsePredicate
  <2>. QED
    BY <2>1, <2>2
<1>9. CASE Start
  <2>1. CASE Next1 = Eof \/ StartsBlank \/ ~StartsTerm
    BY <1>9, <2>1 DEF Start, StartsBlank, StartsTerm, StartsLabel
  <2>2. CASE Next1 # Eof /\ StartsTerm
    <3>1. Term(<<Frame("subject"), Frame("statement")>>)
      BY <1>9, <2>2 DEF Start, StartsBlank, StartsTerm, StartsLabel
    <3>. QED
      BY <2>2, <3>1, TermTakes
  <2>. QED
    BY <2>1, <2>2
<1>. QED
  BY <1>1, <1>2, <1>3, <1>4, <1>5, <1>6, <1>7, <1>8, <1>9 DEF Call, Step

\* The parser's type invariant: the queue of triples is empty between two calls or
\* is being read, and its reader is never past its end (TurtleParser::parse), for
\* every file whose tokens have texts only as the lexer gives them.
THEOREM ParserTypeCorrect ==
    ASSUME SpelledSources
    PROVE  Spec => []TypeOK
<1>1. Init => ParserInv
  <2>1. <<>> \in Seq(ToSet(<<>>)) /\ Len(<<>>) = 0
    BY EmptySeq
  <2>2. Init => SlotInv
    BY <2>1 DEF Init, ParserInit, SlotInv, Founded
  <2>3. Init => TokensInv
    BY DEF Init, ParserInit, TokensInv, Given, SpelledSources, IsSeq
  <2>4. Init => QueueInv
    BY AppendSeq DEF Init, ParserInit, QueueInv
  <2>5. Init => OutcomeInv
    BY DEF Init, ParserInit, OutcomeInv
  <2>. QED
    BY <2>2, <2>3, <2>4, <2>5 DEF ParserInv
<1>2. ParserInv /\ [Next]_vars => ParserInv'
  <2>. SUFFICES ASSUME ParserInv, [Next]_vars PROVE ParserInv'
    OBVIOUS
  <2>1. CASE UNCHANGED vars
    BY <2>1 DEF vars, scope, queue, outcome, ParserInv, SlotInv, TokensInv, Given, QueueInv, OutcomeInv
  <2>2. CASE Next
    <3>1. SlotInv'
      BY <2>2, SlotStep DEF ParserInv
    <3>2. TokensInv'
      BY <2>2, StepsTake, TokensStep DEF ParserInv, Next
    <3>3. QueueInv'
      BY <2>2, QueueStep DEF ParserInv, Next
    <3>4. OutcomeInv'
      BY <2>2, OutcomeStep DEF ParserInv, Next
    <3>. QED
      BY <3>1, <3>2, <3>3, <3>4 DEF ParserInv
  <2>. QED
    BY <2>1, <2>2
<1>3. ParserInv => TypeOK
  <2>. SUFFICES ASSUME ParserInv PROVE TypeOK
    OBVIOUS
  <2>1. Len(triples) \in Nat /\ (triples # <<>> => Len(triples) > 0)
    BY DEF ParserInv, QueueInv, IsSeq
  <2>2. triplesReader \in 0..Len(triples) /\ (stack = <<>> /\ triples # <<>> => triplesReader < Len(triples))
    BY <2>1 DEF ParserInv, QueueInv
  <2>3. HasText(putBack) \/ putBack.text = <<>>
    BY DEF ParserInv, TokensInv, Given, SpelledSources, Spelled, Eof, Sign, Token
  <2>. QED
    BY <2>2, <2>3 DEF TypeOK, ParserInv, QueueInv, OutcomeInv
<1>. QED
  BY <1>1, <1>2, <1>3, PTL DEF Spec

-----------------------------------------------------------------------------
(* The read buffer.                                                        *)

Fulls == { k * BufferSize : k \in Nat }

BufferInv ==
    /\ Len(file) \in Nat /\ readBuffer \in Nat
    /\ thrown \in BOOLEAN
    /\ BufferHolds
    /\ ~thrown /\ good => position \in Fulls
    /\ answer = "exception" => thrown
    /\ reading = "recovering" => thrown

-----------------------------------------------------------------------------
(* What the steps do to the buffer and to the outcome.                     *)
LEMMA LexerFetches ==
    ASSUME LexerStep
    PROVE  (Fetch(0) \/ Fetch(1)) /\ UNCHANGED file
<1>. USE DEF Read, ReadAndUnread, Ends
<1>1. CASE LexStart \/ LexComment \/ LexType \/ LexDelimited \/ LexLongString \/ LexEscape \/ LexHexCode
  BY <1>1 DEF LexerStep, LexStart, LexComment, LexType, LexDelimited, LexLongString, LexEscape, LexHexCode
<1>2. CASE LexDot \/ LexEmptyString
  BY <1>2 DEF LexerStep, LexDot, LexEmptyString
<1>3. CASE LexName
  BY <1>3 DEF LexerStep, LexName
<1>4. CASE LexNumber
  BY <1>4 DEF LexerStep, LexNumber
<1>. QED
  BY <1>1, <1>2, <1>3, <1>4 DEF LexerStep

LEMMA TermOutcome ==
    ASSUME NEW frames, StartsTerm, Term(frames)
    PROVE  UNCHANGED outcome
<1>1. Kind = "URI" \/ Kind = "A" \/ Kind = "Colon" \/ Kind = "Name"
  BY DEF StartsTerm
<1>. QED
  BY <1>1 DEF Term, Accept, Unget, Reads

\* A call in progress throws, gives something or goes on.
Goes1 == UNCHANGED <<answer, thrown>>
Returns == answer' \in {"triple", "end"} /\ UNCHANGED thrown

LEMMA StepOutcome ==
    ASSUME Step
    PROVE  Throw \/ Goes1 \/ Returns
<1>. USE DEF Goes1, Returns, outcome, Accept, Unget, Reads, Decline, Continue
<1>1. CASE Expect \/ ParseQualifiedName \/ ParseLocalName \/ ParseLabel \/ ParseInside
  BY <1>1 DEF Expect, ParseQualifiedName, ParseLocalName, ParseLabel, ParseInside
<1>2. CASE ParseAfterString \/ ParseLanguage \/ ParseDatatype \/ ParseTyped
  BY <1>2 DEF ParseAfterString, ParseLanguage, ParseDatatype, ParseTyped
<1>3. CASE ParseVerb \/ ParseDirective \/ ParsePrefix \/ CallParse \/ ParseSubject \/ ParseTriple
  BY <1>3 DEF ParseVerb, ParseDirective, ParsePrefix, CallParse, ParseSubject, ParseTriple
<1>4. CASE ParseObject
  <2>1. CASE StartsBlank
    BY <1>4, <2>1 DEF ParseObject, StartsBlank, StartsTerm, StartsLabel, Numbers
  <2>2. CASE ~StartsBlank /\ StartsTerm
    <3>1. Term(<<>>)
      BY <1>4, <2>2 DEF ParseObject, StartsBlank, StartsTerm, StartsLabel, Numbers
    <3>. QED
      BY <2>2, <3>1, TermOutcome
  <2>3. CASE ~StartsBlank /\ ~StartsTerm
    BY <1>4, <2>3 DEF ParseObject
  <2>. QED
    BY <2>1, <2>2, <2>3
<1>5. CASE ParsePredicate
  <2>1. CASE StartsTerm
    BY <1>5, <2>1, TermOutcome DEF ParsePredicate
  <2>2. CASE ~StartsTerm
    BY <1>5, <2>2 DEF ParsePredicate
  <2>. QED
    BY <2>1, <2>2
<1>6. CASE Start
  <2>1. CASE Next1 = Eof
    BY <1>6, <2>1 DEF Start
  <2>2. CASE Next1 # Eof /\ (Kind = "At" \/ StartsBlank)
    BY <1>6, <2>2 DEF Start, StartsBlank, StartsTerm, StartsLabel
  <2>3. CASE Next1 # Eof /\ StartsTerm
    <3>1. Term(<<Frame("subject"), Frame("statement")>>)
      BY <1>6, <2>3 DEF Start, StartsBlank, StartsTerm, StartsLabel
    <3>. QED
      BY <2>3, <3>1, TermOutcome
  <2>4. CASE Next1 # Eof /\ Kind # "At" /\ ~StartsBlank /\ ~StartsTerm
    BY <1>6, <2>4 DEF Start
  <2>. QED
    BY <2>1, <2>2, <2>3, <2>4
<1>. QED
  BY <1>1, <1>2, <1>3, <1>4, <1>5, <1>6 DEF Step

LEMMA CallOutcome ==
    ASSUME Call
    PROVE  Throw \/ Goes1 \/ Returns
<1>. USE DEF Goes1, Returns, outcome, Accept, Unget, Reads, Decline, Continue
<1>1. CASE Step
  BY <1>1, StepOutcome
<1>2. CASE ParseBlank \/ CloseBrackets \/ ParseCollection
  BY <1>2 DEF ParseBlank, CloseBrackets, ParseCollection
<1>3. CASE ParseAfterObject \/ ParseBase \/ ParsePrefixURI \/ ServeQueue
  BY <1>3 DEF ParseAfterObject, ParseBase, ParsePrefixURI, ServeQueue
<1>. QED
  BY <1>1, <1>2, <1>3 DEF Call

-----------------------------------------------------------------------------
(* Arithmetic of full reads.                                               *)
LEMMA NextFull ==
    ASSUME NEW p \in Fulls
    PROVE  p \in Nat /\ p + BufferSize \in Fulls
<1>1. PICK k \in Nat : p = k * BufferSize
  BY DEF Fulls
<1>2. k + 1 \in Nat /\ (k + 1) * BufferSize = p + BufferSize
  BY <1>1, BufferSizeAssumption, SMT
<1>. QED
  BY <1>1, <1>2, BufferSizeAssumption, SMT DEF Fulls

LEMMA FullIsMultiple ==
    ASSUME NEW p \in Fulls
    PROVE  p % BufferSize = 0
<1>1. PICK k \in Nat : p = k * BufferSize
  BY DEF Fulls
<1>. DEFINE q == p \div BufferSize  r == p % BufferSize
<1>2. p \in Nat
  BY NextFull
<1>3. q \in Int /\ r \in 0..BufferSize - 1 /\ p = BufferSize * q + r
  BY <1>2, BufferSizeAssumption, SMT
<1>. HIDE DEF q, r
<1>4. BufferSize * (k - q) = r /\ k - q \in Int
  BY <1>1, <1>3, BufferSizeAssumption, SMT
<1>5. CASE k - q >= 1
  <2>1. BufferSize * (k - q) >= BufferSize
    BY <1>4, <1>5, BufferSizeAssumption, SMT
  <2>. QED
    BY <2>1, <1>3, <1>4, BufferSizeAssumption, SMT
<1>6. CASE k - q <= -1
  <2>1. BufferSize * (k - q) <= 0 - BufferSize
    BY <1>4, <1>6, BufferSizeAssumption, SMT
  <2>. QED
    BY <2>1, <1>3, <1>4, BufferSizeAssumption, SMT
<1>7. CASE k - q = 0
  <2>1. r = 0
    BY <1>4, <1>7, BufferSizeAssumption, SMT
  <2>. QED
    BY <2>1 DEF r
<1>. QED
  BY <1>4, <1>5, <1>6, <1>7, SMT

-----------------------------------------------------------------------------
(* The invariant.                                                          *)
LEMMA InitBufferInv == GetValuesInit => BufferInv
<1>. SUFFICES ASSUME GetValuesInit PROVE BufferInv
  OBVIOUS
<1>1. Len(file) \in Nat
  BY FilesAssumption DEF GetValuesInit, ParserInit
<1>2. 0 \in Fulls
  <2>1. 0 = 0 * BufferSize
    BY BufferSizeAssumption, SMT
  <2>. QED
    BY <2>1 DEF Fulls
<1>3. /\ position = 0 /\ readBuffer = 0 /\ readBufferStart = 0 /\ readBufferEnd = 0
      /\ thrown = FALSE /\ good = TRUE
  BY DEF GetValuesInit, ParserInit, LexerInit
<1>4. answer # "exception" /\ reading # "recovering"
  BY DEF GetValuesInit, ParserInit
<1>5. /\ position \in 0..Len(file)
      /\ readBufferEnd \in 0..BufferSize /\ readBufferStart \in 0..readBufferEnd
      /\ readBuffer + readBufferEnd = position /\ readBuffer + readBufferEnd <= position
      /\ ~Buffered
  BY <1>1, <1>3, BufferSizeAssumption, SMT DEF Buffered
<1>6. BufferHolds
  BY <1>3, <1>5 DEF BufferHolds
<1>. QED
  BY <1>1, <1>2, <1>3, <1>4, <1>6 DEF BufferInv

LEMMA FetchKeeps ==
    ASSUME BufferInv, NEW used \in {0, 1}, Fetch(used), UNCHANGED <<file, outcome, reading>>
    PROVE  BufferInv'
<1>. USE BufferSizeAssumption DEF BufferInv, BufferHolds, Fetch, Refill, stream, outcome
<1>1. CASE Buffered
  <2>1. /\ readBufferStart' = readBufferStart + used
        /\ UNCHANGED <<readBuffer, readBufferEnd, position, good>>
    BY <1>1
  <2>. QED
    BY <1>1, <2>1, SMT DEF Buffered
<1>2. CASE ~Buffered /\ Filled > 0 /\ good
  <2>1. Filled \in 1..BufferSize /\ position + Filled <= Len(file)
    BY <1>2, SMT DEF Filled, Rest
  <2>2. ~thrown /\ good' => position' \in Fulls
    BY <1>2, NextFull
  <2>. QED
    BY <1>2, <2>1, <2>2, SMT DEF Buffered
<1>3. CASE ~Buffered /\ Filled = 0
  BY <1>3, SMT DEF Buffered
<1>4. (Filled > 0 /\ good) \/ Filled = 0
  BY SMT DEF Filled, Rest
<1>. QED
  BY <1>1, <1>2, <1>3, <1>4

LEMMA ParseKeeps ==
    ASSUME BufferInv, Parse
    PROVE  BufferInv'
<1>1. Throw \/ Goes1 \/ Returns
  BY CallOutcome DEF Parse
<1>2. /\ thrown' \in BOOLEAN /\ (thrown => thrown')
      /\ answer' = "exception" => thrown'
  BY <1>1 DEF BufferInv, Throw, Goes1, Returns
<1>3. reading' = "recovering" => reading = "recovering" \/ answer' = "exception"
  BY DEF Parse, Collect
<1>4. UNCHANGED <<file, stream, buffer>>
  BY DEF Parse, lexer
<1>. QED
  BY <1>2, <1>3, <1>4 DEF BufferInv, BufferHolds, Buffered, stream, buffer

LEMMA RecoverKeeps ==
    ASSUME BufferInv, Recover
    PROVE  BufferInv'
<1>1. thrown /\ UNCHANGED <<outcome, file, buffer>>
  BY DEF BufferInv, Recover, vars
<1>2. /\ position' \in 0..Len(file) /\ position' >= position
      /\ good' \in BOOLEAN
  <2>1. CASE good /\ Rest > 0
    <3>1. position' = position + 1 /\ UNCHANGED good
      BY <2>1 DEF Recover
    <3>. QED
      BY <2>1, <3>1, SMT DEF BufferInv, BufferHolds, Rest
  <2>2. CASE ~(good /\ Rest > 0)
    <3>1. good' = FALSE /\ UNCHANGED position
      BY <2>2 DEF Recover
    <3>2. position' \in 0..Len(file) /\ position' >= position
      BY <3>1, SMT DEF BufferInv, BufferHolds
    <3>. QED
      BY <3>1, <3>2
  <2>. QED
    BY <2>1, <2>2
<1>. QED
  BY <1>1, <1>2, BufferSizeAssumption, SMT DEF BufferInv, BufferHolds, outcome, buffer

LEMMA NextBufferInv == BufferInv /\ [GetValuesNext]_everything => BufferInv'
<1>. SUFFICES ASSUME BufferInv, [GetValuesNext]_everything PROVE BufferInv'
  OBVIOUS
<1>1. CASE ReadToken
  <2>1. UNCHANGED <<file, outcome, reading>>
    BY <1>1, LexerFetches DEF ReadToken
  <2>2. Fetch(0) \/ Fetch(1)
    BY <1>1, LexerFetches DEF ReadToken
  <2>. QED
    BY <2>1, <2>2, FetchKeeps
<1>2. CASE Parse
  BY <1>2, ParseKeeps
<1>3. CASE Recover
  BY <1>3, RecoverKeeps
<1>4. CASE UNCHANGED everything
  BY <1>4 DEF everything, vars, lexer, stream, buffer, values, outcome, BufferInv, BufferHolds, Buffered
<1>. QED
  BY <1>1, <1>2, <1>3, <1>4 DEF GetValuesNext

-----------------------------------------------------------------------------
(* What the buffer holds is what the stream gave last (doRead), for every  *)
(* file and every size of the buffer.                                      *)
THEOREM BufferFollowsStream == GetValuesSpec => []BufferHolds
<1>1. BufferInv => BufferHolds
  BY DEF BufferInv
<1>. QED
  BY <1>1, InitBufferInv, NextBufferInv, PTL DEF GetValuesSpec

LEMMA FetchServes ==
    ASSUME BufferInv, ~thrown, EndsInShortRead, NEW used \in {0, 1}, Fetch(used)
    PROVE  Served' - Served \in {0, 1}
<1>. USE BufferSizeAssumption DEF BufferInv, BufferHolds, Fetch, Refill, Served, stream
<1>1. CASE Buffered
  BY <1>1, SMT DEF Buffered
<1>2. CASE ~Buffered /\ Filled > 0
  BY <1>2, SMT DEF Buffered
<1>3. CASE ~Buffered /\ Filled = 0 /\ good
  <2>1. position = Len(file)
    BY <1>3, SMT DEF Filled, Rest
  <2>. QED
    BY <1>3, <2>1, FullIsMultiple DEF EndsInShortRead
<1>4. CASE ~Buffered /\ Filled = 0 /\ ~good
  BY <1>4, SMT DEF Buffered
<1>5. Filled > 0 \/ Filled = 0
  BY SMT DEF Filled, Rest
<1>. QED
  BY <1>1, <1>2, <1>3, <1>4, <1>5

\* Every character of a file that ends in a short read is served once, in order
\* (read, unread, doRead), for every file and every size of the buffer.
THEOREM CharactersOnce == GetValuesSpec => ReadsInOrder
<1>1. ASSUME BufferInv, [GetValuesNext]_everything, EndsInShortRead, ~thrown
      PROVE  Served' - Served \in {0, 1}
  <2>1. CASE ReadToken
    BY <1>1, <2>1, LexerFetches, FetchServes DEF ReadToken
  <2>2. CASE Parse \/ UNCHANGED everything
    <3>1. UNCHANGED Served
      BY <2>2 DEF Parse, everything, lexer, buffer, Served
    <3>2. Served \in Int
      BY <1>1, SMT DEF BufferInv, BufferHolds, Served
    <3>. QED
      BY <3>1, <3>2, SMT
  <2>3. CASE Recover
    BY <1>1, <2>3 DEF Recover, BufferInv
  <2>. QED
    BY <1>1, <2>1, <2>2, <2>3 DEF GetValuesNext
<1>2. BufferInv /\ [GetValuesNext]_everything
      => [EndsInShortRead /\ ~thrown => Served' - Served \in {0, 1}]_everything
  BY <1>1
<1>. QED
  BY <1>2, InitBufferInv, NextBufferInv, PTL DEF GetValuesSpec, ReadsInOrder

=============================================================================
