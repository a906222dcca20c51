----------------------------- MODULE Dictionary -----------------------------
(***************************************************************************)
(* What a dictionary promises its user (include/Dictionary.hpp): strings   *)
(* get consecutive ids starting at 1 when they are bulk-inserted, a lookup *)
(* by string or by id gives the entry if and only if there is one, and a   *)
(* range lookup gives every entry whose string has the prefix.             *)
(*                                                                         *)
(* Every operation is one step.  answer records the last one: what was     *)
(* asked, the argument, and the sequence of entries it gave.               *)
(***************************************************************************)
EXTENDS Integers, Sequences

CONSTANTS
    Inputs,                 \* the arrays that may be bulk-inserted
    Queries,                \* the strings that may be looked up
    Ids,                    \* the ids that may be looked up
    Storable(_),            \* whether there is certainly room for a string
    HasPrefix(_, _)

VARIABLES
    stored,  \* stored[id]: the string with that id
    answer

Entries == { [id |-> id, value |-> stored[id]] : id \in DOMAIN stored }

\* out gives the entries with these ids, each once and in ascending order.
Lists(out, ids) ==
    /\ out \in Seq(Entries)
    /\ { out[n].id : n \in DOMAIN out } = ids
    /\ \A m, n \in DOMAIN out : m < n => out[m].id < out[n].id

Answer(op, arg, ids) ==
    /\ answer' = [op |-> op, arg |-> arg, out |-> answer'.out]
    /\ Lists(answer'.out, ids)

Init == stored = <<>> /\ answer = [op |-> "none", arg |-> <<>>, out |-> <<>>]

\* The call returns once every string is inserted.  Only a string too long to
\* be stored may make it throw: the strings before that one stay.
BulkInsert ==
    /\ stored = <<>>
    /\ answer'.op \in {"inserted", "threw"}
    /\ \E vs \in Inputs : \E n \in 0..Len(vs) :
          /\ n < Len(vs) => ~Storable(vs[n+1])
          /\ stored' = SubSeq(vs, 1, n)
          /\ answer' = [op  |-> IF n = Len(vs) THEN "inserted" ELSE "threw",
                        arg |-> <<>>, out |-> <<>>]

LookupValue(s) ==
    Answer("value", s, { id \in DOMAIN stored : stored[id] = s }) /\ UNCHANGED stored

LookupId(i) ==
    Answer("id", <<i>>, { id \in DOMAIN stored : id = i }) /\ UNCHANGED stored

RangeLookup(prefix) ==
    /\ Answer("range", prefix, { id \in DOMAIN stored : HasPrefix(stored[id], prefix) })
    /\ UNCHANGED stored

Next ==
    \/ BulkInsert
    \/ \E s \in Queries : LookupValue(s) \/ RangeLookup(s)
    \/ \E i \in Ids : LookupId(i)

Spec == Init /\ [][Next]_<<stored, answer>>
=============================================================================
