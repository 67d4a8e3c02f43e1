------------------------------ MODULE CaptureLine ------------------------------
(***************************************************************************)
(* A diff line of a capture and what parse_line of binance_parser.hpp      *)
(* makes of it.  The parser searches for keys in the characters of a line; *)
(* here a line is a sequence of tokens, each a key with its value, a       *)
(* bracket, or a level up to the quote behind its quantity.  The closing   *)
(* brackets and commas behind a level are stepped over whatever they are,  *)
(* and are not tokens.                                                     *)
(***************************************************************************)
EXTENDS Integers, SequencesExt

CONSTANT None   \* std::nullopt

Token(name)     == [name |-> name]
Number(name, n) == [name |-> name, value |-> n]
Entry(u)        == [name |-> "level", update |-> u]
\* What is left of a token the line ends in.
Torn == Token("torn")

DiffLine(first, last, bids, asks) ==
    LET Entries(us) == [i \in DOMAIN us |-> Entry(us[i])]
    IN  <<Token("type"), Number("U", first), Number("u", last)>>
            \o <<Token("b"), Token("[")>> \o Entries(bids)
            \o <<Token("a"), Token("[")>> \o Entries(asks)

\* A line that was not written to its end, cut between two tokens or inside one.
Cuts(line) == LET written == {SubSeq(line, 1, n) : n \in 0 .. Len(line)}
              IN  written \cup {Append(w, Torn) : w \in written \ {line}}

-----------------------------------------------------------------------------
Find(line, name) == SelectInSeq(line, LAMBDA token : token.name = name)
IsAt(line, i, name) == i \in DOMAIN line /\ line[i].name = name

\* find_u64
FindNumber(line, name) == IF Find(line, name) = 0 THEN None ELSE line[Find(line, name)].value

\* parse_level_array: the levels from the bracket behind the key on; the list ends
\* where no further level begins, and fails where one begins and does not end.
ParseLevels(line, key) ==
    LET open == Find(line, key) + 1
        list == {n \in open .. Len(line) : \A i \in (open + 1) .. n : IsAt(line, i, "level")}
        last == CHOOSE n \in list : n + 1 \notin list
    IN  IF open = 1 \/ ~IsAt(line, open, "[") \/ IsAt(line, last + 1, "torn") THEN None
        ELSE [i \in 1 .. (last - open) |-> line[open + i].update]

\* mutant: a missing list is an empty one
ParseDiffLenient(line) ==
    LET first == FindNumber(line, "U")
        last  == FindNumber(line, "u")
        Levels(key) == IF ParseLevels(line, key) = None THEN <<>> ELSE ParseLevels(line, key)
    IN  IF ~IsAt(line, 1, "type") \/ None \in {first, last} THEN None
        ELSE [first |-> first, last |-> last, updates |-> Levels("b") \o Levels("a")]

\* parse_line for the diff type
ParseDiff(line) ==
    LET first == FindNumber(line, "U")
        last  == FindNumber(line, "u")
        bids  == ParseLevels(line, "b")
        asks  == ParseLevels(line, "a")
    IN  IF ~IsAt(line, 1, "type") \/ first = None \/ last = None \/ bids = None \/ asks = None
        THEN None
        ELSE [first |-> first, last |-> last, updates |-> bids \o asks]
=============================================================================
