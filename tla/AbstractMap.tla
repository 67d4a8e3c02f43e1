------------------------------ MODULE AbstractMap ------------------------------
(***************************************************************************)
(* What FlatHashMap promises its users: a finite map without overwriting   *)
(* insertion, and the truth about what each call did.                      *)
(***************************************************************************)
CONSTANTS Key, Value, None

VARIABLES contents,   \* the value of each key, or None
          result      \* what the last insert or erase returned

Init == contents = [k \in Key |-> None] /\ result = TRUE

Insert(k, v) == /\ result' = (contents[k] = None)
                /\ contents' = IF contents[k] = None THEN [contents EXCEPT ![k] = v]
                                                     ELSE contents
Erase(k) == /\ result' = (contents[k] # None)
            /\ contents' = [contents EXCEPT ![k] = None]

Next == \E k \in Key : Erase(k) \/ \E v \in Value : Insert(k, v)
Safety == Init /\ [][Next]_<<contents, result>>
=============================================================================
