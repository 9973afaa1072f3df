-------------------------------- MODULE MCIds --------------------------------
(***************************************************************************)
(* Identifier strings of the models, as sequences of characters.           *)
(***************************************************************************)
EXTENDS Integers, Sequences

Digits == <<"0", "1", "2", "3", "4", "5", "6", "7", "8", "9",
            "a", "b", "c", "d", "e", "f">>

\* "01234567890123456789012345678901", the identifier of spec.md 8
Id1 == [i \in 1..32 |-> Digits[((i - 1) % 10) + 1]]
\* 32 digits that use a to f as well
Id2 == [i \in 1..32 |-> Digits[((7 * i) % 16) + 1]]
\* Id2 in the 8-4-4-4-12 layout: hyphens after characters 8, 12, 16, 20
Hyphenated(id) ==
  SubSeq(id, 1, 8) \o <<"-">> \o SubSeq(id, 9, 12) \o <<"-">> \o SubSeq(id, 13, 16)
  \o <<"-">> \o SubSeq(id, 17, 20) \o <<"-">> \o SubSeq(id, 21, 32)
\* 31 characters
ShortId  == SubSeq(Id1, 1, 31)
\* 32 characters, the last not a hex digit
NonHexId == [Id1 EXCEPT ![32] = "g"]
====
