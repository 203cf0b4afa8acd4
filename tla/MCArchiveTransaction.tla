------------------------ MODULE MCArchiveTransaction ------------------------
(* Instances of ArchiveTransaction for TLC. *)
EXTENDS ArchiveTransaction

CONSTANTS a, b, specA, specB

One == {a}
Two == {a, b}
Domains == {specA, specB}
OneDomain == {specA}
WritesOne == [c \in One |-> <<specA>>]
WritesTwo == [c \in Two |-> IF c = a THEN <<specA, specB>> ELSE <<specA>>]

=============================================================================
