------------------------------- MODULE MCNode -------------------------------
(* Addresses four bits wide: subnets of eight and of four hosts beside one *)
(* another and nested, and every mask there is.                            *)
EXTENDS Node

Word(n) == {i \in 0..3 : (n \div 2^i) % 2 = 1}
S(i, m, g) == [ip |-> Word(i), mask |-> Word(m), gateway |-> Word(g)]

MCDefaultSubnet == S(9, 12, 9)
MCFactorySoftap == S(5, 12, 5)
MCUplinks == {S(i, m, g) : i \in 0..15, m \in 0..15, g \in {0, 5, 9}}
MCSoftaps == {S(i, m, i) : i \in {1, 6, 9}, m \in {0, 8, 10, 12}}
MCHalowAps == {S(9, 12, 9), S(1, 15, 1)}
=============================================================================
