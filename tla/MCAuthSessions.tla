--------------------------- MODULE MCAuthSessions ---------------------------
(* AuthSessions with two browsers and tables of two slots.                  *)
EXTENDS AuthSessions, TLC
CONSTANTS c1, c2, p1, p2, s1, s2

MCClients == {c1, c2}
MCPasswords == {p1, p2}
MCSlots == {s1, s2}
MCSymmetry == Permutations(MCClients) \cup Permutations(MCPasswords)
              \cup Permutations(MCSlots)
=============================================================================
