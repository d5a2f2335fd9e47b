---------------------------- MODULE MCDnsForward ----------------------------
(* DnsForward with two slots: two queries fill the table, a third evicts,   *)
(* and there are few enough identifiers that one is soon reused.            *)
EXTENDS DnsForward, TLC
CONSTANTS s1, s2, l1, l2, r1, r2, q1, q2

MCSlots == {s1, s2}
MCLeaves == {l1, l2}
MCResolvers == {r1, r2}
MCQuestions == {q1, q2}
MCIds == 0..3
MCSymmetry == Permutations(MCLeaves) \cup Permutations(MCResolvers)
              \cup Permutations(MCQuestions) \cup Permutations(MCSlots)
=============================================================================
