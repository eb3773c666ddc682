----------------------------- MODULE MCConvert -----------------------------
(* Convert with values of two bytes of two bits, and blocks of two.       *)
EXTENDS Convert

(* Summands of every residue but zero; the largest ones often meet.        *)
MCDerived(k, vid) ==
    LET n == (vid * (k + 1) + 5 * k) % 16
    IN IF vid % 5 = 0 THEN 15 - (k % 2) ELSE IF n \in {0, Q} THEN 14 ELSE n
MCLeaves == {[l \in Lanes |-> (a + 5 * l) % 16] : a \in 0..15}
MCRoots == {0, 2, 4, 6, 8, 10, 14, 20, 36}
MCDeal(m) == <<{0, m}, {1, 3}>>
=============================================================================
