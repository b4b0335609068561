--------------------------- MODULE MCContentFetch ---------------------------
(* Four pages of one host: three failures open its breaker and one page is *)
(* left to meet it open. A page of another host needs the same pool of two *)
(* browsers, and a promo page counts in the totals only. A launch failure  *)
(* leaves a pool of one.                                                   *)
EXTENDS ContentFetch

CONSTANTS p1, p2, p3, p4, p5, promo, h1, h2

MCPages == {p1, p2, p3, p4, p5, promo}
MCHosts == {h1, h2}
MCHostOf == [p \in MCPages |-> IF p \in {p5, promo} THEN h2 ELSE h1]
MCPromo == {promo}
=============================================================================
