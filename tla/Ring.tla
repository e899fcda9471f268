-------------------------------- MODULE Ring -------------------------------
(***************************************************************************)
(* The rings of the program: N slots, an index where the writer goes on    *)
(* and one where the reader goes on, both moved by ++ and & ~N.  A ring is *)
(* empty when the indices are equal, and nothing tells a full ring from an *)
(* empty one.                                                              *)
(***************************************************************************)
EXTENDS Naturals

CONSTANT N          \* slots, a power of two (NET_RXBUFNB, NET_TXBUFNB, RTP_BUF_NUM)

ASSUME RingAssumption == N \in Nat \ {0, 1}

Slot == 0..(N - 1)

(* ++ and & ~N.                                                            *)
AfterShort(i) == IF i + 1 >= N - 1 THEN 0 ELSE i + 1   \* mutant: a wrong mask
AfterWide(i) == IF i = N THEN 0 ELSE i + 1             \* mutant: a wrong mask
After(i) == IF i = N - 1 THEN 0 ELSE i + 1

(* The slots from i up to, and without, j.                                 *)
Ahead(i, j) == IF i <= j THEN j - i ELSE (j + N) - i

(* The slot k places further than i.                                       *)
Further(i, k) == IF i + k < N THEN i + k ELSE (i + k) - N
=============================================================================
