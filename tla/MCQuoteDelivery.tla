---------------------------- MODULE MCQuoteDelivery ----------------------------
(* Two tabs whose pages may be left and opened again: one of them alone may *)
(* save two quotes, both together one.  Of what the user may enter the      *)
(* server refuses b.                                                        *)
EXTENDS QuoteDelivery, TLC

CONSTANTS a, b, t1, t2
=============================================================================
