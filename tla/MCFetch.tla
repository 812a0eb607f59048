------------------------------- MODULE MCFetch ------------------------------
(* Fetch for small files: one byte, and one that ends with a zero byte and  *)
(* fills no whole number of blocks.                                         *)
EXTENDS Fetch

SmallFiles == {<<7>>, <<7, 8, 0>>}
=============================================================================
