------------------------------ MODULE MCBench ------------------------------
(***************************************************************************)
(* One pin, and pins that normalize_pins refuses.                          *)
(***************************************************************************)
EXTENDS BenchSafety

SomePins == {<<13>>, <<0>>, <<42>>, <<7, 7>>}
NoneOrOne == {0, 1}
=============================================================================
