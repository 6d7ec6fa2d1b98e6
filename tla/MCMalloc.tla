------------------------------ MODULE MCMalloc ------------------------------
(***************************************************************************)
(* Malloc with a 12-bit size_t and a handful of pages.                     *)
(***************************************************************************)
EXTENDS Malloc

\* One product that fits, one that wraps around to 2 bytes.
MCCalloc == {<<2, 30>>, <<3, 1366>>}

\* Three chunks of the first tree bin, each of one of three sizes.
MCPreludes == [1..3 -> {248, 312, 344}]
====
