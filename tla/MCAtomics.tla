----------------------------- MODULE MCAtomics -----------------------------
(***************************************************************************)
(* Atomics with bytes of two bits: char has 4 values, long 65536.          *)
(***************************************************************************)
EXTENDS Atomics

\* Every type once or more, from a word whose low byte is zero and one whose
\* bytes are all ones; for the boolean types only words without neighbours.
MCStarts ==
    ({atomic_char, atomic_short, atomic_uint, atomic_long, atomic_llong} \X {ByteValues})
        \cup ({atomic_uchar, atomic_ushort, atomic_int, atomic_ulong, atomic_address,
                atomic_schar, atomic_ullong, atomic_wchar_t, atomic(2, TRUE)} \X {Word - 1})
        \cup ({atomic_flag, atomic_bool} \X {0})

\* A cleared flag followed by a byte that is not zero.
MCNeighbour == {<<atomic_flag, ByteValues>>}
====
