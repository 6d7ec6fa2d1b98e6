----------------------------- MODULE MCDataRace -----------------------------
(* Small programs for the race detector *)
EXTENDS DataRace

Threads4 == 1..4
ThreeBytes == 0..2
EachAndBoth == {{0}, {1}, {0, 1}}
CrossingPair == {{1, 2}}

Program(kinds, ranges, n, accesses) ==
  [kinds |-> kinds, ranges |-> ranges, threads |-> 1..n, accesses |-> accesses]

\* Plain accesses of one byte by three threads; of two bytes, with atomic loads
\* and failed compare-and-swaps, by two; of two bytes in two base tables; many readers; atomic accesses alone
SoundPrograms ==
  {Program({"read", "write"}, {{0}}, 3, 4),
   Program({"read", "write", "load", "failedcas"}, {{1}, {0, 1}}, 2, 3),
   Program({"read", "write"}, {{2}, {1, 2}}, 2, 3),
   Program({"read"}, {{0}}, 4, 4),
   Program({"load", "store", "rmw", "cas", "failedcas"}, {{0}}, 3, 4)}

\* These programs are among those that the theorems are about
ASSUME SoundProgramsAssumption ==
  \A p \in SoundPrograms : NoMemops(p) /\ (NoAtomicWrites(p) \/ NoPlainAccesses(p))

\* A plain write and an atomic load of one byte
WriteAndLoad == {Program({"write", "load"}, {{0}}, 2, 2)}

\* Atomic stores and plain reads of one byte
StoreAndRead == {Program({"store", "read"}, {{0}}, 2, 3)}

\* Memory operations on two bytes
Memops == {Program({"memwrite", "read"}, EachAndBoth, 2, 2)}

\* Programs on which the detector disagrees with its documents
Disagreements == WriteAndLoad \cup StoreAndRead \cup Memops
=============================================================================
