------------------------------ MODULE DataRace ------------------------------
(***************************************************************************)
(* The data race detector: datarace.cc, and how librace.cc, cmodelint.cc   *)
(* and mymemory.cc call it.                                                *)
(*                                                                         *)
(* Every byte of memory has a shadow word that remembers the last write    *)
(* and the reads since, each as a thread and the clock of the last action  *)
(* of that thread.  A word holds one read and small clocks; other cases    *)
(* use a record on the heap.  A thread runs plain code only until its next *)
(* action, so plain accesses belong to the thread that acted last.         *)
(*                                                                         *)
(* Beside the detector the module keeps, as a reference, every access made *)
(* and the set of accesses that happen before each thread's next one.      *)
(***************************************************************************)
EXTENDS Naturals, FiniteSets, ClockVector

CONSTANTS
  Bytes,          \* the addresses, an interval of naturals
  Crossing,       \* the sets of bytes that cross from one base table of shadow words to the next
  Programs,       \* what programs do: their kinds of access, the sets of bytes an access
                  \* touches, their threads, and a bound on accesses
  MaxWriteVector, \* the largest clock a shadow word can hold (MAXWRITEVECTOR)
  InitCapacity,   \* reads a new record has room for (INITCAPACITY)
  MaxSeq          \* bound: actions of an execution

VARIABLES
  program,   \* the program under test
  cv,        \* thread -> clock vector of its last action
  seq,       \* sequence numbers used so far
  running,   \* the thread that acted last
  shadow,    \* byte -> shadow word or record
  reported,  \* the bytes a race was reported for
  accs,      \* reference: the accesses made so far
  seen,      \* reference: thread -> accesses that happen before its next one
  released,  \* reference: thread -> accesses that happen before its last action, or are it
  racy,      \* reference: the bytes with a race, between plain accesses or not
  missed     \* reference: those whose first race came with no report

vars == <<program, cv, seq, running, shadow, reported, accs, seen, released, racy, missed>>

\* Threads are numbered from 1; thread 1 is main and created the others
N == Cardinality(Thread)

Kinds == {"read", "write", "memread", "memwrite", "load", "store", "rmw", "cas", "failedcas"}

\* A positive number with no odd divisor but 1 (__builtin_popcount(n) <= 1)
PowerOfTwo(n) == n # 0 /\ \A d, q \in 1..n : n = d * q /\ d % 2 = 1 => d = 1

ASSUME ThreadAssumption == IsFiniteSet(Thread) /\ N >= 2 /\ Thread = 1..N
ASSUME BytesAssumption == Bytes \subseteq Nat
ASSUME ProgramAssumption ==
  \A p \in Programs : /\ p.kinds \subseteq Kinds
                      /\ p.threads \subseteq Thread
                      /\ \A R \in p.ranges : R # {} /\ R \subseteq Bytes
ASSUME CapacityAssumption == InitCapacity \in Nat /\ InitCapacity >= 2 /\ PowerOfTwo(InitCapacity)
ASSUME MaxWriteVectorAssumption == MaxWriteVector \in Nat

----------------------------------------------------------------------------
(* Shadow words and records.  A clock of zero stands for no access and     *)
(* never races; a word whose read clock is zero has no reads.  A record    *)
(* has at most one read of a thread, and their order is of no consequence. *)

Event(C, t) == [tid |-> t, clock |-> C[t]]

Word(reads, wt, wc, atomic) ==
  [full |-> FALSE, reads |-> reads, cap |-> 0, wt |-> wt, wc |-> wc, atomic |-> atomic]
Empty == Word({}, 0, 0, FALSE)

\* Clock vector C of thread t does not cover the event e of another thread
ClockMayRace(C, t, e) == e.tid # t /\ e.clock # 0 /\ C[e.tid] <= e.clock

LastWrite(s) == [tid |-> s.wt, clock |-> s.wc]

ExpandRecord(s) == [s EXCEPT !.full = TRUE, !.cap = IF s.reads # {} THEN InitCapacity ELSE 0]

RacesWithRead(C, t, s) == \E e \in s.reads : ClockMayRace(C, t, e)
RacesWithWrite(C, t, s) == ClockMayRace(C, t, LastWrite(s))

\* The clock does not fit in a word (thread ids beyond MAXTHREADID are treated
\* the same way, and left out)
TooLarge(C, t) == C[t] > MaxWriteVector

\* The word or record after a write by t: the reads are forgotten
Written(C, t, s, atomic) ==
  IF s.full \/ TooLarge(C, t)
  THEN [(IF s.full THEN s ELSE ExpandRecord(s)) EXCEPT !.reads = {}, !.wt = t, !.wc = C[t], !.atomic = atomic]
  ELSE Word({}, t, C[t], atomic)

CapacityPastFull(kept, cap) == IF kept = 0 /\ cap = 0 THEN InitCapacity ELSE IF kept > cap THEN 2 * kept ELSE cap

\* The size of a record's arrays when one more read is to join the kept ones: it
\* is looked at when their number is a power of two
Capacity(kept, cap) ==
  CASE kept = 0 /\ cap = 0 -> InitCapacity
    [] PowerOfTwo(kept) /\ kept >= InitCapacity -> 2 * kept
    [] OTHER -> cap

\* fullRaceCheckRead: the reads that this one covers are dropped
FullRead(C, t, s) ==
  LET kept == {e \in s.reads : ClockMayRace(C, t, e)}
  IN  [s EXCEPT !.reads = kept \cup {Event(C, t)}, !.cap = Capacity(Cardinality(kept), @)]

\* A word holds one read: a second one that does not cover it needs a record
Read(C, t, s) ==
  CASE s.full \/ TooLarge(C, t) -> FullRead(C, t, IF s.full THEN s ELSE ExpandRecord(s))
    [] ~(s.full \/ TooLarge(C, t)) /\ RacesWithRead(C, t, s) ->
         [ExpandRecord(s) EXCEPT !.reads = @ \cup {Event(C, t)}]
    [] OTHER -> Word({Event(C, t)}, s.wt, s.wc, s.atomic)

----------------------------------------------------------------------------
(* The checks of one byte: whether a race is reported, and the new shadow *)

\* memcpy, memmove, memset, bzero
IsMemop(kind) == kind \in {"memread", "memwrite"}

Result(race, s) == [race |-> race, s |-> s]

RaceCheckReadAny(C, t, s) == Result(RacesWithRead(C, t, s) \/ RacesWithWrite(C, t, s), Read(C, t, s))

RaceCheckRead(C, t, s) == Result(RacesWithWrite(C, t, s), Read(C, t, s))
RaceCheckWrite(C, t, s) == Result(RacesWithRead(C, t, s) \/ RacesWithWrite(C, t, s), Written(C, t, s, FALSE))
AtomRaceCheckRead(C, t, s) == Result(~s.atomic /\ RacesWithWrite(C, t, s), s)
AtomRaceCheckWrite(C, t, s) ==
  Result(~s.atomic /\ (RacesWithRead(C, t, s) \/ RacesWithWrite(C, t, s)), Written(C, t, s, TRUE))
RecordWrite(C, t, s) == Result(FALSE, Written(C, t, s, TRUE))

\* An RMW checks as a read and is recorded as a write; a CAS only records
RMWCheck(C, t, s) == Result(AtomRaceCheckRead(C, t, s).race, RecordWrite(C, t, s).s)

Check(kind, C, t, s) ==
  CASE kind \in {"read", "memread"} -> RaceCheckRead(C, t, s)
    [] kind \in {"write", "memwrite"} -> RaceCheckWrite(C, t, s)
    [] kind = "load" -> AtomRaceCheckRead(C, t, s)
    [] kind = "store" -> AtomRaceCheckWrite(C, t, s)
    [] kind = "rmw" -> RMWCheck(C, t, s)
    [] kind = "cas" -> RecordWrite(C, t, s)
    [] kind = "failedcas" -> Result(FALSE, s)

First(R) == CHOOSE a \in R : \A c \in R : a <= c

FastUnlessFull(kind, R, b, S, result) ==
  /\ kind \in {"read", "write"}
  /\ b # First(R)
  /\ ~result.s.full

\* A plain access of several bytes checks the first; as long as the next bytes
\* had the first one's old word they get its new word without a check.
Fast(kind, R, b, S, result) ==
  /\ kind \in {"read", "write"} /\ R \notin Crossing
  /\ b # First(R)
  /\ ~result.s.full
  /\ \A c \in R : c <= b => S[c] = S[First(R)]

\* A memory operation checks its first byte as often as it has bytes
CheckedBytes(kind, R) == IF IsMemop(kind) THEN {First(R)} ELSE R

\* The bytes reported, those whose race is reported with the first byte's, and
\* the new shadow memory
CheckBytes(kind, C, t, R, S) ==
  LET checked == CheckedBytes(kind, R)
      one == Check(kind, C, t, S[First(R)])
      result == [b \in checked |-> Check(kind, C, t, S[b])]
      fast == {b \in checked : Fast(kind, R, b, S, one)}
  IN  [races  |-> {b \in checked \ fast : result[b].race},
       shared |-> IF one.race THEN fast ELSE {},
       shadow |-> [b \in Bytes |-> IF b \in fast THEN one.s ELSE IF b \in checked THEN result[b].s ELSE S[b]]]

\* process_read turns the plain store at the access's address into an atomic
\* one, before the access is checked
SetAtomicStoreFlag(kind, R, S) ==
  IF kind # "store" THEN [S EXCEPT ![First(R)].atomic = TRUE] ELSE S

----------------------------------------------------------------------------
(* The reference: an access races with an earlier one of another thread to *)
(* the same byte that does not happen before it, when one of the two is a  *)
(* write and one is not atomic.                                            *)

IsPlain(kind) == kind \in {"read", "write"} \/ IsMemop(kind)
IsWrite(kind) == kind \in {"write", "memwrite", "store", "rmw", "cas"}

Races(kind, t, R, before) ==
  LET earlier == {a \in accs : /\ a.id \notin before
                               /\ a.byte \in R /\ a.tid # t
                               /\ IsWrite(a.kind) \/ IsWrite(kind)
                               /\ IsPlain(a.kind) \/ IsPlain(kind)}
  IN  {[byte |-> a.byte, plain |-> IsPlain(a.kind) /\ IsPlain(kind)] : a \in earlier}

Record(kind, t, R, id) == accs' = accs \cup {[id |-> id, tid |-> t, byte |-> b, kind |-> kind] : b \in R}

----------------------------------------------------------------------------
Init ==
  /\ program \in Programs
  /\ cv = [t \in Thread |-> [u \in Thread |-> CASE t = 1 /\ u = 1 -> 2 * N - 2
                                            [] t # 1 /\ u = 1 -> 2 * t - 2
                                            [] t # 1 /\ u = t -> 2 * t - 1
                                            [] OTHER -> 0]]
  /\ seq = 2 * N - 1
  /\ running = 1
  /\ shadow = [b \in Bytes |-> Empty]
  /\ reported = {} /\ racy = {} /\ missed = {}
  /\ accs = {}
  /\ seen = [t \in Thread |-> {}]
  /\ released = [t \in Thread |-> {}]

\* The next action of t, with clock vector C from what it synchronises with
Act(t, C) ==
  /\ seq < MaxSeq
  /\ seq' = seq + 1
  /\ cv' = [cv EXCEPT ![t] = [C EXCEPT ![t] = seq + 1]]
  /\ running' = t

\* t synchronises with the last action of u (with u = t: with nothing)
Synchronise(t, u) ==
  LET s == seen[t] \cup released[u]
  IN  /\ Act(t, Merge(cv[t], cv[u]))
      /\ seen' = [seen EXCEPT ![t] = s]
      /\ released' = [released EXCEPT ![t] = s]
      /\ UNCHANGED <<program, shadow, reported, accs, racy, missed>>

\* What an access by t of the bytes R with clock vector C reports and leaves
\* (assert_race prints the race), and what the reference says of it
Apply(kind, t, R, C, S) ==
  LET result == CheckBytes(kind, C, t, R, S)
      races == Races(kind, t, R, seen[t])
      id == Cardinality({a.id : a \in accs}) + 1
  IN  /\ id <= program.accesses
      /\ shadow' = result.shadow
      /\ reported' = reported \cup result.races
      /\ racy' = racy \cup races
      /\ missed' = missed \cup {r \in races \ racy : r.byte \notin result.races \cup result.shared}
      /\ Record(kind, t, R, id)
      /\ seen' = [seen EXCEPT ![t] = @ \cup {id}]
      /\ UNCHANGED program

\* cds_load*, cds_store*, memcpy, memmove, memset, bzero
PlainAccess(kind, R) ==
  /\ IsPlain(kind)
  /\ Apply(kind, running, R, cv[running], shadow)
  /\ UNCHANGED <<cv, seq, running, released>>

\* cds_atomic_*: the action, then the check with the action's clock vector
AtomicAccess(kind, t, R) ==
  /\ ~IsPlain(kind)
  /\ Act(t, cv[t])
  /\ Apply(kind, t, R, cv'[t], SetAtomicStoreFlag(kind, R, shadow))
  /\ released' = [released EXCEPT ![t] = seen'[t]]

Next ==
  \/ \E t, u \in program.threads : Synchronise(t, u)
  \/ \E kind \in program.kinds, R \in program.ranges : PlainAccess(kind, R)
  \/ \E kind \in program.kinds, t \in program.threads, R \in program.ranges : AtomicAccess(kind, t, R)

Spec == Init /\ [][Next]_vars

----------------------------------------------------------------------------
(* Properties *)

\* What is checked and proved is about programs in which plain accesses do not
\* meet atomic writes: the detector gives a wrong answer for others
NoAtomicWrites(p) == p.kinds \cap {"store", "rmw", "cas"} = {}
NoPlainAccesses(p) == \A kind \in p.kinds : ~IsPlain(kind)
NoMemops(p) == \A kind \in p.kinds : ~IsMemop(kind)

\* Sound: a byte is reported only if two accesses to it really race, that is,
\* clock_may_race answers true only of accesses that are not ordered by
\* happens-before.
NoFalseRace == \A b \in reported : \E r \in racy : r.byte = b

\* Complete for plain accesses: the first race between two of them on a byte is
\* reported when the second is made, for that byte or for the first byte of the
\* access if the two share a check (raceCheckRead*, raceCheckWrite*).  A word
\* keeps one read, reads that are covered by a later one are dropped, and
\* atomic loads mark words in between.
PlainRacesReported == \A r \in missed : ~r.plain

\* Complete: the same with races between a plain and an atomic access, which
\* atomraceCheckRead and atomraceCheckWrite look for (datarace.cc:547).
NoMissedRace == missed = {}

\* Whatever the checks keep of an access fits where they put it: a packed word
\* holds one read, and clocks that its bit fields can hold, and
\* fullRaceCheckRead never writes past the arrays of a record, although it
\* looks at their size only when the number of reads kept is a power of two.
ShadowFits ==
  \A b \in Bytes :
    LET s == shadow[b]
    IN  \/ s.full /\ Cardinality(s.reads) <= s.cap
        \/ ~s.full /\ Cardinality(s.reads) <= 1 /\ {s.wc} \cup {e.clock : e \in s.reads} \subseteq 0..MaxWriteVector
=============================================================================
