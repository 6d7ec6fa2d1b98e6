------------------------------ MODULE Atomics ------------------------------
(***************************************************************************)
(* The front end of the atomics on one atomic variable: the functions the  *)
(* compiler pass calls (cds_atomic_*, cmodelint.cc), whose types are the   *)
(* unsigned integers of 1, 2, 4 and 8 bytes; atomic_flag (impatomic.cc);   *)
(* and the C types of include/impatomic.h.  The execution underneath       *)
(* (execution.cc) only knows 64-bit words and the size a compare-and-swap  *)
(* passes; the front end converts the typed operand to a word, the word it *)
(* reads back to the type, and decides by a typed comparison whether a     *)
(* compare-and-swap succeeded.                                             *)
(*                                                                         *)
(* store is the modification order of the variable.  Its first entry is    *)
(* what convertNonAtomicStore makes of the initial contents: the eight     *)
(* bytes at the address, of which the variable may be only the first.      *)
(* Memory orders are left out: the front end hands them to the execution   *)
(* unchanged, which Execution models.  The race checks that follow an      *)
(* operation are in DataRace.  The read and the write half of a            *)
(* read-modify-write are one step: the scheduler runs no other thread in   *)
(* between (Scheduler).                                                    *)
(***************************************************************************)
EXTENDS Integers, Sequences, SequencesExt, Bitwise

CONSTANTS
    Thread,
    ByteValues,      \* values of a byte, 256 in the program
    Starts,          \* pairs <<type, initial word>>
    MaxStores        \* bound on the length of the modification order

ASSUME ByteAssumption == ByteValues \in Nat \ {0, 1}

Word == ByteValues^8

(***************************************************************************)
(* The types.  fetch: the read-modify-write functions the type has.        *)
(* compound: what its operators += etc. return.                            *)
(***************************************************************************)
Integral(bytes, signed) ==
    [bytes |-> bytes, signed |-> signed, bool |-> FALSE,
     fetch |-> {"add", "sub", "and", "or", "xor"}, compound |-> "new"]

atomic_flag == [bytes |-> 1, signed |-> FALSE, bool |-> TRUE, fetch |-> {"set"}, compound |-> "none"]
atomic_bool == [bytes |-> 1, signed |-> FALSE, bool |-> TRUE, fetch |-> {}, compound |-> "none"]
atomic_address == [bytes |-> 8, signed |-> FALSE, bool |-> FALSE,
                   fetch |-> {"add", "sub"}, compound |-> "old"]
atomic_char == Integral(1, TRUE)
atomic_schar == Integral(1, TRUE)
atomic_uchar == Integral(1, FALSE)
atomic_short == Integral(2, TRUE)
atomic_ushort == Integral(2, FALSE)
atomic_int == Integral(4, TRUE)
atomic_uint == Integral(4, FALSE)
atomic_long == Integral(8, TRUE)
atomic_ulong == Integral(8, FALSE)
atomic_llong == Integral(8, TRUE)
atomic_ullong == Integral(8, FALSE)
atomic_wchar_t == Integral(4, TRUE)
atomic(bytes, signed) == [Integral(bytes, signed) EXCEPT !.fetch = {}, !.compound = "none"]

(***************************************************************************)
(* Conversions between a type and the words of the execution.              *)
(***************************************************************************)
Values(T) == ByteValues^T.bytes

ToWord(v) == v % Word

Cast(T, w) ==
    LET low == w % Values(T)
    IN CASE T.bool -> IF w = 0 THEN 0 ELSE 1
         [] ~T.bool /\ T.signed /\ 2 * low >= Values(T) -> low - Values(T)
         [] OTHER -> low

\* The C operator of a read-modify-write, its result converted to the type.
Apply(T, op, a, b) ==
    Cast(T, CASE op = "=" -> ToWord(b)
              [] op = "set" -> 1
              [] op = "add" -> ToWord(a + b)
              [] op = "sub" -> ToWord(a - b)
              [] op = "and" -> ToWord(a) & ToWord(b)
              [] op = "or" -> ToWord(a) | ToWord(b)
              [] op = "xor" -> ToWord(a) ^^ ToWord(b))

\* Mutant: words are compared as they are.
valequals_wide(val1, val2, size) == val1 = val2

valequals(val1, val2, size) == val1 % ByteValues^size = val2 % ByteValues^size

VARIABLES
    type,     \* the type of the variable
    store,    \* its modification order: [val: word, rmw: read by an RMW]
    seen,     \* the latest store each thread has seen
    result    \* what the last operation returned

vars == <<type, store, seen, result>>

Init ==
    /\ \E s \in Starts : type = s[1] /\ store = <<[val |-> s[2], rmw |-> FALSE]>>
    /\ seen = [t \in Thread |-> 1]
    /\ result = [op |-> "none", val |-> 0, ok |-> TRUE]

IsFlag(T) == "set" \in T.fetch

\* atomic_flag takes no operand: clear stores false.
Operands(T) == IF IsFlag(T) THEN {0} ELSE {Cast(T, w) : w \in {0, 1, Word - 1, Values(T) \div 2}}

Returns(op, val, ok) == result' = [op |-> op, val |-> val, ok |-> ok]

\* build_may_read_from: a store an RMW has read is left out for an RMW, and
\* for a compare-and-swap that would succeed on it.
Readable(t, i, excluded) == i >= seen[t] /\ ~(store[i].rmw /\ excluded)

\* The store of an RMW goes right behind the store it read.
InsertAfter(t, i, word) ==
    /\ Len(store) < MaxStores
    /\ store' = InsertAt([store EXCEPT ![i].rmw = TRUE], i + 1, [val |-> word, rmw |-> FALSE])
    /\ seen' = [u \in Thread |-> IF u = t THEN i + 1 ELSE IF seen[u] > i THEN seen[u] + 1 ELSE seen[u]]

Load(t) ==
    \E i \in DOMAIN store :
        /\ Readable(t, i, FALSE)
        /\ seen' = [seen EXCEPT ![t] = i]
        /\ Returns("load", Cast(type, store[i].val), TRUE)
        /\ UNCHANGED <<type, store>>

\* atomic_store, atomic_init and operator=, which returns its operand.
Store(t, v) ==
    /\ Len(store) < MaxStores
    /\ store' = Append(store, [val |-> ToWord(v), rmw |-> FALSE])
    /\ seen' = [seen EXCEPT ![t] = Len(store) + 1]
    /\ Returns("store", v, TRUE)
    /\ UNCHANGED type

\* atomic_exchange and atomic_fetch_*, and in the compound form the
\* operators ++, --, +=, -=, &=, |= and ^=, which repeat the operation on
\* the value fetch_* returned.
Modify(t, op, v, compound) ==
    \E i \in DOMAIN store :
        LET old == Cast(type, store[i].val)
        IN /\ Readable(t, i, TRUE)
           /\ InsertAfter(t, i, ToWord(Apply(type, op, old, v)))
           /\ Returns(op, IF compound /\ type.compound = "new" THEN Apply(type, op, old, v) ELSE old,
                      TRUE)
           /\ UNCHANGED type

\* compare_exchange, weak and strong alike.  It reports the value read.
CmpSwp(t, expected, v) ==
    \E i \in DOMAIN store :
        LET old == Cast(type, store[i].val)
        IN /\ Readable(t, i, valequals(ToWord(expected), store[i].val, type.bytes))
           /\ UNCHANGED type
           /\ \/ /\ old = expected
                 /\ InsertAfter(t, i, ToWord(v))
                 /\ Returns("cas", expected, TRUE)
              \/ /\ old # expected
                 /\ seen' = [seen EXCEPT ![t] = i]
                 /\ Returns("cas", old, FALSE)
                 /\ UNCHANGED store

Next ==
    \E t \in Thread :
        \/ ~IsFlag(type) /\ Load(t)
        \/ \E v \in Operands(type) :
            \/ Store(t, v)
            \/ ~IsFlag(type) /\ Modify(t, "=", v, FALSE)
            \/ \E op \in type.fetch : Modify(t, op, v, FALSE)
            \/ \E op \in type.fetch : type.compound # "none" /\ Modify(t, op, v, TRUE)
            \/ \E e \in Operands(type) : ~IsFlag(type) /\ CmpSwp(t, e, v)

Spec == Init /\ [][Next]_vars

(***************************************************************************)
(* Properties.                                                             *)
(***************************************************************************)
typed == INSTANCE TypedCell WITH
    cell <- [i \in DOMAIN store |-> [val |-> Cast(type, store[i].val), taken |-> store[i].rmw]]

\* The front end and the execution together implement a variable of the C type
\* (TypedCell): every value read is a value of the type that was stored,
\* arithmetic is modulo the width of the type, operators return the new
\* value, and of the stores at most one read-modify-write takes each, which
\* needs the execution's masked comparison of words (valequals) to decide as
\* the front end's typed comparison does, whatever bytes follow the variable.
ImplementsType == typed!Spec

\* The first test-and-set of an atomic_flag whose own byte is zero
\* ("#define ATOMIC_FLAG_INIT { false }", impatomic.h) finds it clear,
\* whatever bytes follow it in memory.
ClearFlagIsClear ==
    Len(store) = 2 /\ result.op = "set" /\ store[1].val % ByteValues = 0 => result.val = 0
====
