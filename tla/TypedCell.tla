----------------------------- MODULE TypedCell -----------------------------
(***************************************************************************)
(* What an atomic variable of a C type promises: a modification order of   *)
(* values of the type, from which threads read without going back, and     *)
(* read-modify-writes that each take a store of their own and add the next *)
(* value directly behind it.                                               *)
(***************************************************************************)
EXTENDS Integers, Sequences, SequencesExt, FiniteSetsExt

CONSTANTS Thread, ByteValues, MaxStores

VARIABLES type, cell, seen, result

cellvars == <<type, cell, seen, result>>

Modulus == IF type.bool THEN 2 ELSE ByteValues^type.bytes
Low == IF type.signed THEN -(Modulus \div 2) ELSE 0
InRange(v) == v >= Low /\ v < Low + Modulus

\* The value of the type congruent to n.
Wrapped(n) == Low + ((n - Low) % Modulus)

Bits == {i \in 0..30 : 2^i < Modulus}
Bit(v, i) == (v \div 2^i) % 2
Bitwise(F(_, _), a, b) ==
    Wrapped(MapThenSumSet(LAMBDA i : 2^i * F(Bit(a, i), Bit(b, i)), Bits))

Result(op, a, b) ==
    CASE op = "=" -> b
      [] op = "set" -> 1
      [] op = "add" -> Wrapped(a + b)
      [] op = "sub" -> Wrapped(a - b)
      [] op = "and" -> Bitwise(LAMBDA x, y : x * y, a, b)
      [] op = "or" -> Bitwise(LAMBDA x, y : x + y - x * y, a, b)
      [] op = "xor" -> Bitwise(LAMBDA x, y : (x + y) % 2, a, b)

CellInit ==
    /\ Len(cell) = 1 /\ ~cell[1].taken /\ InRange(cell[1].val)
    /\ seen = [t \in Thread |-> 1]
    /\ result = [op |-> "none", val |-> 0, ok |-> TRUE]

Answer(op, val, ok) == result' = [op |-> op, val |-> val, ok |-> ok]

\* Read the i-th value and change nothing.
Read(t, i) ==
    /\ i >= seen[t]
    /\ seen' = [seen EXCEPT ![t] = i]
    /\ \/ Answer("load", cell[i].val, TRUE)
       \/ Answer("cas", cell[i].val, FALSE)
    /\ UNCHANGED <<type, cell>>

Write(t, v) ==
    /\ InRange(v)
    /\ cell' = Append(cell, [val |-> v, taken |-> FALSE])
    /\ seen' = [seen EXCEPT ![t] = Len(cell) + 1]
    /\ Answer("store", v, TRUE)
    /\ UNCHANGED type

\* Take the i-th value, which no other read-modify-write has taken, and put
\* v directly behind it.
Take(t, i, v) ==
    /\ i >= seen[t] /\ ~cell[i].taken /\ InRange(v)
    /\ cell' = InsertAt([cell EXCEPT ![i].taken = TRUE], i + 1, [val |-> v, taken |-> FALSE])
    /\ seen' = [u \in Thread |-> IF u = t THEN i + 1 ELSE IF seen[u] > i THEN seen[u] + 1 ELSE seen[u]]
    /\ UNCHANGED type

CellNext ==
    \E t \in Thread :
        \/ \E i \in DOMAIN cell : Read(t, i)
        \/ Len(cell') > Len(cell) /\ Write(t, Last(cell').val)
        \/ \E i \in DOMAIN cell :
             /\ Len(cell') > Len(cell)
             /\ Take(t, i, cell'[i + 1].val)
             /\ \/ \* compare-and-swap of the value it expected
                   Answer("cas", cell[i].val, TRUE)
                \/ \* an operation on some operand, which answers old or new
                   /\ \E b \in {Wrapped(n) : n \in {0, 1, -1, Modulus \div 2}} :
                        cell'[i + 1].val = Result(result'.op, cell[i].val, b)
                   /\ \/ Answer(result'.op, cell[i].val, TRUE)
                      \/ type.compound = "new" /\ Answer(result'.op, cell'[i + 1].val, TRUE)

Spec == CellInit /\ [][CellNext]_cellvars
====
