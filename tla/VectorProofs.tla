---------------------------- MODULE VectorProofs ----------------------------
(***************************************************************************)
(* The vectors of stl-model.h implement a sequence, for every initial      *)
(* capacity and any number of elements.                                    *)
(*                                                                         *)
(* The array is never empty and never shorter than the size; this is all   *)
(* that each call needs.  What lies beyond the size is arbitrary.          *)
(***************************************************************************)
EXTENDS Vector, FiniteSetTheorems, SequenceTheorems, TLAPS

Elem == Val \cup {Zero, Garbage}

\* The elements (the refinement mapping)
Elems == [i \in 1..size |-> array[i - 1]]

\* The array covers the size (resize and push_back, stl-model.h:382)
Covers ==
  /\ size \in Nat
  /\ \E c \in Nat \ {0} : size <= c /\ array \in [0..c - 1 -> Elem]

\* Cardinality counts the cells of an array
LEMMA CapacityOf ==
  ASSUME NEW c \in Nat, NEW A \in [0..c - 1 -> Elem]
  PROVE  Cardinality(DOMAIN A) = c
<1>1. Cardinality(0..c - 1) = IF 0 > c - 1 THEN 0 ELSE (c - 1) - 0 + 1
  BY FS_Interval
<1> QED
  BY <1>1

\* realloc keeps the cells there were (stl-model.h:385)
LEMMA ReallocCells ==
  ASSUME NEW c \in Nat, NEW d \in Nat, c <= d, NEW A \in [0..c - 1 -> Elem]
  PROVE  /\ Realloc(A, d) \in [0..d - 1 -> Elem]
         /\ \A i \in 0..c - 1 : Realloc(A, d)[i] = A[i]
  BY DEF Realloc, Elem

\* resize to more elements clears exactly the cells that are gained
LEMMA ResizedCells ==
  ASSUME Covers, NEW n \in Nat
  PROVE  \E d \in Nat \ {0} :
           /\ size <= d /\ n <= d
           /\ ResizedTo(n) \in [0..d - 1 -> Elem]
           /\ \A i \in 0..d - 1 : /\ i < size => ResizedTo(n)[i] = array[i]
                                  /\ size <= i /\ i < n => ResizedTo(n)[i] = Zero
<1>1. PICK c \in Nat \ {0} : size <= c /\ array \in [0..c - 1 -> Elem]
  BY Zenon DEF Covers
<1>2. Cardinality(DOMAIN array) = c
  BY <1>1, CapacityOf, Zenon
<1>3. size \in Nat
  BY Zenon DEF Covers
<1>4. CASE n <= size
  BY <1>1, <1>3, <1>4 DEF ResizedTo
<1>5. CASE size < n /\ n <= c
  <2>1. ResizedTo(n) = [i \in 0..c - 1 |-> IF size <= i /\ i < n THEN Zero ELSE array[i]]
    BY <1>1, <1>2, <1>3, <1>5 DEF ResizedTo, Resized
  <2>2. ResizedTo(n) \in [0..c - 1 -> Elem]
    BY <1>1, <2>1, Zenon DEF Elem
  <2>3. \A i \in 0..c - 1 : /\ i < size => ResizedTo(n)[i] = array[i]
                            /\ size <= i /\ i < n => ResizedTo(n)[i] = Zero
    BY <1>3, <2>1
  <2> WITNESS c \in Nat \ {0}
  <2> QED
    BY <1>1, <1>5, <2>2, <2>3, Zenon
<1>6. CASE size < n /\ c < n
  <2> DEFINE B == Realloc(array, 2 * n)
  <2>1. B \in [0..2 * n - 1 -> Elem] /\ \A i \in 0..c - 1 : B[i] = array[i]
    BY <1>1, <1>6, ReallocCells
  <2> HIDE DEF B
  <2>2. ResizedTo(n) = [i \in 0..2 * n - 1 |-> IF size <= i /\ i < n THEN Zero ELSE B[i]]
    <3>1. ResizedTo(n) = [i \in DOMAIN B |-> IF size <= i /\ i < n THEN Zero ELSE B[i]]
      BY <1>2, <1>3, <1>6 DEF ResizedTo, Resized, B
    <3> QED
      BY <2>1, <3>1, Zenon
  <2>3. ResizedTo(n) \in [0..2 * n - 1 -> Elem]
    BY <2>1, <2>2, Zenon DEF Elem
  <2>4. 2 * n \in Nat \ {0} /\ size <= 2 * n /\ n <= 2 * n
    BY <1>3, <1>6
  <2>5. \A i \in 0..2 * n - 1 : /\ i < size => ResizedTo(n)[i] = array[i]
                                /\ size <= i /\ i < n => ResizedTo(n)[i] = Zero
    BY <1>1, <1>3, <2>1, <2>2
  <2> QED
    BY <2>3, <2>4, <2>5, Zenon
<1> QED
  BY <1>1, <1>3, <1>4, <1>5, <1>6

-----------------------------------------------------------------------------
(* Sequences *)

\* The elements are a sequence as long as the size
LEMMA ElemsSeq ==
  ASSUME Covers
  PROVE  /\ Elems \in Seq(Elem) /\ Len(Elems) = size
         /\ \A i \in 1..size : Elems[i] = array[i - 1]
<1>1. Elems \in [1..size -> Elem]
  BY DEF Covers, Elems
<1>2. Elems \in Seq(Elem)
  BY <1>1, SeqDef DEF Covers
<1>3. Len(Elems) = size
  BY <1>1, <1>2, LenProperties DEF Covers
<1> QED
  BY <1>2, <1>3, Zenon DEF Elems

\* All elements but the last, index by index
LEMMA FrontCells ==
  ASSUME NEW T, NEW s \in Seq(T), Len(s) > 0
  PROVE  SubSeq(s, 1, Len(s) - 1) = [i \in 1..Len(s) - 1 |-> s[i]]
<1>1. Len(s) \in Nat /\ \A i \in 1..Len(s) : s[i] \in T
  BY LenProperties, ElementOfSeq, Zenon
<1> QED
  BY <1>1

\* A sequence and one more element, index by index
LEMMA AppendCells ==
  ASSUME NEW T, NEW s \in Seq(T), NEW v \in T
  PROVE  Append(s, v) = [k \in 1..Len(s) + 1 |-> IF k = Len(s) + 1 THEN v ELSE s[k]]
<1>1. /\ Append(s, v) \in Seq(T) /\ Len(Append(s, v)) = Len(s) + 1
      /\ \A k \in 1..Len(s) : Append(s, v)[k] = s[k]
      /\ Append(s, v)[Len(s) + 1] = v
  BY AppendProperties
<1>2. Len(s) \in Nat
  BY LenProperties, Zenon
<1>3. Append(s, v) \in [1..Len(s) + 1 -> T]
  BY <1>1, LenProperties, Zenon
<1>4. \A k \in 1..Len(s) + 1 : Append(s, v)[k] = IF k = Len(s) + 1 THEN v ELSE s[k]
  BY <1>1, <1>2
<1> QED
  BY <1>3, <1>4, Zenon

\* What each call does to a sequence, without the distinction of cases
LEMMA Effects ==
  ASSUME NEW s, NEW i, NEW v, NEW n
  PROVE  /\ S!Effect(<<"push_back", v>>, s) = Append(s, v)
         /\ S!Effect(<<"pop_back">>, s) = SubSeq(s, 1, Len(s) - 1)
         /\ S!Effect(<<"clear">>, s) = <<>>
         /\ S!Effect(<<"insert", i, v>>, s) = S!Inserted(s, i + 1, v)
         /\ S!Effect(<<"erase", i>>, s) = S!Removed(s, i + 1)
         /\ S!Effect(<<"resize", n>>, s) = S!Grow(s, n)
         /\ S!Effect(<<"set", i, v>>, s) = [s EXCEPT ![i + 1] = v]
         /\ S!Effect(<<"setExpand", i, v>>, s) =
              [S!Grow(s, IF i < Len(s) THEN Len(s) ELSE i + 1) EXCEPT ![i + 1] = v]
         /\ S!Effect(<<"remove", v>>, s) =
              IF \E k \in 1..Len(s) : s[k] = v THEN S!Removed(s, S!First(s, v)) ELSE s
  BY Zenon DEF S!Effect

-----------------------------------------------------------------------------
(* The calls *)

\* pop_back only changes the size
LEMMA PopBack == Covers /\ pop_back => Covers' /\ Elems' = S!Effect(call', Elems)
<1> SUFFICES ASSUME Covers, pop_back PROVE Covers' /\ Elems' = S!Effect(call', Elems)
  BY Zenon
<1>1. Covers'
  BY DEF Covers, pop_back
<1>2. Elems' = [i \in 1..size - 1 |-> array[i - 1]]
  BY Zenon DEF pop_back, Elems
<1>3. SubSeq(Elems, 1, Len(Elems) - 1) = [i \in 1..size - 1 |-> Elems[i]]
  <2>1. Elems \in Seq(Elem) /\ Len(Elems) = size /\ size > 0
    BY ElemsSeq, Zenon DEF pop_back
  <2> QED
    BY <2>1, FrontCells, Zenon
<1>4. S!Effect(call', Elems) = SubSeq(Elems, 1, Len(Elems) - 1)
  BY Effects, Zenon DEF pop_back
<1>5. size \in Nat /\ \A i \in 1..size : Elems[i] = array[i - 1]
  BY ElemsSeq, Zenon DEF Covers
<1> QED
  BY <1>1, <1>2, <1>3, <1>4, <1>5

\* clear only changes the size
LEMMA Clear == Covers /\ clear => Covers' /\ Elems' = S!Effect(call', Elems)
<1> SUFFICES ASSUME Covers, clear PROVE Covers' /\ Elems' = S!Effect(call', Elems)
  BY Zenon
<1>1. Covers'
  BY DEF Covers, clear
<1>2. Elems' = <<>>
  BY DEF clear, Elems
<1> QED
  BY <1>1, <1>2, Effects, Zenon DEF clear

\* set stores into one of the elements
LEMMA Set ==
  ASSUME Covers, NEW i \in Nat, NEW v \in Val, set(i, v)
  PROVE  Covers' /\ Elems' = S!Effect(call', Elems)
<1>1. PICK c \in Nat \ {0} : size <= c /\ array \in [0..c - 1 -> Elem]
  BY Zenon DEF Covers
<1>2. size \in Nat /\ i < size /\ size' = size /\ array' = [array EXCEPT ![i] = v]
  BY Zenon DEF Covers, set
<1>3. array' \in [0..c - 1 -> Elem] /\ \A j \in 0..c - 1 : array'[j] = IF j = i THEN v ELSE array[j]
  BY <1>1, <1>2, Zenon DEF Elem
<1>4. Covers' /\ Elems' = [k \in 1..size |-> array'[k - 1]]
  BY <1>1, <1>2, <1>3, Zenon DEF Covers, Elems
<1>5. S!Effect(call', Elems) = [k \in 1..size |-> IF k = i + 1 THEN v ELSE array[k - 1]]
  <2>1. S!Effect(call', Elems) = [Elems EXCEPT ![i + 1] = v]
    <3>1. call' = <<"set", i, v>>
      BY Zenon DEF set
    <3>2. S!Effect(<<"set", i, v>>, Elems) = [Elems EXCEPT ![i + 1] = v]
      BY Zenon DEF S!Effect
    <3> QED
      BY <3>1, <3>2, Zenon
  <2>2. [Elems EXCEPT ![i + 1] = v] = [k \in 1..size |-> IF k = i + 1 THEN v ELSE array[k - 1]]
    BY <1>2, Zenon DEF Elems
  <2> QED
    BY <2>1, <2>2, Zenon
<1>6. \A k \in 1..size : array'[k - 1] = IF k = i + 1 THEN v ELSE array[k - 1]
  BY <1>1, <1>2, <1>3
<1> QED
  BY <1>4, <1>5, <1>6, Zenon

\* resize, to fewer elements or to more
LEMMA Resize ==
  ASSUME Covers, NEW n \in Nat, resize(n)
  PROVE  Covers' /\ Elems' = S!Effect(call', Elems)
<1>1. PICK d \in Nat \ {0} :
           /\ size <= d /\ n <= d
           /\ ResizedTo(n) \in [0..d - 1 -> Elem]
           /\ \A i \in 0..d - 1 : /\ i < size => ResizedTo(n)[i] = array[i]
                                  /\ size <= i /\ i < n => ResizedTo(n)[i] = Zero
  BY ResizedCells, Zenon
<1>2. size \in Nat /\ size' = n /\ array' = ResizedTo(n) /\ call' = <<"resize", n>>
  BY Zenon DEF Covers, resize
<1>3. Covers' /\ Elems' = [k \in 1..n |-> array'[k - 1]]
  BY <1>1, <1>2, Zenon DEF Covers, Elems
<1>4. S!Effect(call', Elems) = [k \in 1..n |-> IF k <= size THEN Elems[k] ELSE Zero]
  <2>1. S!Effect(call', Elems) = S!Grow(Elems, n)
    BY <1>2, Effects, Zenon
  <2>2. Len(Elems) = size
    BY ElemsSeq, Zenon
  <2> QED
    BY <2>1, <2>2, Zenon DEF S!Grow
<1>5. \A k \in 1..n : array'[k - 1] = IF k <= size THEN array[k - 1] ELSE Zero
  BY <1>1, <1>2
<1>6. \A k \in 1..size : Elems[k] = array[k - 1]
  BY ElemsSeq, Zenon
<1> QED
  BY <1>2, <1>3, <1>4, <1>5, <1>6

\* push_back doubles the array when it is full
LEMMA PushBack ==
  ASSUME Covers, NEW v \in Val, push_back(v)
  PROVE  Covers' /\ Elems' = S!Effect(call', Elems)
<1>1. PICK c \in Nat \ {0} : size <= c /\ array \in [0..c - 1 -> Elem]
  BY Zenon DEF Covers
<1>2. capacity = c
  BY <1>1, CapacityOf, Zenon DEF capacity
<1>3. size \in Nat /\ size' = size + 1 /\ call' = <<"push_back", v>>
  BY Zenon DEF Covers, push_back
<1>4. PICK A : A = (IF size >= capacity THEN Realloc(array, 2 * capacity) ELSE array) /\ array' = [A EXCEPT ![size] = v]
  BY Zenon DEF push_back
<1>5. PICK d \in Nat \ {0} : size + 1 <= d /\ A \in [0..d - 1 -> Elem] /\ \A i \in 0..size - 1 : A[i] = array[i]
  <2>1. CASE size >= c
    <3>1. A \in [0..2 * c - 1 -> Elem] /\ \A i \in 0..c - 1 : A[i] = array[i]
      BY <1>1, <1>2, <1>4, <2>1, ReallocCells
    <3>2. 2 * c \in Nat \ {0} /\ size + 1 <= 2 * c
      BY <1>1, <1>3, <2>1
    <3>3. \A i \in 0..size - 1 : i \in 0..c - 1
      BY <1>1, <1>3
    <3> QED
      BY <3>1, <3>2, <3>3, Zenon
  <2>2. CASE size < c
    BY <1>1, <1>2, <1>3, <1>4, <2>2
  <2> QED
    BY <1>1, <1>3, <2>1, <2>2
<1>6. array' \in [0..d - 1 -> Elem] /\ \A j \in 0..size : array'[j] = IF j = size THEN v ELSE array[j]
  BY <1>3, <1>4, <1>5 DEF Elem
<1>7. Covers' /\ Elems' = [k \in 1..size + 1 |-> array'[k - 1]]
  BY <1>3, <1>5, <1>6 DEF Covers, Elems
<1>8. Elems \in Seq(Elem) /\ Len(Elems) = size /\ \A k \in 1..size : Elems[k] = array[k - 1]
  BY ElemsSeq, Zenon
<1>9. Append(Elems, v) = [k \in 1..size + 1 |-> IF k = size + 1 THEN v ELSE Elems[k]]
  BY <1>8, AppendCells DEF Elem
<1>10. ASSUME NEW k \in 1..size + 1 PROVE array'[k - 1] = IF k = size + 1 THEN v ELSE Elems[k]
  <2>1. k - 1 \in 0..size /\ (k - 1 = size <=> k = size + 1)
    BY <1>3
  <2>2. array'[k - 1] = IF k - 1 = size THEN v ELSE array[k - 1]
    BY <1>6, <2>1, Zenon
  <2>3. k # size + 1 => Elems[k] = array[k - 1]
    BY <1>3, <1>8
  <2> QED
    BY <2>1, <2>2, <2>3, Zenon
<1>11. S!Effect(call', Elems) = Append(Elems, v)
  BY <1>3, Effects, Zenon
<1> QED
  BY <1>7, <1>9, <1>10, <1>11, Zenon

\* setExpand resizes, then stores
LEMMA SetExpand ==
  ASSUME Covers, NEW i \in Nat, NEW v \in Val, setExpand(i, v)
  PROVE  Covers' /\ Elems' = S!Effect(call', Elems)
<1>1. size \in Nat
  BY Zenon DEF Covers
<1>2. PICK n \in Nat : n = IF i >= size THEN i + 1 ELSE size
  BY <1>1
<1>3. size' = n /\ array' = [ResizedTo(n) EXCEPT ![i] = v] /\ call' = <<"setExpand", i, v>>
  BY <1>2, Zenon DEF setExpand
<1>4. PICK d \in Nat \ {0} :
           /\ size <= d /\ n <= d
           /\ ResizedTo(n) \in [0..d - 1 -> Elem]
           /\ \A j \in 0..d - 1 : /\ j < size => ResizedTo(n)[j] = array[j]
                                  /\ size <= j /\ j < n => ResizedTo(n)[j] = Zero
  BY ResizedCells, Zenon
<1>5. array' \in [0..d - 1 -> Elem] /\ \A j \in 0..d - 1 : array'[j] = IF j = i THEN v ELSE ResizedTo(n)[j]
  BY <1>3, <1>4, Zenon DEF Elem
<1>6. Covers' /\ Elems' = [k \in 1..n |-> array'[k - 1]]
  BY <1>3, <1>4, <1>5, Zenon DEF Covers, Elems
<1>7. Len(Elems) = size /\ \A k \in 1..size : Elems[k] = array[k - 1]
  BY ElemsSeq, Zenon
<1>8. S!Effect(call', Elems) = [k \in 1..n |-> IF k = i + 1 THEN v ELSE IF k <= size THEN Elems[k] ELSE Zero]
  <2>1. S!Effect(<<"setExpand", i, v>>, Elems) =
          [S!Grow(Elems, IF i < Len(Elems) THEN Len(Elems) ELSE i + 1) EXCEPT ![i + 1] = v]
    BY Zenon DEF S!Effect
  <2>2. (IF i < Len(Elems) THEN Len(Elems) ELSE i + 1) = n
    BY <1>1, <1>2, <1>7
  <2>3. S!Grow(Elems, n) = [k \in 1..n |-> IF k <= size THEN Elems[k] ELSE Zero]
    BY <1>7, Zenon DEF S!Grow
  <2>4. i + 1 \in 1..n
    BY <1>1, <1>2
  <2> QED
    BY <1>3, <2>1, <2>2, <2>3, <2>4, Zenon
<1>9. ASSUME NEW k \in 1..n
      PROVE  array'[k - 1] = IF k = i + 1 THEN v ELSE IF k <= size THEN Elems[k] ELSE Zero
  <2>1. k - 1 \in 0..d - 1 /\ (k - 1 = i <=> k = i + 1) /\ (k - 1 < size <=> k <= size)
    BY <1>1, <1>4
  <2>2. k <= size => ResizedTo(n)[k - 1] = Elems[k]
    BY <1>1, <1>4, <1>7, <2>1
  <2>3. k > size => ResizedTo(n)[k - 1] = Zero
    BY <1>1, <1>4, <2>1
  <2> QED
    BY <1>1, <1>5, <2>1, <2>2, <2>3
<1> QED
  BY <1>6, <1>8, <1>9, Zenon

\* insertAt resizes by one and moves elements up
LEMMA InsertAt ==
  ASSUME Covers, NEW index \in Nat, NEW v \in Val, insertAt(index, v)
  PROVE  Covers' /\ Elems' = S!Effect(call', Elems)
<1>1. size \in Nat /\ index <= size /\ size' = size + 1 /\ call' = <<"insert", index, v>>
  BY Zenon DEF Covers, insertAt
<1>2. PICK A : /\ A = ResizedTo(size + 1)
               /\ array' = [i \in DOMAIN A |-> IF index < i /\ i <= size THEN A[i - 1] ELSE IF i = index THEN v ELSE A[i]]
  BY Zenon DEF insertAt
<1>3. PICK d \in Nat \ {0} : size + 1 <= d /\ A \in [0..d - 1 -> Elem] /\ \A j \in 0..d - 1 : j < size => A[j] = array[j]
  <2>1. PICK n \in Nat : n = size + 1
    BY <1>1
  <2>2. PICK d \in Nat \ {0} :
             /\ n <= d /\ ResizedTo(n) \in [0..d - 1 -> Elem]
             /\ \A j \in 0..d - 1 : j < size => ResizedTo(n)[j] = array[j]
    BY ResizedCells, Zenon
  <2> QED
    BY <1>2, <2>1, <2>2, Zenon
<1>4. array' = [i \in 0..d - 1 |-> IF index < i /\ i <= size THEN A[i - 1] ELSE IF i = index THEN v ELSE A[i]]
  BY <1>2, <1>3, Zenon
<1>5. array' \in [0..d - 1 -> Elem]
  BY <1>1, <1>3, <1>4 DEF Elem
<1>6. Covers' /\ Elems' = [k \in 1..size + 1 |-> array'[k - 1]]
  <2>1. Covers'
    <3>1. size' \in Nat /\ size' <= d
      BY <1>1, <1>3
    <3> QED
      BY <1>3, <1>5, <3>1, Zenon DEF Covers
  <2>2. Elems' = [k \in 1..size + 1 |-> array'[k - 1]]
    BY <1>1, Zenon DEF Elems
  <2>3. QED
    BY <2>1, <2>2, Zenon
<1>7. Len(Elems) = size /\ \A k \in 1..size : Elems[k] = array[k - 1]
  BY ElemsSeq, Zenon
<1>8. S!Effect(call', Elems) =
        [k \in 1..size + 1 |-> IF k < index + 1 THEN Elems[k] ELSE IF k = index + 1 THEN v ELSE Elems[k - 1]]
  <2>1. S!Effect(<<"insert", index, v>>, Elems) = S!Inserted(Elems, index + 1, v)
    BY Zenon DEF S!Effect
  <2> QED
    BY <1>1, <1>7, <2>1, Zenon DEF S!Inserted
<1>9. ASSUME NEW k \in 1..size + 1
      PROVE  array'[k - 1] = IF k < index + 1 THEN Elems[k] ELSE IF k = index + 1 THEN v ELSE Elems[k - 1]
  <2>1. k - 1 \in 0..d - 1
    BY <1>1, <1>3
  <2>2. CASE k < index + 1
    <3>1. array'[k - 1] = A[k - 1]
      BY <1>1, <1>4, <2>1, <2>2
    <3>2. A[k - 1] = array[k - 1] /\ Elems[k] = array[k - 1]
      BY <1>1, <1>3, <1>7, <2>1, <2>2
    <3> QED
      BY <1>1, <2>2, <3>1, <3>2, Zenon
  <2>3. CASE k = index + 1
    BY <1>1, <1>4, <2>1, <2>3
  <2>4. CASE k > index + 1
    <3>1. array'[k - 1] = A[k - 2]
      BY <1>1, <1>4, <2>1, <2>4
    <3>2. A[k - 2] = array[k - 2] /\ Elems[k - 1] = array[k - 2]
      BY <1>1, <1>3, <1>7, <2>4
    <3> QED
      BY <1>1, <2>4, <3>1, <3>2
  <2> QED
    BY <1>1, <2>2, <2>3, <2>4
<1> QED
  BY <1>6, <1>8, <1>9, Zenon

\* Moving the elements after index down takes the one at index out
LEMMA Shifted ==
  ASSUME Covers, NEW index \in Nat, index < size, array' = ShiftedDown(array, index), size' = size - 1
  PROVE  Covers' /\ Elems' = S!Removed(Elems, index + 1)
<1>1. PICK c \in Nat \ {0} : size <= c /\ array \in [0..c - 1 -> Elem]
  BY Zenon DEF Covers
<1>2. size \in Nat
  BY Zenon DEF Covers
<1>3. array' = [i \in 0..c - 1 |-> IF index <= i /\ i + 1 < size THEN array[i + 1] ELSE array[i]]
  BY <1>1, Zenon DEF ShiftedDown
<1>4. array' \in [0..c - 1 -> Elem]
  BY <1>1, <1>2, <1>3
<1>5. Covers' /\ Elems' = [k \in 1..size - 1 |-> array'[k - 1]]
  BY <1>1, <1>2, <1>4 DEF Covers, Elems
<1>6. Len(Elems) = size /\ \A k \in 1..size : Elems[k] = array[k - 1]
  BY ElemsSeq, Zenon
<1>7. S!Removed(Elems, index + 1) = [k \in 1..size - 1 |-> IF k < index + 1 THEN Elems[k] ELSE Elems[k + 1]]
  BY <1>6, Zenon DEF S!Removed
<1>8. ASSUME NEW k \in 1..size - 1
      PROVE  array'[k - 1] = IF k < index + 1 THEN Elems[k] ELSE Elems[k + 1]
  <2>1. /\ k - 1 \in 0..c - 1
        /\ array'[k - 1] = IF index <= k - 1 /\ (k - 1) + 1 < size THEN array[(k - 1) + 1] ELSE array[k - 1]
    BY <1>1, <1>2, <1>3
  <2>2. CASE k < index + 1
    BY <1>2, <1>6, <2>1, <2>2
  <2>3. CASE k >= index + 1
    <3>1. array'[k - 1] = array[k]
      BY <1>2, <2>1, <2>3
    <3>2. Elems[k + 1] = array[k]
      BY <1>2, <1>6
    <3> QED
      BY <2>3, <3>1, <3>2
  <2> QED
    BY <2>2, <2>3
<1> QED
  BY <1>5, <1>7, <1>8, Zenon

\* removeAt takes out the element it is given the index of
LEMMA RemoveAt ==
  ASSUME Covers, NEW index \in Nat, removeAt(index)
  PROVE  Covers' /\ Elems' = S!Effect(call', Elems)
<1>1. index < size /\ array' = ShiftedDown(array, index) /\ size' = size - 1 /\ call' = <<"erase", index>>
  BY Zenon DEF removeAt
<1>2. Covers' /\ Elems' = S!Removed(Elems, index + 1)
  BY <1>1, Shifted, Zenon
<1>3. S!Effect(<<"erase", index>>, Elems) = S!Removed(Elems, index + 1)
  BY Zenon DEF S!Effect
<1> QED
  BY <1>1, <1>2, <1>3, Zenon

\* The index remove stops at is that of the first element equal to v
LEMMA FirstIndex ==
  ASSUME NEW s, NEW n \in Nat, Len(s) = n, NEW v, NEW i \in 1..n,
         s[i] = v, \A j \in 1..i - 1 : s[j] # v
  PROVE  S!First(s, v) = i
<1> DEFINE P(k) == s[k] = v /\ \A j \in 1..k - 1 : s[j] # v
<1>1. PICK f : f = CHOOSE k \in 1..n : P(k)
  BY Zenon
<1>2. f \in 1..n /\ P(f)
  BY <1>1, Zenon
<1>3. f = i
  BY <1>2
<1> QED
  BY <1>1, <1>3, Zenon DEF S!First

\* remove takes out the first element equal to v, if there is one
LEMMA Remove ==
  ASSUME Covers, NEW v \in Val, remove(v)
  PROVE  Covers' /\ Elems' = S!Effect(call', Elems)
<1>1. call' = <<"remove", v>>
  BY Zenon DEF remove
<1>2. Len(Elems) = size /\ size \in Nat /\ \A k \in 1..size : Elems[k] = array[k - 1]
  BY ElemsSeq, Zenon DEF Covers
<1>3. S!Effect(<<"remove", v>>, Elems) =
        IF \E k \in 1..Len(Elems) : Elems[k] = v THEN S!Removed(Elems, S!First(Elems, v)) ELSE Elems
  BY Zenon DEF S!Effect
<1>4. CASE \A i \in 0..size - 1 : array[i] # v
  <2>1. UNCHANGED <<array, size>>
    BY <1>4, Zenon DEF remove
  <2>2. Covers' /\ Elems' = Elems
    BY <2>1, Zenon DEF Covers, Elems
  <2>3. \A k \in 1..size : Elems[k] # v
    BY <1>2, <1>4
  <2> QED
    BY <1>1, <1>2, <1>3, <2>2, <2>3, Zenon
<1>5. CASE ~ \A i \in 0..size - 1 : array[i] # v
  <2>1. PICK i \in 0..size - 1 : /\ array[i] = v /\ \A j \in 0..i - 1 : array[j] # v
                                 /\ array' = ShiftedDown(array, i) /\ size' = size - 1
    BY <1>5, Zenon DEF remove
  <2>2. i \in Nat /\ i < size
    BY <1>2
  <2>3. Covers' /\ Elems' = S!Removed(Elems, i + 1)
    BY <2>1, <2>2, Shifted, Zenon
  <2>4. PICK k \in 1..size : k = i + 1
    BY <1>2, <2>2
  <2>5. Elems[k] = v
    BY <1>2, <2>1, <2>4
  <2>6. ASSUME NEW j \in 1..k - 1 PROVE Elems[j] # v
    <3>1. j \in 1..size /\ j - 1 \in 0..i - 1
      BY <1>2, <2>2, <2>4
    <3> QED
      BY <1>2, <2>1, <3>1, Zenon
  <2>7. S!First(Elems, v) = k
    <3>1. /\ size \in Nat /\ Len(Elems) = size /\ k \in 1..size
          /\ Elems[k] = v /\ \A j \in 1..k - 1 : Elems[j] # v
      BY <1>2, <2>5, <2>6, Zenon
    <3> QED
      BY <3>1, FirstIndex, Zenon
  <2> QED
    BY <1>1, <1>2, <1>3, <2>3, <2>4, <2>5, <2>7, Zenon
<1> QED
  BY <1>4, <1>5, Zenon

-----------------------------------------------------------------------------
(* The refinement *)

\* Every step does to the elements what its call says
LEMMA Step ==
  ASSUME MaxSize \in Nat, Covers, [Next]_vars
  PROVE  Covers' /\ [S!Next]_<<Elems, call>>
<1>1. CASE UNCHANGED vars
  BY <1>1, Zenon DEF vars, Covers, Elems
<1>2. CASE pop_back
  BY <1>2, PopBack, Zenon DEF S!Next, Elems
<1>3. CASE clear
  BY <1>3, Clear, Zenon DEF S!Next, Elems
<1>4. ASSUME NEW v \in Val, push_back(v) \/ remove(v) PROVE Covers' /\ S!Next
  BY <1>4, PushBack, Remove, Zenon DEF S!Next, Elems
<1>5. ASSUME NEW i \in 0..MaxSize - 1, removeAt(i) PROVE Covers' /\ S!Next
  BY <1>5, RemoveAt DEF S!Next, Elems
<1>6. ASSUME NEW i \in 0..MaxSize - 1, NEW v \in Val, set(i, v) \/ setExpand(i, v) \/ insertAt(i, v)
      PROVE  Covers' /\ S!Next
  BY <1>6, Set, SetExpand, InsertAt DEF S!Next, Elems
<1>7. ASSUME NEW n \in 0..MaxSize, resize(n) PROVE Covers' /\ S!Next
  BY <1>7, Resize DEF S!Next, Elems
<1> QED
  BY <1>1, <1>2, <1>3, <1>4, <1>5, <1>6, <1>7, Zenon DEF Next

\* A vector of any initial capacity is a sequence: through every doubling of the
\* array, no element is lost and no stale element comes back (stl-model.h:382).
THEOREM VectorRefinesSequence ==
  ASSUME Capacities \subseteq Nat \ {0}, MaxSize \in Nat
  PROVE  Spec => VectorImplementsSequence
<1>1. Init => Covers /\ S!Init
  BY DEF Init, Covers, Elem, S!Init
<1>2. Covers /\ [Next]_vars => Covers' /\ [S!Next]_<<Elems, call>>
  BY Step, Zenon
<1> QED
  BY <1>1, <1>2, PTL DEF Spec, VectorImplementsSequence, S!Spec, Elems
=============================================================================
