----------------------------- MODULE MCHistory -----------------------------
(* Programs for module History *)
EXTENDS History

E == Entry("f")
X == Exit("f")
R(p, l) == Action("read", p, l)
W(p, l) == Action("write", p, l)
RMW(p, l) == <<Action("rmwr", p, l), Action("rmw", p, l)>>
Plain(l) == Action("nonatomic", NoPosition, l)

\* Two reads of a location, by two threads at once, and once more
Repeated == LET A == <<E, R("p1", "x"), R("p2", "x"), X>> IN {<<A, A>>, <<A \o A>>}

\* A loop over two instructions
Loop == LET A == <<E, R("p1", "x"), R("p2", "y"), R("p1", "x"), R("p2", "y"), X>> IN {<<A>>, <<A, <<E, W("p3", "x"), R("p1", "x"), X>>>>}

\* Recursion, before and after which the caller reads
Recursion == {<<<<E, R("p1", "x"), E, R("p1", "x"), X, R("p2", "x"), X>>>>}

\* An instruction that follows pointers, some of them null
Pointers == LET A == <<E, R("p1", "x"), R("p2", "x"), X>>
                B == <<E, R("p1", "x"), R("p2", "y"), X>>
            IN  {<<A \o B \o A>>, <<B \o A \o B>>, <<B, A>>}

\* Two locations, values written by a function, and by no function
Shared == {<<<<Entry("g"), W("q1", "x"), W("q2", "y"), Exit("g")>>, <<E, R("p1", "x"), R("p2", "y"), X>>>>,
           <<<<Plain("x"), E, R("p1", "y"), X, Plain("x")>>, <<Plain("y"), E, R("p2", "x"), X>>>>}

\* Read-modify-writes, a fence, and a volatile increment
Kinds == {<<<<E>> \o RMW("p1", "x") \o <<Action("rmwrcas", "p2", "x"), Action("fence", "p3", "x"), R("p2", "x"), X>>>>,
          <<<<E, R("p1", "x"), W("p1", "x"), R("p1", "x"), X>>>>}

\* A read after a loop, by a thread that runs the loop and by one that does not
AfterLoop == {<<<<E, R("p1", "x"), R("p2", "y"), R("p1", "x"), R("p3", "y"), X>>, <<E, R("p1", "x"), R("p3", "y"), X>>>>}

\* A value that is the mark for no value
Sentinel == {<<<<E, R("p1", "x"), R("p2", "x"), X>>>>}

\* A thread that is in no function
NoFunction == {<<<<Action("write", "q1", "x")>>>>}

AllPrograms == Repeated \cup Loop \cup Recursion \cup Pointers \cup Shared \cup Kinds

\* Programs on which the history disagrees with its comments
Disagreements == AfterLoop \cup Sentinel \cup NoFunction
=============================================================================
