---------------------------- MODULE MCCollector ----------------------------
(***************************************************************************)
(* Programs on which the trace collector is checked.                       *)
(***************************************************************************)
EXTENDS Collector

Op(kind, x, order, val) == [kind |-> kind, loc |-> x, order |-> order, val |-> val]
St(x, order, val) == Op("store", x, order, val)
At(x)             == Op("init", x, "relaxed", 0)
Ld(x, order)      == Op("load", x, order, 0)
Add(x, order)     == Op("rmw", x, order, 1)
Fen(order)        == Op("fence", "fence", order, 0)
Cre               == Op("create", "thread", "seq_cst", 0)
Joi(t) == [kind |-> "join", loc |-> "thread", order |-> "seq_cst", target |-> t]

Threads3 == 0..3

-----------------------------------------------------------------------------
\* Main's finish ends the execution, so the readers are main and the last thread.

\* The second thread publishes with a release fence, main stores and loads; or
\* both perform RMWs that acquire and release
TwoThreads ==
  LET Ops  == {St("x", "release", 1), Ld("x", "acquire"), Ld("x", "relaxed")}
      RMWs == {Ld("x", "relaxed"), Add("x", "acq_rel")}
  IN  {<< <<At("x"), Cre>> \o a \o <<Ld("x", "acquire")>>, <<b, Fen("release"), St("x", "relaxed", 2)>> >> :
         a \in [1..2 -> Ops], b \in {St("x", "release", 1), Ld("x", "acquire")}}
        \cup {<< <<At("x"), Cre>> \o a, b >> : a, b \in [1..2 -> RMWs]}

\* The second thread publishes through y what it stored to x; main and the third
\* thread read both
ThreeThreads ==
  LET Reader == {<<Ld("y", "acquire"), Ld("x", "relaxed")>>, <<Ld("x", "relaxed"), Ld("y", "acquire")>>}
  IN  {<< <<At("x"), At("y"), Cre, Cre>> \o a, <<St("x", o, 1), St("y", "release", 1)>>, b >> :
         o \in {"relaxed", "seq_cst"}, a, b \in Reader}

LongPrograms == TwoThreads \cup ThreeThreads

-----------------------------------------------------------------------------
(* Single programs *)

\* Main joins a thread that finished long ago
LateJoin == {<< <<At("x"), Cre, Ld("x", "relaxed"), Ld("x", "relaxed"), Ld("x", "relaxed"), Joi(2)>>,
                <<St("x", "relaxed", 2)>> >>}

\* Main synchronises with the third thread, the second with nobody
UnevenVectors == {<< <<At("x"), Cre, Cre, Ld("x", "acquire")>>, <<Ld("x", "relaxed")>>, <<St("x", "release", 3)>> >>}

\* A relaxed RMW of main continues the release sequence of another thread's RMW
ContinuedRelease == {<< <<At("x"), At("y"), Cre, Add("x", "relaxed"), Ld("y", "relaxed"), Ld("y", "relaxed"), Ld("x", "acquire")>>,
                        <<Add("x", "acq_rel")>> >>}

\* The third thread orders the second's store before main's older one
OrderedByReader ==
  {<< <<At("x"), At("y"), Cre, Cre, St("x", "relaxed", 1), St("y", "release", 1), Ld("y", "relaxed")>>,
      <<St("x", "relaxed", 2), Ld("y", "acquire"), Ld("x", "relaxed")>>,
      <<Ld("x", "relaxed"), Ld("x", "relaxed"), Ld("y", "acquire")>> >>}

\* Programs on which the collector disagrees with its comments
Disagreements == LateJoin \cup UnevenVectors \cup ContinuedRelease \cup OrderedByReader
=============================================================================
