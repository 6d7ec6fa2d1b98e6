------------------------------- MODULE MCMemory -------------------------------
(***************************************************************************)
(* Programs on which the memory-model core is checked.                     *)
(***************************************************************************)
EXTENDS MemoryModel

Op(kind, x, order, val) == [kind |-> kind, loc |-> x, order |-> order, val |-> val]
St(x, order, val) == Op("store", x, order, val)
At(x)             == Op("init", x, "relaxed", 0)
Ld(x, order)      == Op("load", x, order, 0)
Add(x, order)     == Op("rmw", x, order, 1)
Cas(x, order, exp, val) ==
  [kind |-> "cas", loc |-> x, order |-> order, val |-> val, exp |-> exp]
Fen(order)        == Op("fence", "fence", order, 0)
Cre               == Op("create", "thread", "seq_cst", 0)
Joi(t) == [kind |-> "join", loc |-> "thread", order |-> "seq_cst", target |-> t]

Threads3 == 0..3
Threads4 == 0..4

\* Main initialises, creates the other threads, joins them and reads x
Main3(inits) == inits \o <<Cre, Cre, Joi(2), Joi(3), Ld("x", "relaxed")>>
Main4(inits) == inits \o <<Cre, Cre, Cre, Joi(2), Joi(3), Joi(4), Ld("x", "relaxed")>>

-----------------------------------------------------------------------------
\* Two threads load and store one location, initialised or not
CoherencePrograms ==
  LET Ops(t) == {Ld("x", "relaxed"), St("x", "relaxed", t)}
  IN  { <<Main3(i), a, b>> : i \in {<<>>, <<At("x")>>}, a \in [1..3 -> Ops(2)], b \in [1..2 -> Ops(3)] }

\* After its initialisation a location is only modified by RMWs
RMWPrograms ==
  LET Ops(t) == {Ld("x", "relaxed"), Add("x", "relaxed"), Cas("x", "relaxed", 1, 5)}
  IN  { <<Main3(<<At("x")>>), a, b>> : a, b \in [1..2 -> Ops(2)] }

\* One thread stores beside the RMWs of another: what follows the store that an
\* RMW reads has to be moved behind the RMW
BesidePrograms ==
  LET L == Ld("x", "relaxed")
  IN  { <<Main3(<<At("x")>>), a, b>> :
        a \in [1..3 -> {L, St("x", "relaxed", 10)}],
        b \in [1..2 -> {L, Add("x", "relaxed"), Cas("x", "relaxed", 10, 5)}] }

\* All programs on one location
OneLocation == CoherencePrograms \cup RMWPrograms \cup BesidePrograms

\* Releases and acquires, by accesses and by fences, through an RMW chain
SyncPrograms ==
  LET Writer == {<<St("y", "release", 1)>>,
                 <<Fen("release"), St("y", "relaxed", 1), St("y", "relaxed", 2)>>}
      Middle == {Add("y", o) : o \in Orders \ {"seq_cst"}}
      Reader == {<<Ld("y", "acquire")>>,
                 <<Ld("y", "relaxed"), Fen("acquire")>>,
                 <<Add("y", "acquire"), Add("y", "release")>>}
  IN  { <<<<At("y"), Cre, Cre, Cre, Joi(2), Joi(3), Joi(4)>>, w, <<m>>, r>> : w \in Writer, m \in Middle, r \in Reader }

-----------------------------------------------------------------------------
\* seq_cst accesses and fences, with a fence in at least one thread; no thread
\* loads the same location twice
SeqCstPrograms ==
  LET Access == {St("x", "relaxed", 7), St("x", "seq_cst", 8), Ld("x", "relaxed"), Ld("x", "seq_cst")}
      Fences == {Fen("seq_cst"), St("y", "relaxed", 1)}
      Body(F) == { <<a, f, b>> : a \in Access, f \in F, b \in Access}
      Once(F) == {s \in Body(F) : ~(s[1].kind = "load" /\ s[3].kind = "load")}
  IN  { <<Main3(<<At("x")>>), a, b>> : a \in Once(Fences), b \in Once({Fen("seq_cst")}) }

\* Relaxed and seq_cst accesses
OrderPrograms == OneLocation \cup SeqCstPrograms

-----------------------------------------------------------------------------
(* Single programs *)

\* Two stores whose threads then load, next to one RMW
StoresAndRMW ==
  { <<Main4(<<At("x")>>), <<St("x", "relaxed", 10), Ld("x", "relaxed")>>,
      <<St("x", "relaxed", 20), Ld("x", "relaxed")>>, <<Add("x", "relaxed")>>>> }

\* Synchronisation, and a graph that may get a cycle
SyncAndMixed == SyncPrograms \cup StoresAndRMW

\* Main's RMW reads main's own initialisation, which another store follows
OwnStoreRMW ==
  { <<<<At("x"), Cre, Cre, Add("x", "relaxed"), Joi(2), Joi(3)>>,
      <<St("x", "relaxed", 10)>>, <<Ld("x", "relaxed")>>>> }

\* An RMW on zero-initialised memory, then a store by a thread that reads the RMW
ZeroStoreRMW ==
  { <<Main3(<<>>), <<Ld("y", "relaxed"), St("x", "relaxed", 10), Ld("x", "relaxed")>>,
      <<Add("x", "relaxed")>>>> }

\* A release store, then a relaxed store by the same thread
ReleaseThenRelaxed ==
  { <<<<At("x"), Cre, Cre, Joi(2), Joi(3)>>,
      <<St("x", "release", 1), St("x", "relaxed", 2)>>, <<Ld("x", "acquire")>>>> }

\* A store and a seq_cst fence; a relaxed load and a seq_cst load
FencedStore ==
  { <<Main3(<<At("x")>>), <<St("x", "relaxed", 10), Fen("seq_cst")>>,
      <<Ld("x", "relaxed"), Ld("x", "seq_cst")>>>> }

\* Programs on which the tester disagrees with its documents
Disagreements == OwnStoreRMW \cup ZeroStoreRMW \cup ReleaseThenRelaxed \cup FencedStore
=============================================================================
