------------------------------ MODULE History ------------------------------
(***************************************************************************)
(* What the tester learns about the functions of the program: history.cc,  *)
(* funcnode.cc, funcinst.cc and predicate.cc, compiled always and called   *)
(* when NEWFUZZER is defined.                                              *)
(*                                                                         *)
(* A FuncNode gathers the instructions of a function (FuncInst: position   *)
(* and type) and a tree of predicates, which says after which instruction, *)
(* and under which condition on the values read, another one follows.      *)
(* Threads and activations share the tree; the maps of an activation are   *)
(* on stacks for each thread.  FuncNodes are on the heap that outlives an  *)
(* execution, but some of their sets are not.                              *)
(*                                                                         *)
(* What a read returns is the subject of module Execution: here it is any  *)
(* value.  Weights, exploration counts and traces, which only guide a      *)
(* search that selectWrite never starts, are left out.                     *)
(***************************************************************************)
EXTENDS Naturals, Integers, Sequences, FiniteSets, FiniteSetsExt, SequencesExt, Functions

CONSTANTS
  Programs,       \* the programs: a sequence of calls for each thread
  Values,         \* what is written and read; 0 is the null pointer
  MaxExecutions,  \* bound: executions
  MaxTurns        \* bound: turns of the loop of update_predicate_tree

VARIABLES
  prog, pc,             \* the program, and where each thread is
  execution_number, seq,
  thrd_func_list,       \* the functions each thread is in, for the threads of the vector
  thrd_last_entered_func,
  write_history,        \* location -> values written
  loc_rd_func_nodes_map, loc_wr_func_nodes_map,   \* location -> functions
  last_seq_number,
  func_nodes,           \* function -> FuncNode, for those entered once
  undefined             \* "" or what made the tester stop or go wild

programVars == <<prog, pc, execution_number, seq>>
snapshotVars == <<thrd_func_list, thrd_last_entered_func, write_history, loc_rd_func_nodes_map, loc_wr_func_nodes_map>>
vars == <<programVars, snapshotVars, last_seq_number, func_nodes, undefined>>

Threads == DOMAIN prog
Locations == {"x", "y"}
InitSeqNumber == 0   \* INIT_SEQ_NUMBER: sequence numbers start from 1 here

\* The calls a thread makes
Entry(f) == [kind |-> "entry", f |-> f]
Exit(f) == [kind |-> "exit", f |-> f]
Action(type, pos, loc) == [kind |-> "action", type |-> type, pos |-> pos, loc |-> loc]
NoPosition == "-"

IsRead(type) == type \in {"read", "rmwr", "rmwrcas"}   \* never called for the second half
IsWrite(type) == type \in {"write", "rmw", "nonatomic"}

\* pred_expr; an instruction is <<position, type>>
NoInst == <<NoPosition, "none">>
Expr(token, inst, value) == [token |-> token, inst |-> inst, value |-> value]
NoPredicate == Expr("NOPREDICATE", NoInst, TRUE)

Predicate(inst, exprs, parent) ==
  [inst |-> inst, exprs |-> exprs, parent |-> parent, backedges |-> {}, write |-> FALSE, exit |-> FALSE]

EmptyMaps == [loc_inst |-> <<>>, inst_id |-> <<>>, inst_pred |-> <<>>]

\* The stacks of a thread in a FuncNode
NoFrames == [depth |-> -1, markers |-> <<>>, maps |-> <<>>, positions |-> <<>>]

EmptySets(n) ==
  [read_locations |-> {}, write_locations |-> {}, val_loc |-> [v \in Values |-> {}], may_equal |-> [l \in Locations |-> {}],
   owner |-> n]   \* the execution whose process allocated them

\* The tree starts with the entry predicate
NewFuncNode ==
  [marker |-> 1, inst_counter |-> 1,
   insts |-> <<>>,        \* position -> types: the one in func_inst_map, then its collisions
   info |-> <<>>,         \* instruction -> its location and whether it is the only one
   reads |-> <<>>,        \* instruction, thread, depth -> the associated read
   tree |-> <<Predicate(NoInst, {NoPredicate}, 0)>>,
   likely_null |-> {},
   out_edges |-> {},
   frames |-> [t \in Threads |-> NoFrames],
   sets |-> EmptySets(execution_number)]

Put(f, k, v) == [x \in DOMAIN f \cup {k} |-> IF x = k THEN v ELSE f[x]]
SetTop(s, v) == Append(Front(s), v)

Init ==
  /\ prog \in Programs
  /\ pc = [t \in Threads |-> 1]
  /\ execution_number = 1
  /\ seq = 0
  /\ thrd_func_list = <<>>
  /\ thrd_last_entered_func = <<>>
  /\ write_history = [l \in Locations |-> {}]
  /\ loc_rd_func_nodes_map = [l \in Locations |-> {}]
  /\ loc_wr_func_nodes_map = [l \in Locations |-> {}]
  /\ last_seq_number = InitSeqNumber
  /\ func_nodes = <<>>
  /\ undefined = ""

-----------------------------------------------------------------------------
(* Entering and leaving functions *)

\* A new marker for the activation, one level deeper
InitMarker(n, t) ==
  [n EXCEPT !.marker = @ + 1,
            !.frames[t].markers = Append(@, n.marker + 1),
            !.frames[t].depth = @ + 1]

\* The maps of the outermost activation are used again
InitLocalMaps(fr) ==
  [fr EXCEPT !.maps = IF Len(@) < fr.depth + 1 THEN Append(@, EmptyMaps) ELSE @]

InitPosition(fr) == [fr EXCEPT !.positions = Append(@, 1)]

\* function_entry_handler
Entered(n, t) == [InitMarker(n, t) EXCEPT !.frames[t] = InitPosition(InitLocalMaps(@))]

AddOutEdge(nodes, from, to) ==
  IF from = "" THEN nodes ELSE [nodes EXCEPT ![from].out_edges = @ \cup {to}]

EnterFunction(t, f) ==
  \E list \in {IF t \in DOMAIN thrd_func_list THEN thrd_func_list
               ELSE [u \in 1..t |-> IF u \in DOMAIN thrd_func_list THEN thrd_func_list[u] ELSE <<"">>]},
     last \in {IF t \in DOMAIN thrd_func_list THEN thrd_last_entered_func
               ELSE [u \in 1..t |-> IF u \in DOMAIN thrd_func_list THEN thrd_last_entered_func[u] ELSE ""]} :
    /\ thrd_func_list' = [list EXCEPT ![t] = Append(@, f)]
    /\ thrd_last_entered_func' = [last EXCEPT ![t] = f]
    /\ \E n \in {IF f \in DOMAIN func_nodes THEN func_nodes[f] ELSE NewFuncNode} :
         func_nodes' = AddOutEdge(Put(func_nodes, f, Entered(n, t)), last[t], f)
    /\ UNCHANGED <<write_history, loc_rd_func_nodes_map, loc_wr_func_nodes_map, last_seq_number, undefined>>

\* Faulty variant: the maps of an activation that is not recursive are kept
ResetLocalMapsKept(fr) == IF fr.depth > 0 THEN [fr EXCEPT !.maps = Front(@)] ELSE fr

ResetLocalMaps(fr) == [fr EXCEPT !.maps = IF fr.depth > 0 THEN Front(@) ELSE SetTop(@, EmptyMaps)]

ResetPosition(fr) == [fr EXCEPT !.positions = Front(@)]

\* function_exit_handler
Exited(n, t) ==
  [n EXCEPT !.tree[Last(n.frames[t].positions)].exit = TRUE,
            !.frames[t] = ResetPosition([ResetLocalMaps(@) EXCEPT !.depth = @ - 1, !.markers = Front(@)])]

\* The assertion of exit_function holds of programs that leave functions in
\* the order opposite to that in which they entered them
ExitFunction(t, f) ==
  /\ f \in DOMAIN func_nodes
  /\ Last(thrd_func_list[t]) = f
  /\ thrd_func_list' = [thrd_func_list EXCEPT ![t] = Front(@)]
  /\ func_nodes' = [func_nodes EXCEPT ![f] = Exited(@, t)]
  /\ UNCHANGED <<thrd_last_entered_func, write_history, loc_rd_func_nodes_map, loc_wr_func_nodes_map, last_seq_number, undefined>>

-----------------------------------------------------------------------------
(* Instructions *)

\* An action a has the fields of the call, its thread, value and number
CreateNewInst(n, a, types) ==
  [n EXCEPT !.insts = Put(@, a.pos, Append(types, a.type)),
            !.info = Put(@, <<a.pos, a.type>>, [loc |-> a.loc, single |-> TRUE, exec |-> execution_number])]

AddInst(n, a) ==
  LET inst == <<a.pos, a.type>>
      types == IF a.pos \in DOMAIN n.insts THEN n.insts[a.pos] ELSE <<>>
  IN  IF a.type \notin Range(types)
      THEN CreateNewInst(n, a, types)
      ELSE LET i == n.info[inst]
               loc == IF i.exec = execution_number THEN i.loc ELSE a.loc
           IN  [n EXCEPT !.info[inst] = [loc |-> loc, single |-> i.single /\ loc = a.loc, exec |-> execution_number]]

\* A compare-and-swap is found under the type it had before it was decided
GetInst(n, a) == <<a.pos, IF n.insts[a.pos][1] = "rmwrcas" /\ a.type = "read" THEN "rmwrcas" ELSE a.type>>

\* Faulty variant: the locations that had the value are not told of the new one
AddToValLocMapOneWay(sets, V, loc) ==
  LET fresh == {v \in V : loc \notin sets.val_loc[v]}
  IN  [sets EXCEPT !.may_equal[loc] = @ \cup UNION {sets.val_loc[v] : v \in fresh},
                   !.val_loc = [v \in Values |-> IF v \in V THEN @[v] \cup {loc} ELSE @[v]]]

\* add_to_val_loc_map for each of the values V, and update_loc_may_equal_map
AddToValLocMap(sets, V, loc) ==
  LET fresh == {v \in V : loc \notin sets.val_loc[v]}
      equals == UNION {sets.val_loc[v] : v \in fresh}
  IN  [sets EXCEPT !.may_equal = [l \in Locations |-> CASE l = loc -> @[l] \cup equals
                                                        [] l \in equals /\ l # loc -> @[l] \cup {loc}
                                                        [] OTHER -> @[l]],
                   !.val_loc = [v \in Values |-> IF v \in V THEN @[v] \cup {loc} ELSE @[v]]]

LikelyReadsFromNull(a) == a.value = 0

-----------------------------------------------------------------------------
(* The predicate tree.  fr is the stack frame of the thread of action a. *)

Frame(n, t) ==
  LET fr == n.frames[t] IN [depth |-> fr.depth, marker |-> Last(fr.markers), maps |-> Last(fr.maps), position |-> Last(fr.positions)]

ValueNone == 9   \* VALUE_NONE
Wild == -1

\* get_associated_read: the vectors of an instruction are as long as the
\* threads and depths that used it require.  Wild is what lies beyond.
AssociatedRead(n, inst, t, fr) ==
  LET key == <<inst, t, fr.depth>>
      reaches == \E k \in DOMAIN n.reads : k[1] = inst /\ k[2] = t /\ k[3] >= fr.depth
  IN  CASE ~reaches -> Wild
        [] reaches /\ key \in DOMAIN n.reads /\ n.reads[key].marker = fr.marker -> n.reads[key].value
        [] OTHER -> ValueNone

SetAssociatedRead(reads, inst, a, fr) ==
  Put(reads, <<inst, a.tid, fr.depth>>, [marker |-> fr.marker, value |-> a.value])

Holds(n, a, fr, e) ==
  CASE e.token = "NOPREDICATE" -> TRUE
    [] e.token = "NULLITY" -> LikelyReadsFromNull(a) = e.value
    [] e.token = "EQUALITY" -> LET last == AssociatedRead(n, e.inst, a.tid, fr)
                               IN  last # ValueNone /\ (last = a.value) = e.value

Children(n, c, inst) == {i \in DOMAIN n.tree : n.tree[i].parent = c /\ n.tree[i].inst = inst}
Unset(n, S) == {i \in S : n.tree[i].exprs = {}}

\* follow_branch: the first child whose expressions all hold.  Two children
\* without expressions before it fail an assertion.
FollowBranch(n, a, fr, c, inst) ==
  LET kids == Children(n, c, inst)
      right == {i \in kids \ Unset(n, kids) : \A e \in n.tree[i].exprs : Holds(n, a, fr, e)}
      examined == IF right = {} THEN kids ELSE {i \in kids : i <= Min(right)}
      compared == {e.inst : e \in {e \in UNION {n.tree[i].exprs : i \in examined} : e.token = "EQUALITY"}}
  IN  CASE \E i \in compared : AssociatedRead(n, i, a.tid, fr) = Wild -> [how |-> "wild", at |-> 0]
        [] Cardinality(Unset(n, examined)) > 1 -> [how |-> "asserted", at |-> 0]
        [] right # {} -> [how |-> "found", at |-> Min(right)]
        [] right = {} /\ Unset(n, kids) # {} -> [how |-> "unset", at |-> Min(Unset(n, kids))]
        [] OTHER -> [how |-> "none", at |-> 0]

\* infer_predicates: what the new read may be compared with
InferPredicates(n, a, fr, inst) ==
  LET map == fr.maps.loc_inst
      single == n.info[inst].single
      compared == CASE a.loc \in DOMAIN map -> {map[a.loc]}
                    [] a.loc \notin DOMAIN map /\ single -> {map[l] : l \in n.sets.may_equal[a.loc] \cap DOMAIN map}
                    [] OTHER -> {}
  IN  IF ~IsRead(inst[2]) THEN {}
      ELSE {[token |-> "EQUALITY", inst |-> i] : i \in compared}
             \cup IF ~single /\ inst \in n.likely_null THEN {[token |-> "NULLITY", inst |-> NoInst]} ELSE {}

\* generate_predicates: one child for each way the expressions H can turn out
GeneratePredicates(n, c, inst, H) ==
  LET plain == IF c = 1 \/ IsWrite(inst[2]) THEN {NoPredicate} ELSE {}
      Outcome(T) == {Expr(h.token, h.inst, h \in T) : h \in H}
      branches == IF H = {} THEN <<plain>> ELSE SetToSeq({Outcome(T) : T \in SUBSET H})
  IN  [n EXCEPT !.tree = @ \o [k \in DOMAIN branches |-> Predicate(inst, branches[k], c)]]


\* amend_predicate_expr takes the first child, which is meant to be the unset one
AmendPredicateExpr(n, c, inst) ==
  LET first == Min(Children(n, c, inst))
  IN  [n EXCEPT !.tree = Append([@ EXCEPT ![first].exprs = @ \cup {Expr("NULLITY", NoInst, FALSE)}],
                                Predicate(inst, {Expr("NULLITY", NoInst, TRUE)}, c))]

\* The end of update_predicate_tree: the action is an instance of predicate c
Arrive(n, a, fr, c, inst) ==
  LET maps == [loc_inst |-> IF IsRead(a.type) THEN Put(fr.maps.loc_inst, a.loc, inst) ELSE fr.maps.loc_inst,
               inst_pred |-> Put(fr.maps.inst_pred, inst, c),
               inst_id |-> IF inst \in DOMAIN fr.maps.inst_id THEN fr.maps.inst_id
                           ELSE Put(fr.maps.inst_id, inst, n.inst_counter)]
  IN  [n EXCEPT !.tree[c].write = @ \/ IsWrite(a.type),
                !.frames[a.tid].maps = SetTop(@, maps),
                !.frames[a.tid].positions = SetTop(@, c),
                !.inst_counter = IF inst \in DOMAIN fr.maps.inst_id THEN @ ELSE @ + 1,
                !.reads = IF IsRead(a.type) THEN SetAssociatedRead(@, inst, a, fr) ELSE @]

\* The loop of update_predicate_tree, from predicate c on
RECURSIVE UpdatePredicateTree(_, _, _, _, _, _)
UpdatePredicateTree(n, a, fr, c, inst, turns) ==
  LET branch == FollowBranch(n, a, fr, c, inst)
      ids == fr.maps.inst_id
      IdOf(i) == IF i \in DOMAIN ids THEN ids[i] ELSE 0
      back == n.tree[fr.maps.inst_pred[inst]].parent
      H == InferPredicates(n, a, fr, inst)
  IN  CASE turns = 0 -> [node |-> n, undefined |-> "loops"]
        [] turns > 0 /\ branch.how \in {"wild", "asserted"} -> [node |-> n, undefined |-> branch.how]
        [] turns > 0 /\ branch.how = "found" -> [node |-> Arrive(n, a, fr, branch.at, inst), undefined |-> ""]
        [] turns > 0 /\ branch.how = "unset" ->
             IF ~n.info[inst].single /\ inst \in n.likely_null
             THEN UpdatePredicateTree(AmendPredicateExpr(n, c, inst), a, fr, c, inst, turns - 1)
             ELSE [node |-> Arrive(n, a, fr, branch.at, inst), undefined |-> ""]
        [] turns > 0 /\ branch.how = "none" ->
             IF inst \in DOMAIN ids /\ IdOf(n.tree[c].inst) >= ids[inst]
             THEN UpdatePredicateTree([n EXCEPT !.tree[c].backedges = @ \cup {back}], a, fr, back, inst, turns - 1)
             ELSE UpdatePredicateTree(GeneratePredicates(n, c, inst, H), a, fr, c, inst, turns - 1)

-----------------------------------------------------------------------------
(* Actions *)

\* update_tree up to the predicate tree: the locations of the function
NoteAccess(n, a, inst, history) ==
  LET imports == IsRead(a.type) /\ a.loc \notin n.sets.read_locations /\ n.info[inst].single
      sets == [n.sets EXCEPT !.write_locations = IF IsWrite(a.type) THEN @ \cup {a.loc} ELSE @,
                             !.read_locations = IF imports THEN @ \cup {a.loc} ELSE @]
  IN  [n EXCEPT !.sets = IF imports THEN AddToValLocMap(sets, history[a.loc], a.loc) ELSE sets,
                !.likely_null = IF IsRead(a.type) /\ LikelyReadsFromNull(a) THEN @ \cup {inst} ELSE @]

\* skip_action: the second half of an RMW, or a number already seen
SkipAction(a) == a.type = "rmw" \/ last_seq_number = a.seq

\* process_action tells the functions that may read the location
NotifyReaders(nodes, a) ==
  [f \in DOMAIN nodes |-> IF f \in loc_rd_func_nodes_map[a.loc]
                          THEN [nodes[f] EXCEPT !.sets = AddToValLocMap(@, {a.value}, a.loc)]
                          ELSE nodes[f]]

UpdateWriteHistory(a) == IF IsWrite(a.type) THEN [write_history EXCEPT ![a.loc] = @ \cup {a.value}] ELSE write_history

\* update_loc_rd_func_nodes_map and update_loc_wr_func_nodes_map
RegisterFuncNode(map, f, loc, locations) == [map EXCEPT ![loc] = IF loc \in locations THEN @ \cup {f} ELSE @]

\* add_inst and update_tree of function f.  Sets that another process has
\* allocated are not there.
UpdateTree(nodes, f, a, history) ==
  \E n \in {AddInst(nodes[f], a)} :
    /\ last_seq_number' = a.seq
    /\ CASE ~IsRead(a.type) /\ ~IsWrite(a.type) ->
              /\ func_nodes' = [nodes EXCEPT ![f] = n]
              /\ UNCHANGED <<loc_rd_func_nodes_map, loc_wr_func_nodes_map, undefined>>
         [] (IsRead(a.type) \/ IsWrite(a.type)) /\ n.sets.owner # execution_number ->
              /\ func_nodes' = [nodes EXCEPT ![f] = n]
              /\ undefined' = "dangling"
              /\ UNCHANGED <<loc_rd_func_nodes_map, loc_wr_func_nodes_map>>
         [] OTHER ->
              \E inst \in {GetInst(n, a)} : \E m \in {NoteAccess(n, a, inst, history)} :
              \E fr \in {Frame(m, a.tid)} :
              \E r \in {UpdatePredicateTree(m, a, fr, fr.position, inst, MaxTurns)} :
                /\ func_nodes' = [nodes EXCEPT ![f] = r.node]
                /\ undefined' = r.undefined
                /\ loc_rd_func_nodes_map' = RegisterFuncNode(loc_rd_func_nodes_map, f, a.loc, m.sets.read_locations)
                /\ loc_wr_func_nodes_map' = RegisterFuncNode(loc_wr_func_nodes_map, f, a.loc, m.sets.write_locations)

ProcessAction(t, call, v) ==
  \E number \in {IF call.type = "rmw" THEN seq ELSE seq + 1} :
  \E a \in {[tid |-> t, type |-> call.type, pos |-> call.pos, loc |-> call.loc, value |-> v, seq |-> number]} :
    /\ seq' = number
    /\ UNCHANGED <<thrd_func_list, thrd_last_entered_func>>
    /\ IF t \notin DOMAIN thrd_func_list
       THEN UNCHANGED <<write_history, loc_rd_func_nodes_map, loc_wr_func_nodes_map, last_seq_number, func_nodes, undefined>>
       ELSE \E f \in {Last(thrd_func_list[t])} :
            \E history \in {UpdateWriteHistory(a)},
               nodes \in {IF IsWrite(a.type) THEN NotifyReaders(func_nodes, a) ELSE func_nodes} :
              /\ write_history' = history
              /\ IF f = "" \/ a.pos = NoPosition \/ SkipAction(a)
                 THEN /\ func_nodes' = nodes
                      /\ UNCHANGED <<last_seq_number, loc_rd_func_nodes_map, loc_wr_func_nodes_map, undefined>>
                 ELSE UpdateTree(nodes, f, a, history)

AtSecondHalf(t) == pc[t] <= Len(prog[t]) /\ prog[t][pc[t]].kind = "action" /\ prog[t][pc[t]].type = "rmw"

\* A thread makes its next call.  Both halves of an RMW are one after the other.
Call(t) ==
  /\ undefined = ""
  /\ pc[t] <= Len(prog[t])
  /\ \A u \in Threads \ {t} : ~AtSecondHalf(u)
  /\ pc' = [pc EXCEPT ![t] = @ + 1]
  /\ UNCHANGED <<prog, execution_number>>
  /\ \E call \in {prog[t][pc[t]]} :
       \/ call.kind = "entry" /\ EnterFunction(t, call.f) /\ UNCHANGED seq
       \/ call.kind = "exit" /\ ExitFunction(t, call.f) /\ UNCHANGED seq
       \/ call.kind = "action" /\ \E v \in Values : ProcessAction(t, call, v)

\* An execution ends, at any point if a bug was found.  set_new_exec_flag
\* allocates the sets in the process that ends; what was allocated there is
\* not in the next one, which starts from the snapshot.
NewExecution ==
  /\ undefined = ""
  /\ execution_number < MaxExecutions
  /\ execution_number' = execution_number + 1
  /\ func_nodes' = [f \in DOMAIN func_nodes |-> [func_nodes[f] EXCEPT !.sets = EmptySets(execution_number)]]
  /\ pc' = [t \in Threads |-> 1]
  /\ seq' = 0
  /\ thrd_func_list' = <<>>
  /\ thrd_last_entered_func' = <<>>
  /\ write_history' = [l \in Locations |-> {}]
  /\ loc_rd_func_nodes_map' = [l \in Locations |-> {}]
  /\ loc_wr_func_nodes_map' = [l \in Locations |-> {}]
  /\ UNCHANGED <<prog, last_seq_number, undefined>>

Next == NewExecution \/ \E t \in Threads : Call(t)

Spec == Init /\ [][Next]_vars

-----------------------------------------------------------------------------
(* Properties *)

Active(f) == {t \in DOMAIN thrd_func_list : f \in Range(thrd_func_list[t])}

\* init_local_maps asserts that there is a map for each level of recursion
\* (funcnode.cc:745).  The stacks of a FuncNode outlive the execution, the list
\* of functions a thread is in does not: also after an execution that ended
\* inside the function, every activation has its own frame of each stack.
FramesAgree ==
  \A f \in DOMAIN func_nodes, t \in Threads :
    LET fr == func_nodes[f].frames[t]
        activations == IF t \in Active(f) THEN Cardinality({i \in DOMAIN thrd_func_list[t] : thrd_func_list[t][i] = f}) ELSE 0
    IN  /\ fr.depth + 1 >= activations
        /\ Len(fr.markers) = fr.depth + 1
        /\ Len(fr.positions) = fr.depth + 1
        /\ Len(fr.maps) \in {fr.depth + 1, 1}
        /\ activations > 0 => Len(fr.maps) = fr.depth + 1

\* Every activation has frames of its own, and what it may compare a read with
\* is a read of its own, not one of an earlier activation or of another thread:
\* each instruction in its map has a value recorded under its marker.  Otherwise
\* follow_branch would reject the predicates that were made for the action at
\* hand and make new ones for ever.
ReadsOwn ==
  /\ FramesAgree
  /\ \A f \in DOMAIN func_nodes : \A t \in Active(f) :
       LET n == func_nodes[f]
           fr == Frame(n, t)
       IN  \A l \in DOMAIN fr.maps.loc_inst : AssociatedRead(n, fr.maps.loc_inst[l], t, fr) \in Values \ {ValueNone}

\* A function knows of two locations it reads that they may hold equal values
\* exactly if some value was written to both, whichever came first, the reads
\* or the writes (update_tree imports, process_action notifies).
MayEqualExact ==
  \A f \in {g \in DOMAIN func_nodes : func_nodes[g].sets.owner = execution_number} :
    LET s == func_nodes[f].sets
    IN  \A k, l \in Locations :
          l \in s.may_equal[k] <=> /\ k # l
                                   /\ {k, l} \subseteq s.read_locations
                                   /\ write_history[k] \cap write_history[l] # {}

\* At most one child of a predicate fits an action: of two children with the
\* same instruction each denies something the other one asks for.
Exclusive(n, i, j) == \E e \in n.tree[i].exprs : [e EXCEPT !.value = ~@] \in n.tree[j].exprs


\* "Reallocate some snapshotted memories when new executions start"
\* (history.cc:471): no execution uses sets that are gone.
SetsThere == undefined # "dangling"

\* "Every write action should be processed" (history.cc:120)
EveryWriteProcessed ==
  [][\A t \in Threads : pc'[t] = pc[t] + 1 /\ prog[t][pc[t]].kind = "action" /\ IsWrite(prog[t][pc[t]].type)
        => write_history'[prog[t][pc[t]].loc] # {}]_vars

\* The loop of update_predicate_tree comes to an end, with no assertion failed
UpdateEnds == undefined \notin {"loops", "asserted", "wild"}
=============================================================================
