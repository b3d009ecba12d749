-------------------------------- MODULE RkhSm --------------------------------
(***************************************************************************)
(* rkh_sm_dispatch (rkhsm.c), which runs a hierarchical state machine: it  *)
(* looks for a transition from the current state upwards, leaves states up *)
(* to the least common ancestor (LCA), executes the effects, enters states *)
(* down to the target, and follows default children to a basic state.      *)
(* Configured as in rkhcfg.h: hierarchy and shallow history, no choices,   *)
(* submachines or deep history.  No row of the firmware's machine has a    *)
(* guard or the completion event, and a history's default transition leads *)
(* to a state: a transition then has at most two actions, its row's and    *)
(* that of a history, for which the list al always has room.               *)
(*                                                                         *)
(* A machine is a constant and a dispatch an operator: what it runs, in    *)
(* order, and the state and histories it leaves.                           *)
(***************************************************************************)
EXTENDS Naturals, Sequences
LOCAL INSTANCE SequencesExt

CONSTANTS
  Basic, Composite,   (* The states, RKH_BASIC and RKH_COMPOSITE.           *)
  Histories,          (* The shallow history pseudostates.                  *)
  None,               (* A NULL pointer, RKH_ROOT among them.               *)
  parent,             (* Of a state or a history: a composite, or None.     *)
  defchild,           (* Of a composite: its default child, a state or a    *)
                      (* history ...                                        *)
  initialAction,      (* ... and the action on the way there, or None.      *)
  default,            (* Of a history: its default transition, target and   *)
                      (* action, either of them None.                       *)
  trtbl,              (* Of a state: its rows, event, target and action.    *)
  istate, iaction,    (* Initial state and action of the machine.           *)
  MAX_HCAL_DEPTH      (* RKH_CFG_SMA_MAX_HCAL_DEPTH                         *)

States == Basic \cup Composite

(* A state and its ancestors, lowest first.                                *)
Up[s \in States \cup {None}] ==
  IF s = None THEN <<>> ELSE <<s>> \o Up[parent[s]]

(* The first row of s for an event, 0 if there is none: FIND_TRN.          *)
FIND_TRN(s, e) == SelectInSeq(trtbl[s], LAMBDA row : row.event = e)

Does(kind, seq) == [i \in DOMAIN seq |-> <<kind, seq[i]>>]
Effect(action) == IF action = None THEN <<>> ELSE <<<<"effect", action>>>>

(* Histories ets with contents h: where they lead, and by which action.    *)
Target(ets, h) ==
  IF ets \in States THEN ets
  ELSE IF h[ets] # None THEN h[ets]
  ELSE IF default[ets].target # None THEN default[ets].target
  ELSE parent[ets]

DefaultEffect(ets, h) ==
  IF ets \in Histories /\ h[ets] = None /\ default[ets].target # None
  THEN Effect(default[ets].action) ELSE <<>>

(* From a composite ts just entered down to a basic state, with the        *)
(* histories as they are by then.                                          *)
Descend(ts, h) ==
  LET step[s \in States] ==
        IF s \in Basic THEN [run |-> <<>>, leaf |-> s]
        ELSE LET ets  == defchild[s]
                 to   == Target(ets, h)
                 from == IF ets \in Histories THEN parent[ets] ELSE s
                 entered == SelectSeq(Up[to], LAMBDA u :
                                ~Contains(Up[from], u))
             IN [run  |-> Effect(initialAction[s]) \o DefaultEffect(ets, h)
                            \o Does("entry", Reverse(entered))
                            \o step[to].run,
                 leaf |-> step[to].leaf]
  IN step[ts]

(* RKH_EXEC_EXIT_ACTION: what is left, lowest first, and what is entered.  *)
(* The search for the LCA compares each state left with those above the    *)
(* target; a transition of a state to itself leaves and enters it.         *)
ExitsAndEntries(src, tgt) ==
  LET exits   == SelectSeq(Up[src], LAMBDA s : ~Contains(Up[tgt], s))
      entries == SelectSeq(Up[tgt], LAMBDA s : ~Contains(Up[src], s))
  IN IF src = tgt THEN [exits |-> <<src>>, entries |-> <<src>>]
     ELSE [exits |-> exits, entries |-> entries]

(* The list of states to enter has room for MAX_HCAL_DEPTH of them; the    *)
(* first state left is compared before the LCA is known, so that all       *)
(* states from the target to the root must fit.                            *)
TooDeep(src, tgt) == src # tgt /\ Len(Up[tgt]) > MAX_HCAL_DEPTH

(* RKH_UPDATE_SHALLOW_HIST for the states left, lowest first.              *)
UpdateHist(exits, h) ==
  [v \in Histories |->
     LET last == SelectLastInSeq(exits, LAMBDA s : parent[s] = parent[v])
     IN IF last = 0 THEN h[v] ELSE exits[last]]

(* The events of a dispatch in state cs with histories h.                  *)
rkh_sm_dispatch(cs, h, e) ==
  LET at == SelectInSeq(Up[cs], LAMBDA s : FIND_TRN(s, e) # 0)
      nothing == [verdict |-> "RKH_EVT_PROC", run |-> <<>>,
                  state |-> cs, hist |-> h]
  IN IF at = 0 THEN [nothing EXCEPT !.verdict = "RKH_EVT_NFOUND"]
     ELSE
     LET source == Up[cs][at]
         row == trtbl[source][FIND_TRN(source, e)]
         ts  == Target(row.target, h)
         way == ExitsAndEntries(cs, ts)
         h2  == UpdateHist(way.exits, h)
         down == Descend(ts, h2)
     IN IF row.target = None
        THEN [nothing EXCEPT !.run = Effect(row.action)]
        ELSE IF TooDeep(cs, ts)
        THEN [nothing EXCEPT !.verdict = "RKH_EX_HLEVEL"]
        ELSE [nothing EXCEPT
                !.run = Does("exit", way.exits)
                          \o Effect(row.action) \o DefaultEffect(row.target, h)
                          \o Does("entry", Reverse(way.entries)) \o down.run,
                !.state = down.leaf,
                !.hist = h2]

(* The creation event, on which rkh_sm_init dispatches: all states from    *)
(* the root to the initial one are entered.                                *)
rkh_sm_init(h) ==
  LET down == Descend(istate, h)
  IN [run   |-> Effect(iaction) \o Does("entry", Reverse(Up[istate]))
                  \o down.run,
      state |-> down.leaf, hist |-> h]
=============================================================================
