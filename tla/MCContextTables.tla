-------------------------- MODULE MCContextTables --------------------------
(***************************************************************************)
(* The tables of a context, in one run: the open-addressing table by       *)
(* itself, the numeric table behind its caches, the lookup cache of a      *)
(* compiled instruction over a chain of contexts, and the typed bindings   *)
(* of a context and an overlay.  They share no state; a behaviour          *)
(* exercises the one chosen at the start.                                  *)
(*                                                                         *)
(* There are four names: two that collide, their successor, and one at the *)
(* end whose probe wraps around; tables start with two cells, so that they *)
(* grow twice, and two pointers share a bucket of the pointer cache.  The  *)
(* host of the lookup cache sets the two names that collide, one to 0, so  *)
(* that the order of insertion moves the loaded one; three contexts are    *)
(* two roots and an overlay, or a root and two overlays.  The bindings     *)
(* are of one name, in a context that is given every type under an         *)
(* overlay that is given none, or in a context and an overlay given some   *)
(* each.                                                                   *)
(***************************************************************************)
EXTENDS OpenMapMachine, ContextNumbers, LookupCache, ContextBindings, TLC

CONSTANTS ema, rsi, sma, wma, p1, p2, top, overlay, t1, t2

TableNames == {ema, rsi, sma, wma}
TableHash == (ema :> 2) @@ (rsi :> 2) @@ (sma :> 3) @@ (wma :> 7)
LoadedOrZero == (ema :> Values) @@ (rsi :> {NoValue})
PointerBuckets == (p1 :> 0) @@ (p2 :> 0)
OverlayParent == (top :> NoParent) @@ (overlay :> top)

Alone == [types |-> (top :> Types) @@ (overlay :> {}),
          values |-> (top :> Values) @@ (overlay :> {})]

Chained == [types |-> (top :> {"number", "bool"}) @@ (overlay :> {"number", "string", "struct"}),
            values |-> (top :> {t1}) @@ (overlay :> {t2})]

HostUses == {Alone, Chained}

Symmetry == Permutations(Values) \cup Permutations(Addresses)

VARIABLE part

MCInit == /\ part \in {"table", "numbers", "loads", "bindings"}
          /\ MapInit /\ NumbersInit /\ LoadsInit /\ BindingsInit
          /\ part # "table" => kind = "numeric"
          /\ part # "bindings" => use = Alone

MCNext == /\ UNCHANGED part
          /\ \/ part = "table" /\ MapNext /\ UNCHANGED <<numberVars, loadVars, bindVars>>
             \/ part = "numbers" /\ NumbersNext /\ UNCHANGED <<mapVars, loadVars, bindVars>>
             \/ part = "loads" /\ LoadsNext /\ UNCHANGED <<mapVars, numberVars, bindVars>>
             \/ part = "bindings" /\ BindingsNext /\ UNCHANGED <<mapVars, numberVars, loadVars>>

MCSpec == MCInit /\ [][MCNext]_<<part, mapVars, numberVars, loadVars, bindVars>>
=============================================================================
