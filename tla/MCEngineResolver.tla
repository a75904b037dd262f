------------------------- MODULE MCEngineResolver -------------------------
(***************************************************************************)
(* A registry as its users see it: engine programs that share it, three of *)
(* them with two source names (EngineResolver), and the host's own         *)
(* registrations (Registry).  The two share no state; a behaviour          *)
(* exercises the one chosen at the start.                                  *)
(*                                                                         *)
(* The host uses the registry in two ways: functions of every kind under   *)
(* two names, where struct producers and expression bodies go to names     *)
(* without other callbacks, and resolvers and index capabilities beside    *)
(* plain functions.                                                        *)
(***************************************************************************)
EXTENDS EngineResolver, Registry, TLC

CONSTANTS Parts, p1, p2, p3, price, volume, u1, u2

Shared == (p1 :> {price} @@ p2 :> {price, volume} @@ p3 :> {})

OfFunctions == [operations |-> Plain \cup {"handler", "struct", "codegen", "body", "record", "names"},
                newOnly |-> {"struct", "body"}, maxVersion |-> 5]
OfResolvers == [operations |-> {"sync", "lookback", "index"}, newOnly |-> {}, maxVersion |-> 3]
HostUses == {OfFunctions, OfResolvers}

(* Functions, userdata and targets are only compared for equality. *)
Symmetry == Permutations(Functions) \cup Permutations(Userdata) \cup Permutations(Targets)

VARIABLE part

MCInit == /\ part \in Parts
          /\ Init /\ RegistryInit
          /\ part # "registry" => use = OfResolvers

MCNext == /\ UNCHANGED part
          /\ \/ part = "resolver" /\ Next /\ UNCHANGED registryVars
             \/ part = "registry" /\ RegistryNext /\ UNCHANGED vars

MCSpec == MCInit /\ [][MCNext]_<<part, vars, registryVars>>
=============================================================================
