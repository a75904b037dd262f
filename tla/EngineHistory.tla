--------------------------- MODULE EngineHistory ---------------------------
(***************************************************************************)
(* What an engine session promises about lookback and watches, without     *)
(* rings, cursors or reserved slots: every lookback target keeps a window  *)
(* of its most recent samples, newest first, and every watch remembers the *)
(* last truth value it was compared with.                                  *)
(***************************************************************************)
EXTENDS Integers, Sequences

CONSTANTS
    Targets,   \* pull sources and tracked expressions
    Depth,     \* [Targets -> Nat]: deepest lookback of each target
    Samples,   \* values a sample may have
    Watches    \* watch positions

VARIABLES
    window,    \* [Targets -> Seq(Samples)]
    seen       \* [Watches -> {"never", "true", "false"}]

Shift(w, v, depth) ==
    LET longer == <<v>> \o w
    IN  SubSeq(longer, 1, IF Len(longer) > depth + 1 THEN depth + 1 ELSE Len(longer))

Init ==
    /\ window = [t \in Targets |-> <<>>]
    /\ seen = [w \in Watches |-> "never"]

(* Every target moves together, by exactly one sample. *)
Step ==
    /\ \E v \in [Targets -> Samples] :
           window' = [t \in Targets |-> Shift(window[t], v[t], Depth[t])]
    /\ seen' \in [Watches -> {"never", "true", "false"}]
    /\ \A w \in Watches : seen'[w] = "never" => seen[w] = "never"

Forget == Init'

Next == Step \/ Forget

Spec == Init /\ [][Next]_<<window, seen>>
=============================================================================
