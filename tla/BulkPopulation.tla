--------------------------- MODULE BulkPopulation ---------------------------
(***************************************************************************)
(* What a population of agents promises the host: every agent has a state  *)
(* of its own, which only its own ticks, a reset or a restore change; a    *)
(* launch ticks every agent once with its own input and shows it the       *)
(* output of that tick; a restore puts back all the states kept or none.   *)
(*                                                                         *)
(* A state is the sequence of the inputs the agent was ticked with since   *)
(* its reset, so that two different histories are two different states.    *)
(***************************************************************************)
EXTENDS Integers, Sequences, FiniteSets, SequencesExt

CONSTANTS Ids,      \* agent IDs, numbers
          Samples,  \* inputs of a tick
          Nothing   \* no output yet

VARIABLES agents,   \* agent -> its state
          feed,     \* agent -> its input in this launch
          due,      \* agents the launch has not ticked yet
          shown,    \* agent -> the output of its last tick in this launch
          kept      \* the states of the last snapshot, in the order of the IDs

Order(S) == SetToSortSeq(S, <)

Init ==
    /\ agents = <<>>
    /\ feed = <<>>
    /\ due = {}
    /\ shown = <<>>
    /\ kept = Nothing

Enter(a) ==
    /\ due = {}
    /\ a \notin DOMAIN agents
    /\ agents' = [b \in DOMAIN agents \cup {a} |-> IF b = a THEN <<>> ELSE agents[b]]
    /\ UNCHANGED <<feed, due, shown, kept>>

Leave(a) ==
    /\ due = {}
    /\ a \in DOMAIN agents
    /\ agents' = [b \in DOMAIN agents \ {a} |-> agents[b]]
    /\ UNCHANGED <<feed, due, shown, kept>>

Launch(inputs) ==
    /\ due = {}
    /\ feed' = inputs
    /\ due' = DOMAIN agents
    /\ shown' = [a \in DOMAIN agents |-> Nothing]
    /\ UNCHANGED <<agents, kept>>

Tick(a) ==
    /\ a \in due
    /\ agents' = [agents EXCEPT ![a] = Append(@, feed[a])]
    /\ due' = due \ {a}
    /\ UNCHANGED <<feed, shown, kept>>

Show(a) ==
    /\ a \in DOMAIN shown \ due
    /\ shown[a] = Nothing
    /\ shown' = [shown EXCEPT ![a] = agents[a]]
    /\ UNCHANGED <<agents, feed, due, kept>>

Reset(S) ==
    /\ due = {}
    /\ agents' = [a \in DOMAIN agents |-> IF a \in S THEN <<>> ELSE agents[a]]
    /\ UNCHANGED <<feed, due, shown, kept>>

Keep ==
    /\ due = {}
    /\ kept' = [i \in 1 .. Cardinality(DOMAIN agents) |-> agents[Order(DOMAIN agents)[i]]]
    /\ UNCHANGED <<agents, feed, due, shown>>

Restore ==
    /\ due = {}
    /\ kept # Nothing
    /\ Len(kept) = Cardinality(DOMAIN agents)
    /\ \E order \in {Order(DOMAIN agents)} :
          agents' = [a \in DOMAIN agents |-> kept[CHOOSE i \in DOMAIN order : order[i] = a]]
    /\ UNCHANGED <<feed, due, shown, kept>>

Next ==
    \/ \E a \in Ids : Enter(a) \/ Leave(a) \/ Tick(a) \/ Show(a)
    \/ \E inputs \in [DOMAIN agents -> Samples] : Launch(inputs)
    \/ \E S \in SUBSET Ids : Reset(S)
    \/ Keep \/ Restore

Spec == Init /\ [][Next]_<<agents, feed, due, shown, kept>>
=============================================================================
