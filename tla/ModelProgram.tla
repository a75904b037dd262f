---------------------------- MODULE ModelProgram ----------------------------
(***************************************************************************)
(* A compiled model (src/model/): inputs written by the host, states with  *)
(* staged updates, and let bindings.  An expression is abstracted to the   *)
(* names and lookback offsets it reads and to the function of what it      *)
(* reads that it computes; it may fail, as a division does.                *)
(***************************************************************************)
EXTENDS Integers, Sequences, FiniteSets, FiniteSetsExt

CONSTANTS
    Inputs,      \* names the host writes into the session context
    States,      \* state declarations
    Lets,        \* let bindings
    Updated,     \* states that have a `:=` update
    Buffers,     \* updated states declared buffer<number, samples = Capacity>
    Capacity,    \* samples of a state buffer
    Captured,    \* lookback targets that no context name holds: producer fields
    Reads,       \* binding or captured target -> set of <<name, offset>>
    Value,       \* binding or captured target -> what it yields for what it reads
    Outputs,     \* names listed in `out`
    Default,     \* scalar state -> initial value
    Numbers      \* the numbers an expression may yield

Bindings == Lets \cup Updated
Scalars == States \ Buffers
Names == Inputs \cup States \cup Lets \cup Captured

(* cxpr_model_collect_lookbacks: the lookbacks of all expressions.  A state
   buffer keeps samples of its own. *)
Sampled == {r \in UNION {Reads[b] : b \in DOMAIN Reads} : r[2] > 0 \/ r[1] \in Buffers}
Lookbacks == {r \in Sampled : r[1] \notin Buffers}
Histories == {r[1] : r \in Lookbacks}

(* cxpr_model_history_spec_add: a history is as deep as the largest offset. *)
Offsets(n) == {r[2] : r \in {q \in Lookbacks : q[1] = n}}
Depth == [n \in Histories |-> Max(Offsets(n))]

NaN == -1      \* what a lookback beyond the history yields
Fault == -2    \* an evaluation error: unknown identifier, division by zero
None == -3     \* no value yet
Results == Numbers \cup {NaN, Fault}

(* The names of a model are distinct (src/model/validate.c), and a producer
   field is not read as a name of the context. *)
ProgramAssumption ==
    /\ Inputs \cap States = {} /\ (Inputs \cup States) \cap Lets = {}
    /\ (Inputs \cup States \cup Lets) \cap Captured = {}
    /\ Updated \subseteq States /\ Buffers \subseteq Updated
    /\ Outputs \subseteq Scalars \cup Lets
    /\ IsFiniteSet(Bindings)
    /\ Reads \in [Bindings \cup Captured -> SUBSET (Names \X Nat)]
    /\ IsFiniteSet(UNION {Reads[b] : b \in DOMAIN Reads})
    /\ \A b \in DOMAIN Reads : \A c \in Captured : <<c, 0>> \notin Reads[b]
    /\ \A b \in DOMAIN Reads : Value[b] \in [[Reads[b] -> Results] -> Results]
    /\ Numbers \subseteq Nat /\ Numbers # {}
    /\ Default \in [Scalars -> Numbers]
    /\ Capacity \in Nat \ {0}

(* A binding reads the input now and cannot be computed without it. *)
Needed(i) ==
    \E b \in Bindings :
        /\ <<i, 0>> \in Reads[b]
        /\ \A got \in [Reads[b] -> Results] : got[<<i, 0>>] = Fault => Value[b][got] = Fault

(* What expression b reads, where the names have the values of `value` and
   lookbacks and state buffers yield what was seen before. *)
Got(b, value, seen) ==
    [r \in Reads[b] |-> IF r \in Sampled THEN seen[r] ELSE value[r[1]]]

(* The value of every name in a tick with these inputs, states and samples. *)
Meaning(in, st, seen) ==
    LET value[n \in Names] ==
            IF n \in Inputs THEN in[n]
            ELSE IF n \in Scalars THEN st[n]
            ELSE IF n \in Buffers THEN Fault
            ELSE Value[n][Got(n, value, seen)]
    IN  value

(* cxpr_context_get, and the setters of a context: name -> value, partial. *)
Lookup(c, n) == IF n \in DOMAIN c THEN c[n] ELSE Fault
Assign(f, n, v) == [m \in DOMAIN f \cup {n} |-> IF m = n THEN v ELSE f[m]]

(* cxpr_expression_depends_on between two bindings.  An update is ordered
   under a hidden name, so nothing depends on it. *)
DependsOnLet(b, n) == n \in Lets /\ \E r \in Reads[b] : r[1] = n

(* The orders a dependency sort of the bindings may produce: every binding
   once, after the lets it reads. *)
Listings ==
    {order \in [1..Cardinality(Bindings) -> Bindings] :
        /\ \A b \in Bindings : \E i \in DOMAIN order : order[i] = b
        /\ \A i, j \in DOMAIN order : i # j => order[i] # order[j]}

Topological(order) ==
    \A i, j \in DOMAIN order : DependsOnLet(order[j], order[i]) => i < j

Orders == {order \in Listings : Topological(order)}

(* An output record: the value of the last refresh and the one before it, which
   is what is_rising, is_falling and is_changed compare. *)
NoOutput == [current |-> None, previous |-> None]
Shown(o, v) == [current |-> v, previous |-> o.current]
=============================================================================
