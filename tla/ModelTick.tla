----------------------------- MODULE ModelTick -----------------------------
(***************************************************************************)
(* What a model session promises, whatever the backend and the order in    *)
(* which it evaluates: a tick computes every binding from the inputs, the  *)
(* states as they were when the tick began and the samples of earlier      *)
(* ticks; all updates take effect together; a tick that fails changes      *)
(* nothing.                                                                *)
(***************************************************************************)
EXTENDS ModelProgram

VARIABLES
    in,     \* input -> value, Fault while the host has not written it
    st,     \* scalar state -> value
    bufs,   \* state buffer -> its samples, newest first
    past,   \* name with a history -> samples of earlier ticks, newest first
    out,    \* output -> [current, previous]
    ok      \* what the last tick returned

vars == <<in, st, bufs, past, out, ok>>

Sample(samples, k) == IF k \in DOMAIN samples THEN samples[k] ELSE NaN
Newest(samples, v, n) == SubSeq(<<v>> \o samples, 1, Min({n, Len(samples) + 1}))

(* What lookbacks and state buffers yield in the tick that starts now. *)
Seen ==
    [r \in Sampled |-> IF r[1] \in Buffers THEN Sample(bufs[r[1]], r[2] + 1)
                       ELSE Sample(past[r[1]], r[2])]

(* The value of every name in that tick, and of every update. *)
Now == Meaning(in, st, Seen)
Update(s) == Value[s][Got(s, Now, Seen)]

Succeeds ==
    /\ \A n \in Lets \cup Captured : Now[n] # Fault
    /\ \A s \in Updated : Update(s) # Fault

Init ==
    /\ in = [i \in Inputs |-> Fault]
    /\ st = Default
    /\ bufs = [b \in Buffers |-> <<>>]
    /\ past = [n \in Histories |-> <<>>]
    /\ out = [o \in Outputs |-> NoOutput]
    /\ ok = TRUE

SetInput ==
    /\ \E i \in Inputs, v \in Numbers : in' = [in EXCEPT ![i] = v]
    /\ UNCHANGED <<st, bufs, past, out, ok>>

Tick ==
    /\ Succeeds
    /\ st' = [s \in Scalars |-> IF s \in Updated THEN Update(s) ELSE st[s]]
    /\ bufs' = [b \in Buffers |-> Newest(bufs[b], Update(b), Capacity)]
    /\ past' = [n \in Histories |-> Newest(past[n], Now[n], Depth[n])]
    /\ out' = [o \in Outputs |-> Shown(out[o], IF o \in Updated THEN Update(o) ELSE Now[o])]
    /\ ok' = TRUE
    /\ UNCHANGED in

FailedTick ==
    /\ ~Succeeds
    /\ ok' = FALSE
    /\ UNCHANGED <<in, st, bufs, past, out>>

Next == SetInput \/ Tick \/ FailedTick

Spec == Init /\ [][Next]_vars
=============================================================================
