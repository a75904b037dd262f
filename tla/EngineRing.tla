----------------------------- MODULE EngineRing -----------------------------
(***************************************************************************)
(* The circular buffers behind every engine lookback: the pull-source ring *)
(* and the argument ring of src/engine/source.c (doubles) and engine_ring  *)
(* (expression results).  The three share one layout: head is the newest   *)
(* sample, count saturates at cap, and depth counts back from head.        *)
(***************************************************************************)
EXTENDS Integers, Sequences

CONSTANTS
    NaN,      \* what a read outside the held history yields
    Garbage   \* content of a freshly allocated cell (malloc leaves it unset)

(* Mutant: the bound check of a read lets the oldest, overwritten depth in. *)
RingReadPast(r, depth) ==
    IF depth > r.count THEN NaN ELSE r.buf[(r.head + r.cap - depth) % r.cap]

NewRing(cap) == [buf |-> [i \in 0..cap-1 |-> Garbage], cap |-> cap, head |-> 0, count |-> 0]

(* engine_ring_append, engine_ringb_append, engine_arg_ring_append *)
RingAppend(r, v) ==
    LET h == (r.head + 1) % r.cap
    IN  [r EXCEPT !.head = h, !.buf = [@ EXCEPT ![h] = v],
                  !.count = IF @ < r.cap THEN @ + 1 ELSE @]

(* engine_ring_read, engine_ringb_read, engine_arg_ring_read *)
RingRead(r, depth) ==
    IF depth >= r.count THEN NaN ELSE r.buf[(r.head + r.cap - depth) % r.cap]

(* The tick's second write to a reserved expression slot: the newest sample is
   replaced in place. *)
RingFill(r, v) == [r EXCEPT !.buf = [@ EXCEPT ![r.head] = v]]

(* cxpr_engine_session_reset: the cells keep their old content. *)
RingReset(r) == [r EXCEPT !.head = 0, !.count = 0]

(* Rings of a capacity whose samples come from a given set. *)
RingType(cap, samples) ==
    [buf : [0..cap-1 -> samples \cup {NaN, Garbage}], cap : {cap},
     head : 0..cap-1, count : 0..cap]

(* What a ring promises: depth d is the d-th newest sample since the last
   reset, and NaN beyond the history or the capacity. *)
Sample(hist, cap, d) ==
    IF d < Len(hist) /\ d < cap THEN hist[Len(hist) - d] ELSE NaN
=============================================================================
