-------------------------------- MODULE Bulk --------------------------------
(***************************************************************************)
(* Bulk execution of a generated model: the store of the agents' state     *)
(* blocks (src/bulk_state_store.c), ranges of them ticked by the workers   *)
(* of a host (src/bulk.c) and snapshots of all blocks                      *)
(* (src/bulk_snapshot.c).                                                  *)
(*                                                                         *)
(* The store keeps two arrays side by side, IDs in ascending order and the *)
(* state blocks, and moves the tails of both when an agent comes or goes.  *)
(* A worker ticks the blocks of its range in place, row after row, while   *)
(* other workers tick theirs.                                              *)
(*                                                                         *)
(* The generated tick is external: a block is the sequence of the inputs   *)
(* it was ticked with since its reset, and the output of a tick is the new *)
(* block.  Rows are counted from 1.  The host keeps to the contract of     *)
(* docs/api/bulk.md: it binds the view anew for every launch, hands out    *)
(* every row at most once, and changes the store only while no range runs. *)
(***************************************************************************)
EXTENDS Integers, Sequences, FiniteSets

CONSTANTS Ids,         \* agent IDs, positive numbers
          Workers,     \* threads of the host
          Capacity0,   \* 8: blocks of the first allocation
          Layouts,     \* layout IDs of the descriptors the host may pass
          MaxLaunches, \* bound on the launches
          MaxChanges,  \* bound on the calls between launches
          Nothing      \* an unset cell

VARIABLES ids,         \* store->ids, all cells
          states,      \* store->states
          count,       \* store->count
          view,        \* the bound view: the IDs of its rows, its input column, strides
          outputs,     \* the output column of the view
          undone,      \* rows of the launch the host has not handed out
          worker,      \* worker -> its call of cxpr_bulk_run_range
          snap,        \* the snapshot, Nothing before one is made
          launches, changes

vars == <<ids, states, count, view, outputs, undone, worker, snap, launches, changes>>

Store == <<ids, states, count>>

Resting == [pc |-> "rest", at |-> 1, end |-> 1, out |-> Nothing]

(* No range runs and every row was handed out. *)
Idle == undone = {} /\ \A w \in Workers : worker[w] = Resting

-----------------------------------------------------------------------------
(* The store *)

(* The loop of lower_bound over the n rows from first. *)
RECURSIVE LowerFrom(_, _, _)
LowerFrom(id, first, n) ==
    LET step == n \div 2
    IN  IF n = 0 THEN first
        ELSE IF ids[first + step] < id THEN LowerFrom(id, first + step + 1, n - (step + 1))
        ELSE LowerFrom(id, first, step)

(* lower_bound: the first row whose ID is not below id. *)
LowerBound(id) == LowerFrom(id, 1, count)

Found(id) == LowerBound(id) <= count /\ ids[LowerBound(id)] = id

(* memmove of n cells inside an array *)
Move(cells, to, from, n) ==
    [i \in DOMAIN cells |-> IF i \in to .. to + n - 1 THEN cells[from + (i - to)] ELSE cells[i]]

(* reserve: both arrays are copied into larger ones; their new cells are unset. *)
Reserve(cells) ==
    IF count < Len(cells) THEN cells
    ELSE cells \o [i \in 1 .. (IF cells = <<>> THEN Capacity0 ELSE Len(cells)) |-> Nothing]

(* Mutant: the tail of the blocks is moved one block short. *)
OpenedShort(cells, row, x) ==
    [Move(Reserve(cells), row + 1, row, count - row) EXCEPT ![row] = x]

(* The cells with x inserted at row. *)
Opened(cells, row, x) ==
    [Move(Reserve(cells), row + 1, row, count - row + 1) EXCEPT ![row] = x]

(* A call between launches. *)
Change == changes < MaxChanges /\ changes' = changes + 1

(* cxpr_bulk_state_store_add: a new block is zeroed and reset. *)
Add(id) ==
    /\ Idle
    /\ Change
    /\ IF Found(id) THEN UNCHANGED Store
       ELSE /\ ids' = Opened(ids, LowerBound(id), id)
            /\ states' = Opened(states, LowerBound(id), <<>>)
            /\ count' = count + 1
    /\ UNCHANGED <<view, outputs, undone, worker, snap, launches>>

(* cxpr_bulk_state_store_remove *)
Remove(id) ==
    /\ Idle
    /\ Change
    /\ LET row == LowerBound(id)
       IN  IF ~Found(id) THEN UNCHANGED Store
           ELSE /\ ids' = Move(ids, row, row + 1, count - row)
                /\ states' = Move(states, row, row + 1, count - row)
                /\ count' = count - 1
    /\ UNCHANGED <<view, outputs, undone, worker, snap, launches>>

-----------------------------------------------------------------------------
(* Running *)

(* cxpr_bulk_validate: one output cell for several rows is no column. *)
Validate(v) == IF v.outStride = 0 /\ Len(v.rows) > 1 THEN "missing_buffer" ELSE "ok"

(* What cxpr_bulk_run_range and cxpr_bulk_reset_range check first. *)
RangeStatus(begin, n) ==
    IF Validate(view) # "ok" THEN Validate(view)
    ELSE IF begin > Len(view.rows) \/ n > Len(view.rows) - begin THEN "out_of_bounds"
    ELSE "ok"

(* The host binds a view to the store (cxpr_bulk_state_store_bind_view), gathers
   the inputs in the order of the IDs, or a single one with stride 0, and
   validates the view.  The input meant for an agent is its ID, the single one
   is 0. *)
Bind(stride, outStride) ==
    /\ Idle
    /\ launches < MaxLaunches
    /\ count > 0
    /\ launches' = launches + 1
    /\ LET rows == SubSeq(ids, 1, count)
           v == [rows |-> rows, inputs |-> IF stride = 0 THEN <<0>> ELSE rows, stride |-> stride,
                 outStride |-> outStride]
       IN  IF Validate(v) # "ok" THEN UNCHANGED <<view, outputs, undone>>
           ELSE /\ view' = v
                /\ outputs' = [i \in 1 .. (IF outStride = 0 THEN 1 ELSE count) |-> Nothing]
                /\ undone' = 1 .. count
    /\ UNCHANGED <<Store, worker, snap, changes>>

(* The host hands rows begin + 1 to begin + n to a worker; a range beyond the
   view is refused. *)
Dispatch(w, begin, n) ==
    /\ undone # {}
    /\ worker[w] = Resting
    /\ IF RangeStatus(begin, n) # "ok" THEN UNCHANGED <<worker, undone>>
       ELSE /\ begin + 1 .. begin + n \subseteq undone
            /\ n > 0
            /\ worker' = [worker EXCEPT ![w] = [pc |-> "tick", at |-> begin + 1,
                                                end |-> begin + n + 1, out |-> Nothing]]
            /\ undone' = undone \ (begin + 1 .. begin + n)
    /\ UNCHANGED <<Store, view, outputs, snap, launches, changes>>

(* The input of a row: index i * stride, 0 for a stride of 0. *)
InputAt(row) == view.inputs[IF view.stride = 0 THEN 1 ELSE row]

OutputAt(row) == IF view.outStride = 0 THEN 1 ELSE row

(* descriptor->tick of the worker's row *)
TickRow(w) ==
    /\ worker[w].pc = "tick"
    /\ LET row == worker[w].at
       IN  /\ states' = [states EXCEPT ![row] = Append(@, InputAt(row))]
           /\ worker' = [worker EXCEPT ![w].pc = "store", ![w].out = states'[row]]
    /\ UNCHANGED <<ids, count, view, outputs, undone, snap, launches, changes>>

(* The worker copies the outputs of its row and goes on to the next row, or
   returns. *)
StoreOutputs(w) ==
    /\ worker[w].pc = "store"
    /\ outputs' = [outputs EXCEPT ![OutputAt(worker[w].at)] = worker[w].out]
    /\ worker' = [worker EXCEPT ![w] = IF @.at + 1 = @.end THEN Resting
                                       ELSE [@ EXCEPT !.pc = "tick", !.at = @ + 1, !.out = Nothing]]
    /\ UNCHANGED <<Store, view, undone, snap, launches, changes>>

(* cxpr_bulk_reset_range of the view as it was bound *)
ResetRange(begin, n) ==
    /\ Idle
    /\ view.rows # <<>> /\ view.rows = SubSeq(ids, 1, count)
    /\ Change
    /\ IF RangeStatus(begin, n) # "ok" THEN UNCHANGED states
       ELSE states' = [i \in DOMAIN states |-> IF i \in begin + 1 .. begin + n THEN <<>> ELSE states[i]]
    /\ UNCHANGED <<ids, count, view, outputs, undone, worker, snap, launches>>

-----------------------------------------------------------------------------
(* Snapshots.  The hash of the descriptor stands for its layout, the checksum
   of a payload for the payload itself. *)

Payload == SubSeq(states, 1, count)

(* cxpr_bulk_snapshot_create of the bound store *)
Create(layout) ==
    /\ Idle
    /\ Change
    /\ snap' = [magic |-> TRUE, version |-> 1, layout |-> layout, count |-> count,
                payload |-> Payload, sum |-> Payload]
    /\ UNCHANGED <<Store, view, outputs, undone, worker, launches>>

(* What storage may make of a snapshot: a field of the header or a byte of the
   payload changes, or its end is missing. *)
Damages(s) ==
    {[s EXCEPT !.magic = FALSE], [s EXCEPT !.version = 2], [s EXCEPT !.layout = 0],
     [s EXCEPT !.count = @ + 1], [s EXCEPT !.sum = <<Nothing>>]}
      \cup {[s EXCEPT !.payload[i] = <<Nothing>>] : i \in DOMAIN s.payload}
      \cup (IF s.payload = <<>> THEN {} ELSE {[s EXCEPT !.payload = SubSeq(@, 1, Len(@) - 1)]})

(* The checks of cxpr_bulk_snapshot_restore, all before the first block is
   written. *)
RestoreStatus(s, layout) ==
    IF ~s.magic THEN "format"
    ELSE IF s.version # 1 THEN "version"
    ELSE IF s.layout # layout THEN "layout"
    ELSE IF s.count # count THEN "count"
    ELSE IF Len(s.payload) # count THEN "format"
    ELSE IF s.sum # s.payload THEN "checksum"
    ELSE "ok"

(* cxpr_bulk_snapshot_restore of what the host reads back *)
Restore(read, layout) ==
    /\ Idle
    /\ Change
    /\ states' = IF RestoreStatus(read, layout) # "ok" THEN states
                 ELSE [i \in DOMAIN states |-> IF i \in DOMAIN read.payload THEN read.payload[i] ELSE states[i]]
    /\ UNCHANGED <<ids, count, view, outputs, undone, worker, snap, launches>>

-----------------------------------------------------------------------------
Init ==
    /\ ids = <<>> /\ states = <<>> /\ count = 0
    /\ view = [rows |-> <<>>, inputs |-> <<>>, stride |-> 0, outStride |-> 1]
    /\ outputs = <<>>
    /\ undone = {}
    /\ worker = [w \in Workers |-> Resting]
    /\ snap = Nothing
    /\ launches = 0 /\ changes = 0

Step(w) == TickRow(w) \/ StoreOutputs(w)

Next ==
    \/ \E id \in Ids : Add(id) \/ Remove(id)
    \/ \E stride, outStride \in {0, 1} : Bind(stride, outStride)
    \/ \E w \in Workers, begin, n \in 0 .. Cardinality(Ids) : Dispatch(w, begin, n)
    \/ \E w \in Workers : Step(w)
    \/ \E begin, n \in 0 .. Cardinality(Ids) : ResetRange(begin, n)
    \/ \E layout \in Layouts :
          \/ Create(layout)
          \/ snap # Nothing /\ \E read \in {snap} \cup Damages(snap) : Restore(read, layout)

Spec == Init /\ [][Next]_vars

-----------------------------------------------------------------------------
(* Properties *)

(* What an array of cells holds for each agent of a list of rows. *)
ById(rows, cell(_)) == [id \in {rows[i] : i \in DOMAIN rows} |-> cell(CHOOSE i \in DOMAIN rows : rows[i] = id)]

(* The rows of the launch that no worker has ticked. *)
Unticked ==
    undone \cup UNION {{i \in worker[w].at .. worker[w].end - 1 : worker[w].pc = "tick" \/ i > worker[w].at}
                         : w \in Workers}

Population == INSTANCE BulkPopulation WITH
    Samples <- Ids \cup {0},
    agents <- ById(SubSeq(ids, 1, count), LAMBDA i : states[i]),
    feed <- ById(view.rows, InputAt),
    due <- {ids[i] : i \in Unticked},
    shown <- ById(view.rows, LAMBDA i : outputs[OutputAt(i)]),
    kept <- IF snap = Nothing THEN Nothing ELSE snap.payload

(* Every agent keeps a state of its own while others come and go, a launch ticks
   each agent once with its own input whichever worker has its row and however
   the workers are interleaved, and a snapshot is restored to all agents or, if
   it is damaged or of another layout or size, to none
   (cxpr_bulk_state_store_add and _remove, cxpr_bulk_run_range,
   cxpr_bulk_snapshot_restore). *)
ImplementsPopulation == Population!Spec
=============================================================================
