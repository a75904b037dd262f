------------------------------ MODULE FastStack ------------------------------
(***************************************************************************)
(* What the fast executors (src/ir/exec/fast.c) rely on and promise: they  *)
(* pop and push without looking, because the validator                     *)
(* (src/ir/validate.c) found one depth of the stacks for every instruction *)
(* control can reach.  An instruction is reduced to what it takes from and *)
(* gives to the two stacks (numbers, bools) and where control goes after   *)
(* it.  ExprMachine implements this module.                                *)
(***************************************************************************)
EXTENDS Integers, Sequences

CONSTANT StackCapacity   \* CXPR_IR_STACK_CAPACITY

VARIABLES code,    \* the program: [take, give, next] of each instruction
          at,      \* the depths the validator found before each instruction; <<>> where
                   \* control never goes
          ip,      \* the instruction about to run; 0 when nothing runs
          depth    \* the operands on the two stacks

vars == <<code, at, ip, depth>>

Stacks == 1 .. 2

NoOperands == [k \in Stacks |-> 0]

(* The depths after an instruction. *)
After(instr, d) == [k \in Stacks |-> d[k] - instr.take[k] + instr.give[k]]

(* What the validator checks of an instruction that is reached with depth d. *)
Fits(instr, d) ==
    \A k \in Stacks : instr.take[k] <= d[k] /\ After(instr, d)[k] <= StackCapacity

(* A program the validator accepts. *)
Valid(c, a) ==
    /\ Len(c) \in Nat \ {0} /\ DOMAIN c = 1 .. Len(c) /\ DOMAIN a = DOMAIN c
    /\ a[1] = NoOperands
    /\ \A i \in DOMAIN c : a[i] # <<>> =>
          /\ Fits(c[i], a[i])
          /\ \A j \in c[i].next : j \in DOMAIN c /\ a[j] = After(c[i], a[i])

Init ==
    /\ code = <<>> /\ at = <<>>
    /\ ip = 0
    /\ depth = NoOperands

(* A program is compiled, or dropped. *)
LoadProgram ==
    /\ ip = 0
    /\ (code' = <<>> /\ at' = <<>>) \/ Valid(code', at')
    /\ UNCHANGED <<ip, depth>>

Enter ==
    /\ ip = 0
    /\ code # <<>>
    /\ ip' = 1
    /\ depth' = NoOperands
    /\ UNCHANGED <<code, at>>

Execute ==
    /\ ip # 0
    /\ ip' \in code[ip].next
    /\ depth' = After(code[ip], depth)
    /\ UNCHANGED <<code, at>>

(* RETURN, or an error. *)
Leave ==
    /\ ip # 0
    /\ ip' = 0
    /\ depth' = NoOperands
    /\ UNCHANGED <<code, at>>

Next == LoadProgram \/ Enter \/ Execute \/ Leave

Spec == Init /\ [][Next]_vars

-----------------------------------------------------------------------------
(* A running program is at an instruction of its code, with the depths the
   validator found there, so that popping what the instruction takes and pushing
   what it gives stays inside the stack arrays of cxpr_ir_exec_scalar_fast and
   cxpr_ir_exec_bool_fast. *)
StacksAsValidated ==
    ip # 0 => /\ ip \in DOMAIN code
              /\ depth = at[ip]
              /\ Fits(code[ip], depth)
=============================================================================
