------------------------------ MODULE Variables ------------------------------
(***************************************************************************)
(* What ALLOC, FREE, READ and WRITE promise a program that stays inside    *)
(* its variables: each variable has bytes of its own, which only a write   *)
(* to this variable changes.  What a new variable holds is left open.  An  *)
(* instruction may fail, and then changes nothing.                         *)
(***************************************************************************)
EXTENDS Integers

CONSTANTS
  Reg,              \* the registers that hold variables
  Byte,             \* the values of a byte
  Sizes,            \* the sizes of variables
  NoVariable        \* what a register without a variable has

VARIABLES
  content,          \* content[r]: the bytes of variable r, or NoVariable
  status            \* how the last instruction ended

variablesVars == <<content, status>>

Holds(r) == content[r] # NoVariable

VariablesInit ==
  /\ content = [r \in Reg |-> NoVariable]
  /\ status = "none"

New(r, size) ==
  /\ status' = "ok" /\ ~Holds(r)
  /\ \E bytes \in [0 .. size - 1 -> Byte] :
       content' = [content EXCEPT ![r] = bytes]

Drop(r) ==
  /\ status' = "ok" /\ Holds(r)
  /\ content' = [content EXCEPT ![r] = NoVariable]

Put(r, o, b) ==
  /\ status' = "ok" /\ Holds(r) /\ o \in DOMAIN content[r]
  /\ content' = [content EXCEPT ![r][o] = b]

Get(r, o) ==
  /\ Holds(r) /\ o \in DOMAIN content[r]
  /\ status' = content[r][o]
  /\ UNCHANGED content

Refuse == status' = "error" /\ UNCHANGED content

VariablesNext ==
  \/ \E r \in Reg :
       \/ Drop(r)
       \/ \E size \in Sizes :
            \/ New(r, size)
            \/ \E o \in 0 .. size - 1 : Get(r, o) \/ \E b \in Byte : Put(r, o, b)
  \/ Refuse

VariablesSpec == VariablesInit /\ [][VariablesNext]_variablesVars
=============================================================================
