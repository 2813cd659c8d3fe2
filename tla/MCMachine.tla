----------------------------- MODULE MCMachine -----------------------------
EXTENDS MachineInv
CONSTANTS left, arrow
AllModuleSets == SUBSET {"bus_ps2", "keyboard_ps2"}
(* Nothing is down; or a shift key is, and an extended key that undoes it. *)
SomeStarts == {[held |-> {}, on |-> {}, off |-> {}],
               [held |-> {left}, on |-> {}, off |-> {arrow}]}
=============================================================================
