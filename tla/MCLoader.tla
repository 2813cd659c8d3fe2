------------------------------ MODULE MCLoader ------------------------------
(* Images that are made, changed and booted.  A directory has one record   *)
(* in a block, so that a second entry of the root is in a second block.    *)
(* Of the hard disks the second is too small for the cylinder number: the  *)
(* blocks from 4 * 2 * 1 on cannot be reached.                             *)
EXTENDS Loader
LOCAL INSTANCE TLC

CONSTANTS System, Kernel, x, none, small, big, host

MCNames       == {System, Kernel, x}
MCSources     == {small, big}
MCSourceBytes == small :> 1 @@ big :> 5

MCHeap == [type: {"EMPTY", "JUNK"}, next: {FirstData}]

Cmd(op, path, src) == [op |-> op, path |-> path, src |-> src]

BootRequests ==
  {Cmd(op, << >>, small) : op \in {"genfs", "bootsect", "bootloader"}}
    \union {Cmd("mkdir", p, small) : p \in {<<System>>, <<System, Kernel>>}}
    \union {Cmd("add", <<System, Kernel>>, src) : src \in MCSources}
    \union {Cmd("add", <<x>>, src) : src \in MCSources}

Drive(kind, h, s) == [kind |-> kind, heads |-> h, sects |-> s]
HardDrives   == {Drive("hard", 2, 3), Drive("hard", 2, 1)}
FloppyDrives == {Drive("floppy", 2, n) : n \in {36, 18}}
AllDrives    == HardDrives \union FloppyDrives
=============================================================================
