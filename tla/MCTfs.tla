------------------------------- MODULE MCTfs -------------------------------
(* Small images for TLC.  An image of TotalBlocks = 10 blocks has a boot   *)
(* sector, one loader block, two map blocks with their mirrors and four    *)
(* data blocks.  Where there is one record in a directory block, the       *)
(* second entry of a directory makes it grow.                              *)
EXTENDS TfsInv
LOCAL INSTANCE TLC

CONSTANTS x, y, none, small, big, host

MCNames       == {x, y}
MCSources     == {small, big}
MCSourceBytes == small :> 1 @@ big :> 3

(* The map of such an image ends one or two entries behind the memory that *)
(* cmd_mkfs clears: what is there may look free or not, with a link.       *)
MCHeap == [type: {"EMPTY", "JUNK"}, next: {FirstData}]

Cmd(op, path, src) == [op |-> op, path |-> path, src |-> src]

(* Every command; files of both kinds at the root and one level down.      *)
AllRequests ==
  {Cmd(op, << >>, small) : op \in {"genfs", "bootsect", "bootloader", "df", "ls"}}
    \union {Cmd("ls", <<y>>, small), Cmd("export", <<x>>, small),
            Cmd("mkdir", <<y>>, small), Cmd("mkdir", <<y, x>>, small)}
    \union {Cmd("add", <<x>>, src) : src \in MCSources}
    \union {Cmd("add", <<y, x>>, src) : src \in MCSources}

(* Formats, of a new image and of the image that is there.                 *)
FormatRequests ==
  {Cmd("genfs", << >>, small), Cmd("mkfs", << >>, small),
   Cmd("mkdir", <<y>>, small), Cmd("mkdir", <<y, x>>, small),
   Cmd("add", <<x>>, small), Cmd("add", <<x>>, big)}
=============================================================================
