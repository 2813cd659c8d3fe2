----------------------------- MODULE MCGeometry -----------------------------
EXTENDS Geometry
(* The sizes of the usual floppies in KiB.                                 *)
FloppySizes == {160, 180, 320, 360, 720, 1200, 1440, 2880}
=============================================================================
