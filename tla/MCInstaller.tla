---------------------------- MODULE MCInstaller -----------------------------
(* Instances of Installer for TLC.                                         *)
EXTENDS Installer

CONSTANTS i1, i2, r1
=============================================================================
