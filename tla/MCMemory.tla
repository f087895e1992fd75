------------------------------ MODULE MCMemory ------------------------------
(* Instances of Memory for TLC: granules of 16 addresses, blocks of 8 with  *)
(* three slots of 2, and code in two granules.                             *)
EXTENDS Memory

TwoModules == {40, 85}
CodeGranules == {32, 80}

(* The last address a block for the first origin may have is a granule,    *)
(* and blocks near it are out of reach of the second.                      *)
EdgeAndFar == {39, 85}
=============================================================================
