--------------------------- MODULE MCPSCredential ---------------------------
(***************************************************************************)
(* PSCredential over the group of order 7 with three attributes.  The      *)
(* hash functions are fixed affine maps into Zr, which is all the          *)
(* equations need of them: a value that depends on its inputs.             *)
(***************************************************************************)
EXTENDS PSCredential


MCAttrsF == [i \in 0..2 |-> <<3, 5, 2>>[i + 1]]
MCIskY == [i \in 0..2 |-> <<2, 4, 6>>[i + 1]]
MCUskW == [i \in 0..2 |-> <<1, 3, 5>>[i + 1]]
MCMasks == [0..2 -> {0, 1}]
MCFSHash(C, K) == (3 * C + 5 * K + 1) % 7
=============================================================================
