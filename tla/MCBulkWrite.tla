---------------------------- MODULE MCBulkWrite ----------------------------
(* Small instances of BulkWrite for TLC: inputs with a refused row, and with *)
(* the same row twice.                                                       *)
EXTENDS BulkWrite

CONSTANTS k1, k2, k3, bad

MCKeys == {k1, k2, k3, bad}
MCInputs == {<<>>, <<k1, k2, k3>>, <<k2, bad, k2>>, <<k1, k1, k2>>}
MCRefused == {bad}
=============================================================================
