-------------------------------- MODULE MCFiles --------------------------------
(***************************************************************************)
(* Two uploads, a reader and a whole-file writer over three names; the board  *)
(* remembers one failed writer, so that a second finds the list full.         *)
(***************************************************************************)
EXTENDS Files

CONSTANTS c1, c2, r1, dest, part, pad

MCConns == {c1, c2}
MCReaders == {r1}
MCNames == {dest, part, pad}
=============================================================================
