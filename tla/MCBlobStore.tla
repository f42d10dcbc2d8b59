----------------------------- MODULE MCBlobStore ------------------------------
(***************************************************************************)
(* An instance of BlobStore for TLC: one item whose job runs twice, and    *)
(* another item beside it.                                                 *)
(***************************************************************************)
EXTENDS BlobStore, TLC

CONSTANTS voice, image, once, again, other

ThreePuts == {once, again, other}
Target == [p \in ThreePuts |-> IF p = other THEN image ELSE voice]

===============================================================================
