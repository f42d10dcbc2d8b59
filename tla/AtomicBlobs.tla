------------------------------ MODULE AtomicBlobs ------------------------------
(***************************************************************************)
(* What the blob store promises: a key has no blob or a whole one, a put   *)
(* replaces it in one step, and only a power loss takes it back -- to what *)
(* the key had before, never to part of anything.                          *)
(***************************************************************************)
CONSTANTS
    Keys,
    Puts,      \* calls of put(), each with bytes of its own
    KeyOf,     \* [Puts -> Keys]
    Missing

VARIABLES
    blob,      \* [Keys -> Puts \cup {Missing}]: whose bytes the key holds
    fallback   \* [Keys -> what a power loss may leave there]

vars == <<blob, fallback>>

Init ==
    /\ blob = [k \in Keys |-> Missing]
    /\ fallback = [k \in Keys |-> {Missing}]

Put(p) ==
    /\ blob' = [blob EXCEPT ![KeyOf[p]] = p]
    /\ fallback' = [fallback EXCEPT ![KeyOf[p]] = @ \cup {p}]

\* What a key holds has reached the disk.
Settle(k) ==
    /\ fallback' = [fallback EXCEPT ![k] = {blob[k]}]
    /\ UNCHANGED blob

PowerLoss ==
    /\ \A k \in Keys : blob'[k] \in fallback[k]
    /\ fallback' = [k \in Keys |-> {blob'[k]}]

Next ==
    \/ \E p \in Puts : Put(p)
    \/ \E k \in Keys : Settle(k)
    \/ blob' \in [Keys -> Puts \cup {Missing}] /\ PowerLoss

Spec == Init /\ [][Next]_vars

===============================================================================
