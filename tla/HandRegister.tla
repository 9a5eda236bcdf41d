--------------------------- MODULE HandRegister ---------------------------
(***************************************************************************)
(* What a hand slot of the shared-memory segment promises a reader: it is   *)
(* an atomic register.  A publish replaces the whole payload in one step,   *)
(* and a read returns the payload that is current when the read completes.  *)
(* HandSlot shows that the seqlock implements this.                         *)
(***************************************************************************)
CONSTANTS Readers,    \* processes that snapshot the slot
          Payloads,   \* what one publish can write
          Zero        \* the payload of a segment just created

VARIABLES payload,    \* the published payload
          out         \* reader -> the last snapshot it accepted

\* The register and the snapshots taken of it are payloads.
TypeOK == /\ payload \in Payloads
          /\ out \in [Readers -> Payloads]

Init == /\ payload = Zero
        /\ out = [r \in Readers |-> Zero]

Publish == /\ payload' \in Payloads
           /\ UNCHANGED out

Read(r) == /\ out' = [out EXCEPT ![r] = payload]
           /\ UNCHANGED payload

Next == Publish \/ \E r \in Readers : Read(r)

Spec == Init /\ [][Next]_<<payload, out>>
=============================================================================
