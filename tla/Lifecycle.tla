------------------------------ MODULE Lifecycle ------------------------------
(***************************************************************************)
(* What a reader of a registration can rely on, without sanctions, tokens  *)
(* or jobs: it is private until it is published; it may be withdrawn; it   *)
(* may be cancelled while it is private, and while its files are being     *)
(* copied; and it moves back only when another embargo is put on it.       *)
(***************************************************************************)
EXTENDS Naturals

VARIABLES
    phase,      \* what readers see of the registration
    embargoes,  \* how many embargoes were put on it
    copying     \* the archiver is still copying its files

TypeOK ==
    /\ phase \in {"private", "public", "withdrawn", "cancelled"}
    /\ embargoes \in Nat
    /\ copying \in BOOLEAN

Init == phase = "private" /\ embargoes \in {0, 1} /\ copying = TRUE

Publish ==
    /\ phase = "private"
    /\ phase' = "public"
    /\ UNCHANGED <<embargoes, copying>>

Withdraw ==
    /\ phase \in {"private", "public"}
    /\ phase' = "withdrawn"
    /\ UNCHANGED <<embargoes, copying>>

Cancel ==
    /\ phase = "private" \/ copying
    /\ phase' = "cancelled"
    /\ UNCHANGED <<embargoes, copying>>

Copied ==
    /\ copying
    /\ copying' = FALSE
    /\ UNCHANGED <<phase, embargoes>>

CopyFails ==
    /\ copying
    /\ copying' = FALSE
    /\ phase' = "cancelled"
    /\ UNCHANGED embargoes

Hide ==
    /\ embargoes' = embargoes + 1
    /\ phase' = IF phase = "cancelled" THEN phase ELSE "private"
    /\ UNCHANGED copying

Next == Publish \/ Withdraw \/ Cancel \/ Copied \/ CopyFails \/ Hide

Spec == Init /\ [][Next]_<<phase, embargoes, copying>>
=============================================================================
