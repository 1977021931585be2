------------------------------ MODULE ScanCycle ------------------------------
(***************************************************************************)
(* What a Data Link server promises the operator of a cutter, whoever is   *)
(* slow, lost or restarted on the way: in one scan cycle a barcode is read *)
(* once, one list of that barcode's jobs is offered, one of them is        *)
(* picked, and from then on nothing but that job is handed over. The       *)
(* cycle may be abandoned at any moment by scanning again.                 *)
(***************************************************************************)
EXTENDS Naturals, Sequences

CONSTANTS Barcodes, NoBarcode, Jobs

VARIABLES
    barcode,  \* the barcode read in this cycle
    offer,    \* the list offered for it
    pick,     \* the position picked in the list, or 0
    handed    \* what was handed over

cycleVars == <<barcode, offer, pick, handed>>

Init == barcode = NoBarcode /\ offer = <<>> /\ pick = 0 /\ handed = <<>>

Scan == barcode' = NoBarcode /\ offer' = <<>> /\ pick' = 0 /\ handed' = <<>>

Read ==
  /\ barcode = NoBarcode
  /\ barcode' \in Barcodes
  /\ UNCHANGED <<offer, pick, handed>>

Offer ==
  /\ barcode # NoBarcode /\ offer = <<>> /\ pick = 0
  /\ offer' \in Seq(Jobs)
  /\ \A i \in DOMAIN offer' : offer'[i].barcode = barcode
  /\ UNCHANGED <<barcode, pick, handed>>

Pick ==
  /\ pick = 0 /\ handed = <<>>
  /\ pick' \in DOMAIN offer
  /\ UNCHANGED <<barcode, offer, handed>>

(* Once more where the sender could not know that it had been handed over. *)
Hand ==
  /\ pick \in DOMAIN offer
  /\ \E copies \in 1..2 : handed' = handed \o [i \in 1..copies |-> offer[pick]]
  /\ UNCHANGED <<barcode, offer, pick>>

Next == Scan \/ Read \/ Offer \/ Pick \/ Hand

Spec == Init /\ [][Next]_cycleVars

=============================================================================
