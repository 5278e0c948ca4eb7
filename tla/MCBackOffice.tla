---------------------------- MODULE MCBackOffice ----------------------------
(***************************************************************************)
(* Three parts of the backend that share no rows, checked in one run: the  *)
(* items sent to Tally, the refresh from Tally and the suppliers' bills.   *)
(* A behaviour plays one part and leaves the others where they began.      *)
(***************************************************************************)
EXTENDS ItemPush, Refill, InwardBill

CONSTANTS d, e       \* suppliers' invoices

VARIABLE part

MCDocs == {d, e}

(* An invoice, and another print of it that cannot be read to its end.     *)
MCPapers ==
  {[doc |-> d, data |-> 1, good |-> TRUE, open |-> FALSE, kind |-> "text"],
   [doc |-> d, data |-> 2, good |-> TRUE, open |-> FALSE, kind |-> "broken"]}

officeVars == <<part, itemVars, refillVars, inwardVars>>

(* All items sell at one rate at first. *)
OfficeInit ==
  /\ part \in {"items", "refill", "inward"}
  /\ ItemInit /\ rate = [k \in Items |-> 1]
  /\ RefillInit
  /\ InwardInit

OfficeNext ==
  \/ part = "items" /\ ItemNext /\ UNCHANGED <<part, refillVars, inwardVars>>
  \/ part = "refill" /\ RefillNext /\ UNCHANGED <<part, itemVars, inwardVars>>
  \/ part = "inward" /\ InwardNext /\ UNCHANGED <<part, itemVars, refillVars>>

OfficeSpec ==
  /\ OfficeInit /\ [][OfficeNext]_officeVars
  /\ part = "items" => ItemFairness
=============================================================================
