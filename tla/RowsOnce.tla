------------------------------- MODULE RowsOnce -------------------------------
(***************************************************************************)
(* What the loads of a Workspace promise of the rows that are prepared,    *)
(* seen from outside.  A load takes on every row that Odoo has not whole.  *)
(* Odoo changes only while a load goes on, and only in the rows it has not *)
(* settled; no record is made twice, and no field is written that refers   *)
(* to a record which is not there.  A row is called written only when Odoo *)
(* has its record and all its fields, what is settled stays so, and a load *)
(* is called whole only when all of its rows are written.                  *)
(***************************************************************************)
EXTENDS Naturals

CONSTANT Rows

VARIABLES
  fields,           \* prepared: [owner, refs, hard]
  count, written,   \* Odoo: records per row, fields in place
  told, verdict     \* what is said of the rows and of the load

Whole(r) == count[r] > 0 /\ \A f \in fields : f.owner = r => f \in written

Init ==
  /\ count \in [Rows -> 0..1] /\ written = {}
  /\ told = [r \in Rows |-> "none"] /\ verdict = "none"

Begin ==
  /\ verdict # "going" /\ verdict' = "going"
  /\ told' \in [Rows -> {"none", "open"}]
  /\ \A r \in Rows : told'[r] = "none" => Whole(r)
  /\ UNCHANGED <<fields, count, written>>

(* One call: its fields refer to what was there before it.                 *)
Write ==
  /\ verdict = "going"
  /\ \A r \in Rows :
       count'[r] # count[r] => told[r] = "open" /\ count[r] = 0 /\ count'[r] = 1
  /\ written \subseteq written'
  /\ \A f \in written' \ written :
       /\ f \in fields /\ told[f.owner] = "open" /\ count'[f.owner] > 0
       /\ \A p \in f.refs : count[p] > 0
  /\ UNCHANGED <<fields, told, verdict>>

Settle ==
  /\ verdict = "going"
  /\ \A r \in Rows : told'[r] # told[r] =>
       told[r] = "open" /\ (told'[r] = "left" \/ (told'[r] = "written" /\ Whole(r)))
  /\ UNCHANGED <<fields, count, written, verdict>>

End ==
  /\ verdict = "going" /\ verdict' \in {"whole", "partly", "released"}
  /\ verdict' = "whole" => \A r \in Rows : told[r] \in {"written", "none"}
  /\ UNCHANGED <<fields, count, written, told>>

Next == Begin \/ Write \/ Settle \/ End

Spec == Init /\ [][Next]_<<fields, count, written, told, verdict>>
=============================================================================
