--------------------------- MODULE MCLoadExecution ---------------------------
EXTENDS LoadExecution

Required(r, p) == [owner |-> r, refs |-> {p}, hard |-> TRUE]
Optional(r, p) == [owner |-> r, refs |-> {p}, hard |-> FALSE]
Prepared(g, existing, remote, n, m) ==
  [fields |-> g, existing |-> existing, remote |-> remote, loads |-> n, crashes |-> m]

(* Four creates and an update.  The fourth needs the first; it refers to   *)
(* the third, and the first and the third refer to it, so that these two   *)
(* references are put off.  The first three are one batch of three, which  *)
(* is taken apart twice.                                                   *)
Deferring ==
  {Required(4, 1), Optional(1, 4), Optional(3, 4), Optional(4, 3), Required(5, 2)}

(* A create whose reference forward is put off, and a create that needs    *)
(* it: of two rows, or with an update behind them.                         *)
Pair == {Optional(1, 2), Required(2, 1)}
Chain == Pair \cup {Required(3, 2)}

(* One load with two exits; one that may be repeated after a comparison,   *)
(* on a local target; and two creates on a remote one, where comparisons   *)
(* are also taken, and the load is given up for one, while it is open.     *)
ExecutionRows == 1..5
ExecutionSituations ==
  {Prepared(Deferring, {5}, FALSE, 1, 2),
   Prepared(Chain, {3, 4, 5}, FALSE, 2, 1),
   Prepared({}, {3, 4, 5}, TRUE, 2, 1)}

(* Every way in which each of three creates may refer to one row, and      *)
(* repeated loads of a pair of creates and of a create and an update.      *)
RemoteRows == 1..3
Reference == [owner : RemoteRows, refs : {{p} : p \in RemoteRows}, hard : BOOLEAN]
Sparse == {g \in SUBSET Reference : \A f, h \in g : f.owner = h.owner => f = h}
RemoteSituations ==
  {Prepared(g, {}, TRUE, 1, 0) : g \in Sparse}
  \cup {Prepared(Pair, {3}, TRUE, 2, 1), Prepared({Required(2, 1)}, {2, 3}, TRUE, 2, 1)}
=============================================================================
