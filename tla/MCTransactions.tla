--------------------------- MODULE MCTransactions ---------------------------
(* Small instances of MergeTreeTransactions.  The part a is there from the *)
(* beginning; m and n are later versions of it, and n covers m.  The part  *)
(* i is inserted.                                                          *)
EXTENDS MergeTreeTransactions

CONSTANTS a, m, n, i, x, y, z

MCCovers ==
  [p \in Parts |-> Parts \cap (IF p = m THEN {a} ELSE IF p = n THEN {a, m} ELSE {})]
MCWrites ==
  [t \in Txns |-> Parts \cap (IF t = x THEN {m} ELSE IF t = y THEN {n, i} ELSE {})]

(* Behaviours end with the race of the run about a killed write: a killed  *)
(* transaction has released its snapshot, and the file of a part that      *)
(* addNewPart() has not got names it.                                      *)
Explored ==
  ~\E t \in Txns, p \in on_disk :
      /\ csn[t] = RolledBackCSN /\ ~Running(t)
      /\ file[p].creation_tid = tid[t] /\ p \notin Range(creating[t])
=============================================================================
