-------------------------- MODULE SnapshotIsolation --------------------------
(***************************************************************************)
(* What transactions over the parts of a table promise to their clients.   *)
(*                                                                         *)
(* A transaction takes as its snapshot some prefix of the order in which   *)
(* transactions commit.  It reads the parts that the prefix leaves, with   *)
(* its own changes on top.  It removes only parts that it sees, and only   *)
(* if no other transaction that is running or committed has removed them.  *)
(* Its changes take effect together when it commits, or never.             *)
(***************************************************************************)
EXTENDS Naturals, Sequences

CONSTANTS Txns, Parts, Initial

VARIABLES
  status,     \* status[x]
  order,      \* transactions with changes, in the order of their commits
  snapshot,   \* snapshot[x]: length of the prefix of order that x sees
  created,    \* created[x]: parts x has created
  removed,    \* removed[x]: parts x has removed
  answer      \* answer[x]: what x was told about a part

isolationVars == <<status, order, snapshot, created, removed, answer>>

NoAnswer == [part |-> "none", visible |-> FALSE]

IsolationInit ==
  /\ status = [x \in Txns |-> "idle"]
  /\ order = <<>>
  /\ snapshot = [x \in Txns |-> 0]
  /\ created = [x \in Txns |-> {}] /\ removed = [x \in Txns |-> {}]
  /\ answer = [x \in Txns |-> NoAnswer]

(* The transactions whose changes x sees, *)
Seen(x) == {order[i] : i \in 1 .. snapshot[x]} \cup {x}

(* and the parts that they leave. *)
View(x) == (Initial \cup UNION {created[y] : y \in Seen(x)})
             \ UNION {removed[y] : y \in Seen(x)}

BeginAt(x, length) ==
  /\ status[x] = "idle"
  /\ status' = [status EXCEPT ![x] = "running"]
  /\ snapshot' = [snapshot EXCEPT ![x] = length]
  /\ UNCHANGED <<order, created, removed, answer>>

Create(x, p) ==
  /\ status[x] = "running"
  /\ p \notin Initial /\ \A y \in Txns : p \notin created[y]
  /\ created' = [created EXCEPT ![x] = @ \cup {p}]
  /\ UNCHANGED <<status, order, snapshot, removed, answer>>

Remove(x, p) ==
  /\ status[x] = "running" /\ p \in View(x)
  /\ \A y \in Txns : p \in removed[y] => status[y] = "aborted"
  /\ removed' = [removed EXCEPT ![x] = @ \cup {p}]
  /\ UNCHANGED <<status, order, snapshot, created, answer>>

(* A running transaction reads its view; one that was rolled back behind   *)
(* its back may be told anything.                                          *)
Read(x, p, visible) ==
  /\ \/ status[x] = "running" /\ visible = (p \in View(x))
     \/ status[x] = "aborted"
  /\ answer' = [answer EXCEPT ![x] = [part |-> p, visible |-> visible]]
  /\ UNCHANGED <<status, order, snapshot, created, removed>>

Forget(x) ==
  /\ answer' = [answer EXCEPT ![x] = NoAnswer]
  /\ UNCHANGED <<status, order, snapshot, created, removed>>

Commits(x) ==
  /\ status[x] = "running"
  /\ status' = [status EXCEPT ![x] = "committed"]
  /\ order' = IF created[x] \cup removed[x] = {} THEN order ELSE Append(order, x)
  /\ UNCHANGED <<snapshot, created, removed, answer>>

Aborts(x) ==
  /\ status[x] = "running"
  /\ status' = [status EXCEPT ![x] = "aborted"]
  /\ UNCHANGED <<order, snapshot, created, removed, answer>>

(* A crash aborts everything that is running. *)
AllAbort ==
  /\ status' = [x \in Txns |-> IF status[x] = "running" THEN "aborted" ELSE status[x]]
  /\ answer' = [x \in Txns |-> NoAnswer]
  /\ UNCHANGED <<order, snapshot, created, removed>>

IsolationNext ==
  \/ \E x \in Txns :
       \/ \E length \in 0 .. Len(order) : BeginAt(x, length)
       \/ \E p \in Parts : Create(x, p) \/ Remove(x, p)
       \/ \E p \in Parts, visible \in BOOLEAN : Read(x, p, visible)
       \/ Forget(x) \/ Commits(x) \/ Aborts(x)
  \/ AllAbort

IsolationSpec == IsolationInit /\ [][IsolationNext]_isolationVars

=============================================================================
