-------------------------- MODULE ApprovedRollback --------------------------
(***************************************************************************)
(* What the two rollback protocols of the privileged helper promise,       *)
(* without processes, pipes and locks: a helper rolls back only a backup   *)
(* it was asked for by an approval that is still good; an approval is good *)
(* for one rollback; one rollback runs at a time; a backup that is rolled  *)
(* back is not rolled back again, and stays rolled back once the apply     *)
(* that made it has ended; and every rollback ends.                        *)
(***************************************************************************)
CONSTANTS
  Agent,    \* those who may roll back
  Backup,
  NoRun     \* no rollback is running: not a pair of the two

VARIABLES
  approved,  \* per agent, the backup it may take on, if any
  taken,     \* per agent, the backup it has taken on, if any
  running,   \* the rollback that may change the machine now, or NoRun
  fresh,     \* the backups that do not exist yet
  applying,  \* the backups whose own apply still runs
  undone     \* the backups that are rolled back

backups == <<fresh, applying, undone>>
vars == <<approved, taken, running, backups>>

Init ==
  /\ approved = [a \in Agent |-> {}] /\ taken = [a \in Agent |-> {}]
  /\ running = NoRun
  /\ fresh \subseteq Backup /\ applying = {}
  /\ undone \subseteq Backup \ fresh

(* An apply makes a backup, ... *)
Begin(b) ==
  /\ b \in fresh
  /\ fresh' = fresh \ {b} /\ applying' = applying \cup {b}
  /\ UNCHANGED <<approved, taken, running, undone>>

(* ... and until it has ended, it may take back what a rollback said. *)
Overwrite(b) ==
  /\ b \in applying
  /\ undone' = undone \ {b}
  /\ UNCHANGED <<approved, taken, running, fresh, applying>>

EndApply(b) ==
  /\ b \in applying
  /\ applying' = applying \ {b}
  /\ undone' \in {undone, undone \ {b}}
  /\ UNCHANGED <<approved, taken, running, fresh>>

(* A new approval replaces the one before. *)
Approve(a, b) ==
  /\ approved' = [approved EXCEPT ![a] = {b}]
  /\ UNCHANGED <<taken, running, backups>>

(* What a may do and has not begun is withdrawn: refused, or a has gone.   *)
Withdraw(a) ==
  /\ approved' = [approved EXCEPT ![a] = {}]
  /\ taken' = [taken EXCEPT ![a] = {}]
  /\ UNCHANGED <<running, backups>>

(* The approval is used up, whatever comes of it. *)
Take(a, b) ==
  /\ b \in approved[a]
  /\ approved' = [approved EXCEPT ![a] = {}]
  /\ taken' = [taken EXCEPT ![a] = {b}]
  /\ UNCHANGED <<running, backups>>

Start(a, b) ==
  /\ running = NoRun
  /\ b \in taken[a] \ (fresh \cup undone)
  /\ running' = [agent |-> a, backup |-> b]
  /\ taken' = [taken EXCEPT ![a] = {}]
  /\ UNCHANGED <<approved, backups>>

(* It ends with the backup rolled back, or not. *)
End ==
  /\ running # NoRun
  /\ undone' \in {undone, undone \cup {running.backup}}
  /\ running' = NoRun
  /\ UNCHANGED <<approved, taken, fresh, applying>>

Next ==
  \/ \E a \in Agent :
       \/ Withdraw(a)
       \/ \E b \in Backup : Approve(a, b) \/ Take(a, b) \/ Start(a, b)
  \/ \E b \in Backup : Begin(b) \/ Overwrite(b) \/ EndApply(b)
  \/ End

SafeSpec == Init /\ [][Next]_vars

(* Nothing is assumed but that what runs also ends. *)
Spec == SafeSpec /\ WF_vars(End)
=============================================================================
