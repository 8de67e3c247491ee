------------------------- MODULE SessionProperties -------------------------
(***************************************************************************)
(* What the persistent helper and its clients promise: approved rollbacks  *)
(* only, one at a time; a preview that holds; true answers to every        *)
(* request.                                                                *)
(***************************************************************************)
EXTENDS Session

(* Every variable stays in its range. *)
TypeOK ==
  /\ status \in [Backup -> Status]
  /\ lock \in Process \cup {Nobody}
  /\ alive \in [Client -> BOOLEAN] /\ consumed \in [Client -> BOOLEAN]
  /\ plan \in [Client -> Args \cup {NoArgs}]
  /\ inbox \in [Client -> Seq([id : Nat, req : Request])]
  /\ outbox \in [Client -> Seq(Message)]
  /\ work \in [Process -> Work]
  /\ user \in [Client -> User]
  /\ faults \in 0..MaxFaults
  /\ applying \subseteq Backup /\ overwritten \subseteq Backup /\ reached \subseteq Backup

-----------------------------------------------------------------------------
(* Refinement: the approval of a persistent helper is its unused plan, if  *)
(* it can be carried out; that of a one-shot helper is the backup the user *)
(* agreed to.  A command is taken once the lock is held.                   *)
ApprovedOf(p) ==
  IF p[2] = "once"
  THEN IF work[p].at = "lock" THEN {work[p].bid} ELSE {}
  ELSE IF consumed[p[1]] \/ plan[p[1]].mode # "safe" THEN {} ELSE {plan[p[1]].bid} \ {NoBackup}
ApprovedNow == [p \in Process |-> ApprovedOf(p)]

TakenOf(p) == IF work[p].at = "load" THEN {work[p].bid} ELSE {}
TakenNow == [p \in Process |-> TakenOf(p)]

NoRun == [agent |-> Nobody, backup |-> NoBackup]
RunningIn(w) ==
  IF \E p \in Process : w[p].at \in Changing
  THEN LET p == CHOOSE q \in Process : w[q].at \in Changing
       IN  [agent |-> p, backup |-> w[p].bid]
  ELSE NoRun
RunningNow == RunningIn(work)

Fresh  == {b \in Backup : status[b] = "none"}
Undone == {b \in Backup : status[b] = "rolled-back"}

Abstract == INSTANCE ApprovedRollback
  WITH Agent <- Process, approved <- ApprovedNow, taken <- TakenNow,
       running <- RunningNow, fresh <- Fresh, undone <- Undone

(* Both protocols implement the promise: no rollback without an approval   *)
(* that is still good, each approval for one rollback, one rollback at a   *)
(* time, none of a backup that does not exist or is rolled back, and a     *)
(* rolled-back one stays so unless its own apply still runs                *)
(* (_require_plan, the lock, cmd_rollback, BackupManager.save).            *)
ApprovedRollbacks == Abstract!SafeSpec

(* The same with its liveness: a rollback that runs also ends.             *)
ApprovedRollbacksEnd == Abstract!Spec

-----------------------------------------------------------------------------
(* The lock is held exactly inside the block of cmd_rollback that releases *)
(* it, whatever is raised there and whoever dies.                          *)
LockMatchesWork == \A p \in Process : lock = p <=> work[p].at \in Locked

(* Rolled back, and shown as such unless the backup's own apply has saved  *)
(* over it *)
RolledBack(b) == status[b] = "rolled-back" \/ b \in overwritten

(* An answer is the answer to the request that waits for it, though        *)
(* request() never compares the ids.  Who is told "rolled-back" finds the  *)
(* backup he asked for rolled back, then and later, except that an apply   *)
(* that still runs may save over the status.  Who is told "rollback        *)
(* completed" by the one-shot helper only knows that a rollback of this    *)
(* backup restored what it could: the answer hides a partial one.          *)
AnswersAreTrue ==
  \A c \in Client : user[c].at = "idle" =>
    /\ user[c].reply.id = user[c].id
    /\ user[c].reply.code = "rolled-back" => RolledBack(user[c].ask.args.bid)
    /\ user[c].reply.code = "completed" => user[c].ask.args.bid \in reached

(* A rollback that was previewed as possible and agreed to is refused as   *)
(* not eligible only when another one has rolled the backup back since     *)
(* (cmd_preview_rollback against cmd_rollback), be it that the backup's    *)
(* own apply has changed the status again.                                 *)
PreviewHolds ==
  \A c \in Client :
    (work[Once(c)].at \in {"release", "exited"} /\ work[Once(c)].code = "ROLLBACK_NOT_ELIGIBLE")
      => RolledBack(work[Once(c)].bid)

(* A used command is open again only after its rollback has ended or in a  *)
(* new process: E_OPERATION_ACTIVE uses it up too (_require_plan, and the  *)
(* comment in cmd_submit_plan).                                            *)
NotReopened ==
  [][\A c \in Client : (consumed[c] /\ ~consumed'[c])
       => work[Serve(c)].at = "release" \/ ~alive'[c]]_vars

(* Every request and every confirmed rollback ends with an answer, or the  *)
(* client ends: also when the helper dies, times out or refuses.           *)
RequestsAnswered ==
  \A c \in Client : user[c].at \in {"write", "wait", "watch"} ~> user[c].at \in {"idle", "gone"}
=============================================================================
