------------------------------ MODULE Session ------------------------------
(***************************************************************************)
(* The persistent helper (privileged_helper.Helper.serve) and the clients  *)
(* that talk to it by JSON lines (HelperSession.request, the rollback      *)
(* commands of cli.py).                                                    *)
(*                                                                         *)
(* Each client has a helper process of its own, started when it is first   *)
(* needed and again after it has ended.  A rollback runs either in it, for *)
(* a submitted plan, or in a one-shot process that `--rollback` starts     *)
(* after a preview.  What all of them share is the manifests' status and   *)
(* the operation lock.  Module Helper has the rollback itself; here it is  *)
(* the steps that move the status, and the applies of other helpers, which *)
(* take the lock for none of it.  The backup a safety snapshot begins for  *)
(* itself is one more apply that begins and writes nothing.                *)
(***************************************************************************)
EXTENDS RollbackPlan, Sequences

CONSTANTS
  Client,       \* programs that use a HelperSession
  Backup,       \* backup ids
  Mode,         \* rollback modes asked for; only "safe" is supported
  Found,        \* statuses the backups may have at first
  NoBackup,     \* no backup id
  Nobody,       \* nobody holds the lock
  Uses,         \* per client, the commands it sends
  MaxRequests,  \* per client, the requests it sends
  MaxFaults     \* processes killed and exceptions inside a rollback

ASSUME NoBackupAssumption == NoBackup \notin Backup
ASSUME NobodyAssumption   == Nobody \notin Client \X {"serve", "once"}
ASSUME ModeAssumption     == "safe" \in Mode
ASSUME FoundAssumption    == Found # {} /\ Found \subseteq Status
ASSUME UsesAssumption     ==
  Uses \in [Client -> SUBSET {"read", "preview-rollback", "submit-plan", "rollback"}]
ASSUME BoundAssumption    == MaxRequests \in [Client -> Nat] /\ MaxFaults \in Nat

Serve(c) == <<c, "serve">>   \* c's persistent helper
Once(c)  == <<c, "once">>    \* the one-shot helper c starts
Process  == Client \X {"serve", "once"}

VARIABLES
  status,    \* manifest status of each backup
  applying,  \* backups whose own apply still runs
  lock,      \* process that holds the operation lock
  alive,     \* does the persistent helper of c run
  plan,      \* its approved arguments of "rollback" (plan_commands), or NoArgs
  consumed,  \* has it used the command up (consumed_commands)
  inbox,     \* requests written to it and not answered
  outbox,    \* answers it has written and c has not read
  work,      \* where each process stands
  user,      \* where each client stands
  faults,
  overwritten, \* history: backups whose apply saved over "rolled-back"
  reached      \* history: backups that a rollback restored, at least in part

procVars == <<alive, plan, consumed, inbox, outbox>>
manifests == <<status, applying, overwritten, reached>>
vars == <<manifests, lock, alive, plan, consumed, inbox, outbox, work, user, faults>>

-----------------------------------------------------------------------------
Args   == [bid : Backup, mode : Mode]
NoArgs == [bid |-> NoBackup, mode |-> "safe"]

(* Requests a HelperSession can send.  "read" stands for everything that   *)
(* leaves the session as it is: the other read-only commands, unknown ones *)
(* and plans that cmd_submit_plan rejects.  A plan without commands has no *)
(* arguments.                                                              *)
Request == [cmd : {"read"}, args : {NoArgs}]
             \cup [cmd : {"preview-rollback"}, args : [bid : Backup, mode : {"safe"}]]
             \cup [cmd : {"submit-plan"}, args : Args \cup {NoArgs}]
             \cup [cmd : {"rollback"}, args : Args]
NoRequest == [cmd |-> "none", args |-> NoArgs]

Code == {"none", "ok", "eligible", "not eligible", "NOT_IN_PLAN",
         "E_OPERATION_ACTIVE", "UNSUPPORTED_ROLLBACK_MODE",
         "ROLLBACK_NOT_ELIGIBLE", "SAFETY_SNAPSHOT_FAILED", "INTERNAL",
         "HELPER_DIED", "BROKEN_PIPE", "completed",
         "rolled-back", "rolled-back-partial", "rollback-failed"}

(* Wrong variant: a status that is not one of STORED_STATUSES. *)
FinalUnstored == {"rolled-back", "partial", "rollback-failed"}
Final == {"rolled-back", "rolled-back-partial", "rollback-failed"}
Success == {"rolled-back", "rolled-back-partial"}

Message == [id : Nat, code : Code]

(* "idle" is the select loop, or a one-shot helper not started; "leaving"  *)
(* has timed out and will return; the others are places in cmd_rollback.   *)
(* "orig" is a status it has read and may write again.                     *)
Changing == {"mark", "snapshot", "run"}
Locked   == {"load", "release"} \cup Changing
At       == {"idle", "leaving", "lock", "exited"} \cup Locked
Work     == [at : At, bid : Backup \cup {NoBackup}, orig : Status, code : Code]
NoWork   == [at |-> "idle", bid |-> NoBackup, orig |-> "none", code |-> "none"]

User   == [at : {"idle", "write", "wait", "watch", "gone"},
           ask : Request \cup {NoRequest}, id : Nat, reply : Message]
NoReply == [id |-> 0, code |-> "none"]
NoUser  == [at |-> "idle", ask |-> NoRequest, id |-> 0, reply |-> NoReply]

Init ==
  /\ status \in [Backup -> Found]
  /\ applying = {} /\ overwritten = {} /\ reached = {}
  /\ lock = Nobody
  /\ alive = [c \in Client |-> FALSE]
  /\ plan = [c \in Client |-> NoArgs] /\ consumed = [c \in Client |-> FALSE]
  /\ inbox = [c \in Client |-> <<>>] /\ outbox = [c \in Client |-> <<>>]
  /\ work = [p \in Process |-> NoWork]
  /\ user = [c \in Client |-> NoUser]
  /\ faults = 0

Gone(c)   == user[c].at = "gone"

(* Wrong variant: the lock outlives the rollback. *)
FreeNot(p) == UNCHANGED lock
Free(p)   == lock' = IF lock = p THEN Nobody ELSE lock
Goto(p, l) == work' = [work EXCEPT ![p] = [@ EXCEPT !.at = l]]
Fault     == faults < MaxFaults /\ faults' = faults + 1

(* mark_status and save: the manifest is written whole. *)
Save(b, s) == status' = [status EXCEPT ![b] = s]

(* The process ends, by itself or not: nothing of it survives but what it  *)
(* has written.                                                            *)
Stop(c) ==
  /\ alive' = [alive EXCEPT ![c] = FALSE]
  /\ plan' = [plan EXCEPT ![c] = NoArgs]
  /\ consumed' = [consumed EXCEPT ![c] = FALSE]
  /\ inbox' = [inbox EXCEPT ![c] = <<>>]

-----------------------------------------------------------------------------
(* The client: HelperSession and the rollback commands *)

(* _ensure: a helper is started unless one runs, with pipes of its own. *)
Ensure(c) ==
  /\ alive' = [alive EXCEPT ![c] = TRUE]
  /\ outbox' = [outbox EXCEPT ![c] = IF alive[c] THEN @ ELSE <<>>]
  /\ UNCHANGED <<plan, consumed, inbox>>

Ask(c) ==
  /\ user[c].at = "idle" /\ user[c].id < MaxRequests[c]
  /\ \E r \in Request :
       /\ r.cmd \in Uses[c]
       /\ user' = [user EXCEPT ![c] = [at |-> "write", ask |-> r, id |-> @.id + 1,
                                       reply |-> NoReply]]
  /\ Ensure(c)
  /\ UNCHANGED <<manifests, lock, work, faults>>

(* request() or rollback() returns, or raises. *)
Told(c, m) == user' = [user EXCEPT ![c] = [@ EXCEPT !.at = "idle", !.reply = m]]

(* The pipe of a process that has ended since raises. *)
Write(c) ==
  /\ user[c].at = "write"
  /\ IF alive[c]
     THEN /\ inbox' = [inbox EXCEPT ![c] = Append(@, [id |-> user[c].id,
                                                      req |-> user[c].ask])]
          /\ user' = [user EXCEPT ![c] = [@ EXCEPT !.at = "wait"]]
     ELSE /\ Told(c, [id |-> user[c].id, code |-> "BROKEN_PIPE"])
          /\ UNCHANGED inbox
  /\ UNCHANGED <<manifests, lock, alive, plan, consumed, outbox, work, faults>>

(* The next line that is not progress is the answer, whatever its id; the  *)
(* end of the stream means the helper has died.                            *)
Read(c) ==
  /\ user[c].at = "wait"
  /\ IF outbox[c] # <<>>
     THEN /\ Told(c, Head(outbox[c]))
          /\ outbox' = [outbox EXCEPT ![c] = Tail(@)]
     ELSE /\ ~alive[c]
          /\ Told(c, [id |-> user[c].id, code |-> "HELPER_DIED"])
          /\ UNCHANGED outbox
  /\ UNCHANGED <<manifests, lock, alive, plan, consumed, inbox, work, faults>>

(* rollback_cli: the user has seen the preview of this backup and agrees. *)
Confirm(c) ==
  /\ user[c].at = "idle" /\ user[c].reply.code = "eligible"
  /\ user' = [user EXCEPT ![c] = [@ EXCEPT !.at = "watch", !.reply = NoReply]]
  /\ work' = [work EXCEPT ![Once(c)] = [NoWork EXCEPT !.at = "lock",
                                                      !.bid = user[c].ask.args.bid]]
  /\ UNCHANGED <<manifests, lock, procVars, faults>>

(* Wrong variant: a rollback that ended is a rollback that is complete. *)
OutcomeEnded(code) == IF code \in Final THEN "completed" ELSE code

(* _rollback_files exits with 0 for a partial rollback too, and all that   *)
(* rollback() says of a 0 is that the rollback is completed; of anything   *)
(* else it says the last error.                                            *)
Outcome(code) == IF code \in Success THEN "completed" ELSE code

(* rollback(): the one-shot helper's events up to its exit code. *)
Watched(c) ==
  /\ user[c].at = "watch" /\ work[Once(c)].at = "exited"
  /\ Told(c, [id |-> user[c].id, code |-> Outcome(work[Once(c)].code)])
  /\ work' = [work EXCEPT ![Once(c)] = NoWork]
  /\ UNCHANGED <<manifests, lock, procVars, faults>>

(* The client ends, when it is done or in the middle of a request. *)
Leave(c) ==
  /\ ~Gone(c)
  /\ user' = [user EXCEPT ![c] = [NoUser EXCEPT !.at = "gone"]]
  /\ outbox' = [outbox EXCEPT ![c] = <<>>]
  /\ UNCHANGED <<manifests, lock, alive, plan, consumed, inbox, work, faults>>

-----------------------------------------------------------------------------
(* The persistent helper: one request after the other *)

Serving(c, cmd) ==
  /\ alive[c] /\ work[Serve(c)].at = "idle"
  /\ inbox[c] # <<>> /\ Head(inbox[c]).req.cmd = cmd

Asked(c) == Head(inbox[c]).req.args

(* The answer, unless nobody reads it: then print raises outside of every  *)
(* handler and the process ends.  The session goes on with the approved    *)
(* arguments and the used commands given.                                  *)
Respond(c, code, approved, used) ==
  IF Gone(c)
  THEN Stop(c) /\ UNCHANGED outbox
  ELSE /\ outbox' = [outbox EXCEPT ![c] = Append(@, [id |-> Head(inbox[c]).id,
                                                     code |-> code])]
       /\ inbox' = [inbox EXCEPT ![c] = Tail(@)]
       /\ plan' = [plan EXCEPT ![c] = approved]
       /\ consumed' = [consumed EXCEPT ![c] = used]
       /\ UNCHANGED alive

Answer(c, code) == Respond(c, code, plan[c], consumed[c])

ServeRead(c) ==
  /\ Serving(c, "read")
  /\ Answer(c, "ok")
  /\ UNCHANGED <<manifests, lock, work, user, faults>>

(* cmd_preview_rollback, as far as the status decides. *)
PreviewCode(s) ==
  CASE s = "none"                                     -> "INTERNAL"
    [] s \in Eligible \cup {"rollback-in-progress"}    -> "eligible"
    [] s = "rolled-back"                              -> "not eligible"

ServePreview(c) ==
  /\ Serving(c, "preview-rollback")
  /\ Answer(c, PreviewCode(status[Asked(c).bid]))
  /\ UNCHANGED <<manifests, lock, work, user, faults>>

(* Wrong variant: a new plan opens the commands again. *)
SubmittedReopened(c) == Respond(c, "ok", Asked(c), FALSE)

(* cmd_submit_plan: a new plan replaces the old one, but does not reopen   *)
(* a command that is used up.                                              *)
Submitted(c) == Respond(c, "ok", Asked(c), consumed[c])

ServeSubmit(c) ==
  /\ Serving(c, "submit-plan")
  /\ Submitted(c)
  /\ UNCHANGED <<manifests, lock, work, user, faults>>

(* Wrong variant: use is not counted. *)
InPlanAgain(c)   == plan[c] # NoArgs /\ Asked(c) = plan[c]

(* _require_plan: exactly the approved arguments, and only once. *)
InPlan(c) == plan[c] # NoArgs /\ ~consumed[c] /\ Asked(c) = plan[c]

ServeRefuse(c) ==
  /\ Serving(c, "rollback") /\ ~InPlan(c)
  /\ Answer(c, "NOT_IN_PLAN")
  /\ UNCHANGED <<manifests, lock, work, user, faults>>

(* From here the command is used up, also when nothing is rolled back:     *)
(* these two return before the block whose end would discard the plan.     *)
ServeWrongMode(c) ==
  /\ Serving(c, "rollback") /\ InPlan(c) /\ Asked(c).mode # "safe"
  /\ Respond(c, "UNSUPPORTED_ROLLBACK_MODE", plan[c], TRUE)
  /\ UNCHANGED <<manifests, lock, work, user, faults>>

ServeBusy(c) ==
  /\ Serving(c, "rollback") /\ InPlan(c) /\ Asked(c).mode = "safe"
  /\ lock # Nobody
  /\ Respond(c, "E_OPERATION_ACTIVE", plan[c], TRUE)
  /\ UNCHANGED <<manifests, lock, work, user, faults>>

(* The lock is taken, and the first progress line fails if nobody reads. *)
Enter(p, b) ==
  /\ lock' = p
  /\ work' = [work EXCEPT ![p] = [NoWork EXCEPT
       !.at = IF Gone(p[1]) THEN "release" ELSE "load", !.bid = b, !.code = "INTERNAL"]]

ServeRollback(c) ==
  /\ Serving(c, "rollback") /\ InPlan(c) /\ Asked(c).mode = "safe"
  /\ lock = Nobody
  /\ consumed' = [consumed EXCEPT ![c] = TRUE]
  /\ Enter(Serve(c), Asked(c).bid)
  /\ UNCHANGED <<manifests, alive, plan, inbox, outbox, user, faults>>

(* The end of standard input, with nothing left to read. *)
EndOfInput(c) ==
  /\ alive[c] /\ work[Serve(c)].at = "idle" /\ inbox[c] = <<>> /\ Gone(c)
  /\ Stop(c)
  /\ UNCHANGED <<manifests, lock, outbox, work, user, faults>>

(* IDLE_TIMEOUT: nothing came for long enough.  A request written between  *)
(* select and the end of the process is never read.                        *)
IdleTimeout(c) ==
  /\ alive[c] /\ work[Serve(c)].at = "idle" /\ inbox[c] = <<>>
  /\ Goto(Serve(c), "leaving")
  /\ UNCHANGED <<manifests, lock, procVars, user, faults>>

IdleExit(c) ==
  /\ work[Serve(c)].at = "leaving"
  /\ Goto(Serve(c), "idle") /\ Stop(c)
  /\ UNCHANGED <<manifests, lock, outbox, user, faults>>

-----------------------------------------------------------------------------
(* cmd_rollback, in either kind of process *)

(* The one-shot helper prints before it asks for the lock. *)
OnceLock(c) ==
  LET p == Once(c) IN
  /\ work[p].at = "lock"
  /\ IF lock = Nobody /\ ~Gone(c)
     THEN Enter(p, work[p].bid)
     ELSE /\ work' = [work EXCEPT ![p] = [@ EXCEPT !.at = "exited", !.code = "E_OPERATION_ACTIVE"]]
          /\ UNCHANGED lock
  /\ UNCHANGED <<manifests, procVars, user, faults>>

(* cmd_rollback returns: nothing of the manifest stays in memory. *)
Conclude(p, code) ==
  work' = [work EXCEPT ![p] = [@ EXCEPT !.at = "release", !.orig = "none", !.code = code]]

(* Wrong variants: what an interrupted rollback left is refused; a backup  *)
(* is rolled back whatever its status.                                     *)
LoadableOnce(s) == s \in Eligible
LoadableAny(s)  == s # "none"

Loadable(s) == s \in Eligible \cup {"rollback-in-progress"}

Load(p) ==
  /\ work[p].at = "load"
  /\ LET s == status[work[p].bid] IN
     IF s = "none" THEN Conclude(p, "INTERNAL")
     ELSE IF ~Loadable(s) THEN Conclude(p, "ROLLBACK_NOT_ELIGIBLE")
     ELSE work' = [work EXCEPT ![p] = [@ EXCEPT !.at = "mark", !.orig = s]]
  /\ UNCHANGED <<manifests, lock, procVars, user, faults>>

Mark(p) ==
  /\ work[p].at = "mark"
  /\ Save(work[p].bid, "rollback-in-progress")
  /\ Goto(p, "snapshot")
  /\ UNCHANGED <<applying, lock, procVars, user, faults, overwritten, reached>>

(* The manifest is read again after the snapshot. *)
Snapshot(p) ==
  /\ work[p].at = "snapshot"
  /\ work' = [work EXCEPT ![p] = [@ EXCEPT !.at = "run", !.orig = status[work[p].bid]]]
  /\ UNCHANGED <<manifests, lock, procVars, user, faults>>

SnapshotFails(p) ==
  /\ work[p].at = "snapshot" /\ Fault
  /\ Save(work[p].bid, work[p].orig)
  /\ Conclude(p, "SAFETY_SNAPSHOT_FAILED")
  /\ UNCHANGED <<applying, lock, procVars, user, overwritten, reached>>

(* An action reads the manifest again, and one of the swap file saves it   *)
(* with the status it has read.                                            *)
Reloads(p) ==
  /\ work[p].at = "run"
  /\ work' = [work EXCEPT ![p] = [@ EXCEPT !.orig = status[work[p].bid]]]
  /\ UNCHANGED <<manifests, lock, procVars, user, faults>>

Resaves(p) ==
  /\ work[p].at = "run"
  /\ Save(work[p].bid, work[p].orig)
  /\ UNCHANGED <<applying, lock, procVars, work, user, faults, overwritten, reached>>

(* The planned actions run; what failed decides the last status. *)
Run(p) ==
  /\ work[p].at = "run"
  /\ \E s \in Final :
       /\ Save(work[p].bid, s)
       /\ reached' = IF s \in Success THEN reached \cup {work[p].bid} ELSE reached
       /\ Conclude(p, s)
  /\ UNCHANGED <<applying, lock, procVars, user, faults, overwritten>>

(* An exception inside the block: a progress line that nobody reads, or    *)
(* anything build_plan and the manifests raise.  The status stays.         *)
Raises(p) ==
  /\ work[p].at \in {"load"} \cup Changing
  /\ IF Gone(p[1]) THEN UNCHANGED faults ELSE Fault
  /\ Conclude(p, "INTERNAL")
  /\ UNCHANGED <<manifests, lock, procVars, user>>

(* Wrong variant: the answer is lost. *)
DiscardSilently(c) ==
  /\ inbox' = [inbox EXCEPT ![c] = Tail(@)]
  /\ UNCHANGED <<alive, plan, consumed, outbox>>

(* _invalidate_plan, and the answer. *)
DiscardPlan(c) == Respond(c, work[Serve(c)].code, NoArgs, FALSE)

Release(p) ==
  /\ work[p].at = "release"
  /\ Free(p)
  /\ IF p[2] = "serve"
     THEN DiscardPlan(p[1]) /\ work' = [work EXCEPT ![p] = NoWork]
     ELSE Goto(p, "exited") /\ UNCHANGED procVars
  /\ UNCHANGED <<manifests, user, faults>>

-----------------------------------------------------------------------------
(* The environment *)

(* A process is killed (or pkexec refuses to start it); the kernel drops   *)
(* its lock, and what it has written can still be read.                    *)
KillServe(c) ==
  /\ alive[c] /\ Fault
  /\ Stop(c) /\ Free(Serve(c))
  /\ work' = [work EXCEPT ![Serve(c)] = NoWork]
  /\ UNCHANGED <<manifests, outbox, user>>

KillOnce(c) ==
  /\ work[Once(c)].at \in {"lock"} \cup Locked /\ Fault
  /\ Free(Once(c))
  /\ work' = [work EXCEPT ![Once(c)] = [@ EXCEPT
       !.at = "exited", !.orig = "none", !.code = "HELPER_DIED"]]
  /\ UNCHANGED <<manifests, procVars, user>>

(* Another helper applies a plan.  It begins a backup... *)
BeginApply(b) ==
  /\ status[b] = "none"
  /\ Save(b, "in-progress")
  /\ applying' = applying \cup {b}
  /\ UNCHANGED <<lock, procVars, work, user, faults, overwritten, reached>>

(* ...and saves the manifest it has in memory over whatever a rollback of  *)
(* the same backup has written meanwhile: no step of an apply takes or     *)
(* looks at the lock.                                                      *)
Overwrites(b, s) ==
  /\ Save(b, s)
  /\ overwritten' = IF status[b] = "rolled-back" THEN overwritten \cup {b} ELSE overwritten
  /\ UNCHANGED <<lock, procVars, work, user, faults, reached>>

(* A record of a file or of the swap file *)
ApplySaves(b) ==
  /\ b \in applying
  /\ Overwrites(b, "in-progress")
  /\ UNCHANGED applying

(* Its end, with a last status or, when it raises or dies, without. *)
EndApply(b) ==
  /\ b \in applying
  /\ applying' = applying \ {b}
  /\ \/ \E s \in {"completed", "failed"} : Overwrites(b, s)
     \/ UNCHANGED <<status, lock, procVars, work, user, faults, overwritten, reached>>

-----------------------------------------------------------------------------
UserStep(c) == Write(c) \/ Read(c) \/ Watched(c)

RollbackStep(p) ==
  \/ Load(p) \/ Mark(p) \/ Snapshot(p) \/ SnapshotFails(p) \/ Run(p)
  \/ Raises(p) \/ Release(p)

ServeStep(c) ==
  \/ ServeRead(c) \/ ServePreview(c) \/ ServeSubmit(c) \/ ServeRefuse(c)
  \/ ServeWrongMode(c) \/ ServeBusy(c) \/ ServeRollback(c) \/ EndOfInput(c)
  \/ IdleExit(c) \/ RollbackStep(Serve(c))

OnceStep(c) == OnceLock(c) \/ RollbackStep(Once(c))

Next ==
  \/ \E c \in Client :
       \/ Ask(c) \/ Confirm(c) \/ Leave(c) \/ UserStep(c)
       \/ ServeStep(c) \/ OnceStep(c)
       \/ IdleTimeout(c) \/ KillServe(c) \/ KillOnce(c)
  \/ \E p \in Process : Reloads(p) \/ Resaves(p)
  \/ \E b \in Backup : BeginApply(b) \/ ApplySaves(b) \/ EndApply(b)

Spec == Init /\ [][Next]_vars

(* Clients and helpers are sequential programs that go on: a client that   *)
(* waits reads what comes, a helper reads what is written to it and        *)
(* finishes what it has begun, since every command has a timeout and       *)
(* nobody waits for the lock.  Nothing is assumed of what users ask, nor   *)
(* that an apply goes on.                                                  *)
FairSpec ==
  /\ Spec
  /\ \A c \in Client :
       WF_vars(UserStep(c)) /\ WF_vars(ServeStep(c)) /\ WF_vars(OnceStep(c))
=============================================================================
