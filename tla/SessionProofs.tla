--------------------------- MODULE SessionProofs ---------------------------
(***************************************************************************)
(* What the sessions promise, for any number of clients, backups, requests *)
(* and faults: the lock, true answers, previews that hold, and the         *)
(* refinement of ApprovedRollback.                                         *)
(***************************************************************************)
EXTENDS SessionProperties, TLAPS

-----------------------------------------------------------------------------
(* Processes and one-element sequences *)

LEMMA Processes ==
  /\ \A c \in Client :
       /\ Serve(c) \in Process /\ Serve(c)[1] = c /\ Serve(c)[2] = "serve"
       /\ Once(c) \in Process /\ Once(c)[1] = c /\ Once(c)[2] = "once"
  /\ \A c, d \in Client : /\ Serve(c) # Once(d)
                          /\ Serve(c) = Serve(d) => c = d
                          /\ Once(c) = Once(d) => c = d
  /\ \A p \in Process : /\ p[1] \in Client
                        /\ \/ p[2] = "serve" /\ p = Serve(p[1])
                           \/ p[2] = "once" /\ p = Once(p[1])
  /\ Nobody \notin Process
  BY NobodyAssumption DEF Process, Serve, Once

LEMMA Singletons ==
  \A x : /\ Head(<<x>>) = x /\ Tail(<<x>>) = <<>> /\ <<x>> # <<>>
         /\ Append(<<>>, x) = <<x>>
  OBVIOUS

(* A process moves on: what changes, and what it keeps *)
LEMMA Moved ==
  \A w \in Work, l \in At :
    \E v \in Work : /\ v = [w EXCEPT !.at = l]
                    /\ v.at = l /\ v.bid = w.bid /\ v.orig = w.orig /\ v.code = w.code
<1> TAKE w \in Work, l \in At
<1>1. [w EXCEPT !.at = l] \in Work
  BY DEF Work
<1>2. /\ [w EXCEPT !.at = l].at = l /\ [w EXCEPT !.at = l].bid = w.bid
      /\ [w EXCEPT !.at = l].orig = w.orig /\ [w EXCEPT !.at = l].code = w.code
  BY DEF Work
<1> QED
  BY <1>1, <1>2

-----------------------------------------------------------------------------
(* The invariant *)

(* A backup a rollback has been let into and has not finished *)
Open == Eligible \cup {"rollback-in-progress"}

(* Where the processes can stand; of a helper that has ended nothing is    *)
(* left, and one inside a rollback has used its command up and still owes  *)
(* the answer.                                                             *)
Placed ==
  \A c \in Client :
    /\ work[Serve(c)].at \notin {"lock", "exited"} /\ work[Once(c)].at # "leaving"
    /\ ~alive[c] => /\ plan[c] = NoArgs /\ ~consumed[c] /\ inbox[c] = <<>>
                    /\ work[Serve(c)].at = "idle"
    /\ work[Serve(c)].at \in Locked => consumed[c] /\ inbox[c] # <<>>

(* What the steps of a rollback rely on *)
Working ==
  \A p \in Process :
    /\ work[p].at \in {"lock"} \cup Locked => work[p].bid \in Backup
    /\ work[p].at \in Changing => status[work[p].bid] \in Open
    /\ work[p].at \in Changing => work[p].orig \in Open
    /\ work[p].at \in {"release", "exited"} =>
         /\ work[p].code \notin {"eligible", "completed"}
         /\ work[p].code \in {"rolled-back", "ROLLBACK_NOT_ELIGIBLE"} =>
              work[p].bid \in Backup /\ RolledBack(work[p].bid)
         /\ work[p].code \in Success => work[p].bid \in reached

(* m answers what c asked *)
IsAnswer(c, m) ==
  /\ m.id = user[c].id
  /\ m.code \in {"eligible", "rolled-back", "completed"} => user[c].ask.args.bid \in Backup
  /\ m.code = "rolled-back" => RolledBack(user[c].ask.args.bid)
  /\ m.code = "completed" => user[c].ask.args.bid \in reached

(* One request or one answer is on its way, and only while c waits. *)
Talk ==
  \A c \in Client :
    /\ user[c].at \in {"idle", "write", "watch"} => inbox[c] = <<>> /\ outbox[c] = <<>>
    /\ user[c].at = "wait" =>
         \/ outbox[c] = <<>> /\ inbox[c] \in {<<>>, <<[id |-> user[c].id, req |-> user[c].ask]>>}
         \/ inbox[c] = <<>> /\ \E m \in Message : outbox[c] = <<m>> /\ IsAnswer(c, m)
    /\ user[c].at = "gone" =>
         /\ outbox[c] = <<>>
         /\ inbox[c] = <<>> \/ \E r \in [id : Nat, req : Request] : inbox[c] = <<r>>
    /\ user[c].at = "idle" => IsAnswer(c, user[c].reply)
    /\ user[c].at \in {"write", "wait"} => user[c].ask \in Request

(* What a process in a rollback works on is what its client asked for. *)
OnBehalf ==
  \A c \in Client :
    /\ work[Serve(c)].at \in Locked => work[Serve(c)].bid = Head(inbox[c]).req.args.bid
    /\ work[Once(c)].at # "idle" => user[c].at \in {"watch", "gone"}
    /\ user[c].at = "watch" => /\ user[c].ask.args.bid \in Backup
                               /\ work[Once(c)].bid = user[c].ask.args.bid

(* An apply that runs has begun its backup. *)
Begun == \A b \in applying : status[b] # "none"

Inv == TypeOK /\ LockMatchesWork /\ Placed /\ Working /\ Talk /\ OnBehalf /\ Begun

USE DEF manifests, RolledBack

-----------------------------------------------------------------------------
LEMMA InitInv == Init => Inv
<1> SUFFICES ASSUME Init PROVE Inv
  OBVIOUS
<1> USE Processes
<1>1. TypeOK
  <2>1. status \in [Backup -> Status] /\ lock \in Process \cup {Nobody} /\ faults \in 0..MaxFaults
    BY FoundAssumption, BoundAssumption DEF Init
  <2>2. /\ alive \in [Client -> BOOLEAN] /\ consumed \in [Client -> BOOLEAN]
        /\ plan \in [Client -> Args \cup {NoArgs}]
        /\ inbox \in [Client -> Seq([id : Nat, req : Request])]
        /\ outbox \in [Client -> Seq(Message)]
    BY DEF Init
  <2>3. NoWork \in Work
    BY DEF NoWork, Work, At, Status, Code
  <2>4. NoUser \in User
    BY DEF NoUser, User, NoReply, Message, Code
  <2> QED
    BY <2>1, <2>2, <2>3, <2>4 DEF Init, TypeOK
<1>2. LockMatchesWork /\ Placed /\ Working
  BY DEF Init, LockMatchesWork, Placed, Working, NoWork, Locked, Changing
<1>3. Talk /\ OnBehalf /\ Begun
  BY DEF Init, Begun, Talk, OnBehalf, NoWork, NoUser, NoReply, IsAnswer, Locked, Changing
<1> QED
  BY <1>1, <1>2, <1>3 DEF Inv
-----------------------------------------------------------------------------
(* The steps of the persistent helper outside of a rollback *)

(* There is never more than one request in the pipe, the one that waits. *)
LEMMA OneRequest ==
  ASSUME Inv, NEW c \in Client, inbox[c] # <<>>
  PROVE  /\ \E r \in [id : Nat, req : Request] : inbox[c] = <<r>>
         /\ Head(inbox[c]) \in [id : Nat, req : Request] /\ Tail(inbox[c]) = <<>>
         /\ ~Gone(c) => /\ user[c].at = "wait" /\ outbox[c] = <<>>
                        /\ Head(inbox[c]) = [id |-> user[c].id, req |-> user[c].ask]
<1>1. user[c] \in User
  BY DEF Inv, TypeOK
<1>2. user[c].at \in {"wait", "gone"}
  BY <1>1 DEF Inv, Talk, User
<1>3. CASE user[c].at = "gone"
  BY <1>3, Singletons DEF Inv, Talk, Gone
<1>4. CASE user[c].at = "wait"
  <2>1. /\ outbox[c] = <<>> /\ inbox[c] = <<[id |-> user[c].id, req |-> user[c].ask]>>
        /\ user[c].ask \in Request
    BY <1>4 DEF Inv, Talk
  <2>2. [id |-> user[c].id, req |-> user[c].ask] \in [id : Nat, req : Request]
    BY <1>1, <2>1 DEF User
  <2> QED
    BY <1>4, <2>1, <2>2, Singletons DEF Gone
<1> QED
  BY <1>2, <1>3, <1>4

(* The helper of c goes back to its loop, or ends. *)
BecomesIdle(c) ==
  \E w \in Work : w.at = "idle" /\ work' = [work EXCEPT ![Serve(c)] = w]

(* What it may answer, and the session it goes on with *)
Replies(c) ==
  \E code \in Code, approved \in Args \cup {NoArgs}, used \in BOOLEAN :
    /\ code \in {"eligible", "rolled-back"} => Head(inbox[c]).req.args.bid \in Backup
    /\ code = "rolled-back" => RolledBack(Head(inbox[c]).req.args.bid)
    /\ code # "completed"
    /\ Respond(c, code, approved, used)

(* A helper ends, in whatever state. *)
LEMMA Stopped ==
  ASSUME Inv, NEW c \in Client, Stop(c), Free(Serve(c)), BecomesIdle(c),
         UNCHANGED <<manifests, outbox, user>>, faults' \in 0..MaxFaults
  PROVE  Inv'
<1> USE Processes
<1>1. /\ work' \in [Process -> Work] /\ work'[Serve(c)].at = "idle"
      /\ \A p \in Process \ {Serve(c)} : work'[p] = work[p]
  BY DEF Inv, TypeOK, BecomesIdle
<1>2. TypeOK'
  <2>1. inbox' \in [Client -> Seq([id : Nat, req : Request])]
    <3>1. <<>> \in Seq([id : Nat, req : Request])
      OBVIOUS
    <3> QED
      BY <3>1 DEF Inv, TypeOK, Stop
  <2> QED
    BY <1>1, <2>1 DEF Inv, TypeOK, Stop, Free
<1>3. LockMatchesWork'
  BY <1>1 DEF Inv, TypeOK, LockMatchesWork, Free, Locked, Changing
<1>4. Placed'
  BY <1>1 DEF Inv, TypeOK, Placed, Stop, Locked, Changing
<1>5. Working'
  BY <1>1 DEF Inv, Working, Locked, Changing
<1>6. Talk'
  <2> SUFFICES ASSUME NEW d \in Client PROVE Talk!(d)'
    BY DEF Talk
  <2>1. inbox'[d] \in {<<>>, inbox[d]}
    BY DEF Inv, TypeOK, Stop
  <2> QED
    BY <2>1 DEF Inv, Talk, IsAnswer
<1>7. OnBehalf'
  BY <1>1 DEF Inv, TypeOK, OnBehalf, Stop, Locked, Changing
<1>8. Begun'
  BY DEF Inv, Begun
<1> QED
  BY <1>2, <1>3, <1>4, <1>5, <1>6, <1>7, <1>8 DEF Inv

(* The helper answers the request that waits, and stands idle again. *)
LEMMA Answered ==
  ASSUME Inv, NEW c \in Client, inbox[c] # <<>>, alive[c], Replies(c), BecomesIdle(c),
         Free(Serve(c)), UNCHANGED <<manifests, user, faults>>
  PROVE  Inv'
<1> USE Processes
<1>3. PICK code \in Code, approved \in Args \cup {NoArgs}, used \in BOOLEAN :
        /\ code \in {"eligible", "rolled-back"} => Head(inbox[c]).req.args.bid \in Backup
        /\ code = "rolled-back" => RolledBack(Head(inbox[c]).req.args.bid)
        /\ code # "completed"
        /\ Respond(c, code, approved, used)
  BY DEF Replies
<1>1. CASE Gone(c)
  <2>1. Stop(c) /\ UNCHANGED outbox
    BY <1>1, <1>3 DEF Respond
  <2>2. faults' \in 0..MaxFaults
    BY DEF Inv, TypeOK
  <2> QED
    BY <2>1, <2>2, Stopped
<1>2. CASE ~Gone(c)
  <2>1. /\ user[c].at = "wait" /\ outbox[c] = <<>> /\ Tail(inbox[c]) = <<>>
        /\ Head(inbox[c]) = [id |-> user[c].id, req |-> user[c].ask]
        /\ Head(inbox[c]) \in [id : Nat, req : Request]
    BY <1>2, OneRequest
  <2>2. PICK m \in Message : m = [id |-> Head(inbox[c]).id, code |-> code]
    BY <2>1 DEF Message
  <2>3. /\ outbox' = [outbox EXCEPT ![c] = <<m>>] /\ inbox' = [inbox EXCEPT ![c] = <<>>]
        /\ plan' = [plan EXCEPT ![c] = approved] /\ consumed' = [consumed EXCEPT ![c] = used]
        /\ UNCHANGED alive
    <3>1. /\ outbox' = [outbox EXCEPT ![c] = Append(outbox[c], m)]
          /\ inbox' = [inbox EXCEPT ![c] = Tail(inbox[c])]
          /\ plan' = [plan EXCEPT ![c] = approved] /\ consumed' = [consumed EXCEPT ![c] = used]
          /\ UNCHANGED alive
      BY <1>2, <1>3, <2>2 DEF Respond
    <3>2. Append(outbox[c], m) = <<m>>
      BY <2>1, Singletons
    <3> QED
      BY <3>1, <3>2, <2>1
  <2>4. /\ work' \in [Process -> Work] /\ work'[Serve(c)].at = "idle"
        /\ \A p \in Process \ {Serve(c)} : work'[p] = work[p]
    BY DEF Inv, TypeOK, BecomesIdle
  <2>5. TypeOK'
    <3>1. <<>> \in Seq([id : Nat, req : Request]) /\ <<m>> \in Seq(Message)
      BY <2>2
    <3>2. inbox' \in [Client -> Seq([id : Nat, req : Request])]
      BY <2>3, <3>1 DEF Inv, TypeOK
    <3>3. outbox' \in [Client -> Seq(Message)]
      BY <2>3, <3>1 DEF Inv, TypeOK
    <3> QED
      BY <2>3, <2>4, <3>2, <3>3 DEF Inv, TypeOK, Free
  <2>6. LockMatchesWork'
    BY <2>4 DEF Inv, TypeOK, LockMatchesWork, Free, Locked, Changing
  <2>7. Placed'
    BY <2>3, <2>4 DEF Inv, TypeOK, Placed, Locked, Changing
  <2>8. Working'
    BY <2>4 DEF Inv, Working, Locked, Changing
  <2>9. Talk'
    <3> SUFFICES ASSUME NEW d \in Client PROVE Talk!(d)'
      BY DEF Talk
    <3>1. CASE d = c
      <4>1. IsAnswer(c, m)'
        BY <1>3, <2>1, <2>2 DEF IsAnswer
      <4>2. inbox'[d] = <<>> /\ outbox'[d] = <<m>>
        BY <2>3, <3>1 DEF Inv, TypeOK
      <4>3. user'[d].at = "wait" /\ user'[d].ask \in Request
        BY <2>1, <3>1 DEF Inv, Talk
      <4> QED
        BY <2>2, <3>1, <4>1, <4>2, <4>3
    <3>2. CASE d # c
      <4>1. inbox'[d] = inbox[d] /\ outbox'[d] = outbox[d]
        BY <2>3, <3>2 DEF Inv, TypeOK
      <4> QED
        BY <4>1 DEF Inv, Talk, IsAnswer
    <3> QED
      BY <3>1, <3>2
  <2>10. OnBehalf'
    BY <2>3, <2>4 DEF Inv, TypeOK, OnBehalf, Locked, Changing
  <2>11. Begun'
    BY DEF Inv, Begun
  <2> QED
    BY <2>5, <2>6, <2>7, <2>8, <2>9, <2>10, <2>11 DEF Inv
<1> QED
  BY <1>1, <1>2

(* Requests that are answered at once *)
LEMMA AnsweringSteps ==
  ASSUME Inv, NEW c \in Client,
         \/ ServeRead(c) \/ ServePreview(c) \/ ServeSubmit(c) \/ ServeRefuse(c)
         \/ ServeWrongMode(c) \/ ServeBusy(c)
  PROVE  Inv'
<1> USE Processes
<1>1. /\ alive[c] /\ inbox[c] # <<>> /\ work[Serve(c)].at = "idle"
      /\ UNCHANGED <<manifests, lock, work, user, faults>>
  BY DEF ServeRead, ServePreview, ServeSubmit, ServeRefuse, ServeWrongMode, ServeBusy, Serving
<1>2. Free(Serve(c)) /\ BecomesIdle(c)
  <2>1. work = [work EXCEPT ![Serve(c)] = work[Serve(c)]] /\ work[Serve(c)] \in Work
    BY DEF Inv, TypeOK
  <2>2. lock # Serve(c)
    BY <1>1 DEF Inv, LockMatchesWork, Locked, Changing
  <2> QED
    BY <1>1, <2>1, <2>2 DEF Free, BecomesIdle
<1>3. Head(inbox[c]).req \in Request
  BY <1>1, OneRequest
<1>4. plan[c] \in Args \cup {NoArgs} /\ consumed[c] \in BOOLEAN
  BY DEF Inv, TypeOK
<1>5. Replies(c)
  <2>1. CASE ServePreview(c)
    <3>1. /\ Head(inbox[c]).req.args.bid \in Backup
          /\ Respond(c, PreviewCode(status[Asked(c).bid]), plan[c], consumed[c])
      BY <1>3, <2>1 DEF ServePreview, Serving, Answer, Request
    <3>2. status[Asked(c).bid] \in Status
      BY <3>1 DEF Inv, TypeOK, Asked
    <3>3. PreviewCode(status[Asked(c).bid]) \in Code \ {"rolled-back", "completed"}
      BY <3>2 DEF PreviewCode, Code, Status
    <3> QED
      BY <1>4, <3>1, <3>3 DEF Replies
  <2>2. CASE ServeSubmit(c)
    <3>1. Asked(c) \in Args \cup {NoArgs} /\ Respond(c, "ok", Asked(c), consumed[c])
      BY <1>3, <2>2 DEF ServeSubmit, Serving, Submitted, Request, Asked
    <3>2. "ok" \in Code \ {"eligible", "rolled-back", "completed"}
      BY DEF Code
    <3> QED
      BY <1>4, <3>1, <3>2 DEF Replies
  <2>3. CASE ServeRead(c) \/ ServeRefuse(c) \/ ServeWrongMode(c) \/ ServeBusy(c)
    <3>1. \E code \in {"ok", "NOT_IN_PLAN", "UNSUPPORTED_ROLLBACK_MODE", "E_OPERATION_ACTIVE"},
             used \in BOOLEAN : Respond(c, code, plan[c], used)
      BY <1>4, <2>3 DEF ServeRead, ServeRefuse, ServeWrongMode, ServeBusy, Answer
    <3>2. {"ok", "NOT_IN_PLAN", "UNSUPPORTED_ROLLBACK_MODE", "E_OPERATION_ACTIVE"}
            \subseteq Code \ {"eligible", "rolled-back", "completed"}
      BY DEF Code
    <3> QED
      BY <1>4, <3>1, <3>2 DEF Replies
  <2> QED
    BY <2>1, <2>2, <2>3
<1> QED
  BY <1>1, <1>2, <1>5, Answered

(* Helpers that end, and the idle timeout *)
LEMMA EndsIdle ==
  ASSUME Inv, NEW c \in Client, EndOfInput(c) \/ IdleExit(c) \/ KillServe(c)
  PROVE  BecomesIdle(c)
<1> USE Processes
<1>1. work[Serve(c)] \in Work
  BY DEF Inv, TypeOK
<1>2. CASE EndOfInput(c)
  <2>1. work = [work EXCEPT ![Serve(c)] = work[Serve(c)]]
    BY DEF Inv, TypeOK
  <2> QED
    BY <1>1, <1>2, <2>1 DEF EndOfInput, BecomesIdle
<1>3. CASE IdleExit(c)
  <2>1. [work[Serve(c)] EXCEPT !.at = "idle"] \in Work
    BY <1>1 DEF Work, At
  <2> QED
    BY <1>1, <1>3, <2>1 DEF IdleExit, Goto, BecomesIdle, Work
<1>4. CASE KillServe(c)
  <2>1. NoWork \in Work
    BY DEF NoWork, Work, At, Status, Code
  <2> QED
    BY <1>4, <2>1 DEF KillServe, BecomesIdle, NoWork
<1> QED
  BY <1>2, <1>3, <1>4

LEMMA EndingSteps ==
  ASSUME Inv, NEW c \in Client, EndOfInput(c) \/ IdleExit(c) \/ KillServe(c)
  PROVE  Inv'
<1> USE Processes
<1>1. work[Serve(c)] \in Work /\ faults' \in 0..MaxFaults
  BY BoundAssumption DEF Inv, TypeOK, EndOfInput, IdleExit, KillServe, Fault
<1>2. Stop(c) /\ UNCHANGED <<manifests, outbox, user>>
  BY DEF EndOfInput, IdleExit, KillServe
<1>3. BecomesIdle(c)
  BY EndsIdle
<1>4. Free(Serve(c))
  <2>1. CASE work[Serve(c)].at \notin Locked /\ UNCHANGED lock
    BY <2>1 DEF Inv, LockMatchesWork, Free
  <2> QED
    BY <2>1 DEF EndOfInput, IdleExit, KillServe, Locked, Changing
<1> QED
  BY <1>1, <1>2, <1>3, <1>4, Stopped

LEMMA IdleTimeoutStep ==
  ASSUME Inv, NEW c \in Client, IdleTimeout(c)
  PROVE  Inv'
<1> USE Processes
<1>1. /\ work' \in [Process -> Work] /\ work'[Serve(c)].at = "leaving"
      /\ \A p \in Process \ {Serve(c)} : work'[p] = work[p]
  <2>1. work[Serve(c)] \in Work /\ "leaving" \in At
    BY DEF Inv, TypeOK, At
  <2>2. work' = [work EXCEPT ![Serve(c)] = [work[Serve(c)] EXCEPT !.at = "leaving"]]
    BY DEF IdleTimeout, Goto
  <2>3. PICK v \in Work : v = [work[Serve(c)] EXCEPT !.at = "leaving"] /\ v.at = "leaving"
    BY <2>1, Moved
  <2> QED
    BY <2>1, <2>2, <2>3 DEF Inv, TypeOK
<1>2. /\ alive[c] /\ inbox[c] = <<>> /\ work[Serve(c)].at = "idle"
      /\ UNCHANGED <<manifests, lock, alive, plan, consumed, inbox, outbox, user, faults>>
  BY DEF IdleTimeout, procVars
<1>3. TypeOK' /\ LockMatchesWork'
  <2>1. TypeOK'
    BY <1>1, <1>2 DEF Inv, TypeOK
  <2>2. LockMatchesWork'
    BY <1>1, <1>2 DEF Inv, LockMatchesWork, Locked, Changing
  <2> QED
    BY <2>1, <2>2
<1>4. Placed' /\ Working'
  BY <1>1, <1>2 DEF Inv, Placed, Working, Locked, Changing
<1>5. Talk'
  BY <1>2 DEF Inv, Talk, IsAnswer
<1>6. OnBehalf' /\ Begun'
  BY <1>1, <1>2 DEF Inv, OnBehalf, Begun, Locked, Changing
<1> QED
  BY <1>3, <1>4, <1>5, <1>6 DEF Inv

-----------------------------------------------------------------------------
(* Inside a rollback *)

(* The process keeps its backup and the lock, and leaves its status open   *)
(* or final.                                                               *)
ProceedsTo(p, w, s) ==
  /\ w.at \in Locked /\ w.bid = work[p].bid
  /\ work' = [work EXCEPT ![p] = w]
  /\ status' = [status EXCEPT ![work[p].bid] = s]
  /\ status[work[p].bid] = "rolled-back" => s = "rolled-back"
  /\ s = "none" => status[work[p].bid] = "none"
  /\ w.at \in Changing => s \in Open /\ w.orig \in Open
  /\ w.at = "release" =>
       /\ w.code \notin {"eligible", "completed"}
       /\ w.code \in {"rolled-back", "ROLLBACK_NOT_ELIGIBLE"} => s = "rolled-back"
       /\ w.code \in Success => work[p].bid \in reached'

Proceeds(p) ==
  /\ UNCHANGED <<applying, overwritten>>
  /\ reached' \in {reached, reached \cup {work[p].bid}}
  /\ \E w \in Work, s \in Status : ProceedsTo(p, w, s)

LEMMA Proceeded ==
  ASSUME Inv, NEW p \in Process, work[p].at \in Locked, Proceeds(p),
         UNCHANGED <<lock, procVars, user>>, faults' \in 0..MaxFaults
  PROVE  Inv'
<1> USE Processes
<1>0. PICK w \in Work, s \in Status : ProceedsTo(p, w, s)
  BY DEF Proceeds
<1>1. /\ w.at \in Locked /\ w.bid = work[p].bid
      /\ work' = [work EXCEPT ![p] = w]
      /\ status' = [status EXCEPT ![work[p].bid] = s]
      /\ status[work[p].bid] = "rolled-back" => s = "rolled-back"
      /\ s = "none" => status[work[p].bid] = "none"
      /\ w.at \in Changing => s \in Open /\ w.orig \in Open
      /\ w.at = "release" =>
           /\ w.code \notin {"eligible", "completed"}
           /\ w.code \in {"rolled-back", "ROLLBACK_NOT_ELIGIBLE"} => s = "rolled-back"
           /\ w.code \in Success => work[p].bid \in reached'
  BY <1>0 DEF ProceedsTo
<1>2. work[p].bid \in Backup
  BY DEF Inv, Working
<1>3. /\ work' \in [Process -> Work] /\ work'[p] = w
      /\ \A q \in Process \ {p} : work'[q] = work[q]
  BY <1>1 DEF Inv, TypeOK
<1>4. /\ status' \in [Backup -> Status] /\ status'[work[p].bid] = s
      /\ \A b \in Backup : /\ status[b] = "rolled-back" => status'[b] = "rolled-back"
                           /\ status'[b] = "none" => status[b] = "none"
      /\ \A b \in Backup : RolledBack(b) => RolledBack(b)'
  BY <1>1, <1>2 DEF Inv, TypeOK, Proceeds
<1>12. /\ UNCHANGED <<applying, overwritten>> /\ \A b \in reached : b \in reached'
       /\ applying' \subseteq Backup /\ overwritten' \subseteq Backup /\ reached' \subseteq Backup
  BY <1>2 DEF Inv, TypeOK, Proceeds
<1>5. \A q \in Process \ {p} : work[q].at \notin Locked
  BY DEF Inv, LockMatchesWork
<1>6. UNCHANGED <<lock, alive, plan, consumed, inbox, outbox, user>>
  BY DEF procVars
<1>7. TypeOK' /\ LockMatchesWork'
  <2>1. TypeOK'
    <3>1. TypeOK
      BY DEF Inv
    <3>2. /\ lock' \in Process \cup {Nobody} /\ user' \in [Client -> User]
          /\ alive' \in [Client -> BOOLEAN] /\ consumed' \in [Client -> BOOLEAN]
          /\ plan' \in [Client -> Args \cup {NoArgs}]
      BY <1>6, <3>1 DEF TypeOK
    <3>3. /\ inbox' \in [Client -> Seq([id : Nat, req : Request])]
          /\ outbox' \in [Client -> Seq(Message)]
      BY <1>6, <3>1 DEF TypeOK
    <3> QED
      BY <1>3, <1>4, <1>12, <3>2, <3>3 DEF TypeOK
  <2>2. LockMatchesWork'
    BY <1>1, <1>3, <1>6 DEF Inv, LockMatchesWork
  <2> QED
    BY <2>1, <2>2
<1>8. Placed'
  BY <1>1, <1>3, <1>6 DEF Inv, Placed, Locked, Changing
<1>9. Working'
  <2> SUFFICES ASSUME NEW q \in Process PROVE Working!(q)'
    BY DEF Working
  <2>1. CASE q = p
    BY <1>1, <1>2, <1>3, <1>4, <2>1 DEF Locked, Changing, Success
  <2>2. CASE q # p
    <3>1. work'[q] = work[q] /\ work[q].at \notin Locked
      BY <1>3, <1>5, <2>2
    <3> QED
      BY <1>4, <1>12, <3>1 DEF Inv, Working, Locked, Changing
  <2> QED
    BY <2>1, <2>2
<1>10. Talk'
  BY <1>4, <1>6, <1>12 DEF Inv, Talk, IsAnswer
<1>11. OnBehalf' /\ Begun'
  <2>1. OnBehalf'
    BY <1>1, <1>3, <1>6 DEF Inv, OnBehalf, Locked, Changing
  <2>2. Begun'
    <3>1. \A b \in Backup : status'[b] = "none" => status[b] = "none"
      BY <1>4
    <3>2. applying' = applying /\ applying \subseteq Backup /\ Begun
      BY <1>12 DEF Inv, TypeOK
    <3> QED
      BY <3>1, <3>2 DEF Begun
  <2> QED
    BY <2>1, <2>2
<1> QED
  BY <1>7, <1>8, <1>9, <1>10, <1>11 DEF Inv

(* The steps from the load of the manifest to its last status *)
LEMMA ProceedingSteps ==
  ASSUME Inv, NEW p \in Process,
         \/ Load(p) \/ Mark(p) \/ Snapshot(p) \/ SnapshotFails(p) \/ Run(p) \/ Raises(p)
         \/ Reloads(p) \/ Resaves(p)
  PROVE  Inv'
<1> USE Processes
<1>1. /\ work[p].at \in Locked /\ work[p].at \in {"load"} \cup Changing
      /\ UNCHANGED <<lock, procVars, user>>
      /\ faults' \in 0..MaxFaults
  BY BoundAssumption
     DEF Inv, TypeOK, Load, Mark, Snapshot, SnapshotFails, Run, Raises, Reloads, Resaves,
         Fault, Locked, Changing
<1>2. /\ work[p] \in Work /\ work[p].bid \in Backup /\ status[work[p].bid] \in Status
      /\ status = [status EXCEPT ![work[p].bid] = status[work[p].bid]]
  BY <1>1 DEF Inv, TypeOK, Working
<1>3. /\ "mark" \in At /\ "snapshot" \in At /\ "run" \in At /\ "release" \in At
      /\ "mark" \in Locked /\ "snapshot" \in Locked /\ "run" \in Locked /\ "release" \in Locked
      /\ "release" \notin Changing /\ Open \subseteq Status
      /\ "rolled-back" \notin Open /\ "none" \notin Open /\ "none" \in Status
  BY DEF At, Locked, Changing, Open, Eligible, Status
<1>5. work[p] \in Work
  BY DEF Inv, TypeOK
<1>6. \A l \in At :
        \E v \in Work : /\ v = [work[p] EXCEPT !.at = l]
                        /\ v.at = l /\ v.bid = work[p].bid /\ v.orig = work[p].orig
  BY <1>5, Moved
<1>7. ASSUME NEW l \in At
      PROVE  \E v \in Work : /\ v = [work[p] EXCEPT !.at = l, !.orig = status[work[p].bid]]
                             /\ v.at = l /\ v.bid = work[p].bid
                             /\ v.orig = status[work[p].bid]
  <2>1. [work[p] EXCEPT !.at = l, !.orig = status[work[p].bid]] \in Work
    BY <1>2, <1>5 DEF Work
  <2>2. \A v : v = [work[p] EXCEPT !.at = l, !.orig = status[work[p].bid]] =>
          v.at = l /\ v.bid = work[p].bid /\ v.orig = status[work[p].bid]
    BY <1>5 DEF Work
  <2> QED
    BY <2>1, <2>2
<1>8. ASSUME NEW x \in Code
      PROVE  \E v \in Work : /\ v = [work[p] EXCEPT !.at = "release", !.orig = "none", !.code = x]
                             /\ v.at = "release" /\ v.bid = work[p].bid /\ v.code = x
  <2>1. [work[p] EXCEPT !.at = "release", !.orig = "none", !.code = x] \in Work
    BY <1>3, <1>5 DEF Work
  <2>2. \A v : v = [work[p] EXCEPT !.at = "release", !.orig = "none", !.code = x] =>
          v.at = "release" /\ v.bid = work[p].bid /\ v.code = x
    BY <1>5 DEF Work
  <2> QED
    BY <2>1, <2>2
<1>4. \E w \in Work, s \in Status : ProceedsTo(p, w, s)
  <2>1. CASE Load(p) /\ Loadable(status[work[p].bid])
    <3>1. /\ work' = [work EXCEPT ![p] = [work[p] EXCEPT !.at = "mark",
                                                         !.orig = status[work[p].bid]]]
          /\ UNCHANGED status
      BY <2>1 DEF Load, Loadable, Eligible
    <3>2. status[work[p].bid] \in Open
      BY <2>1 DEF Loadable, Open
    <3>3. PICK w \in Work : /\ w = [work[p] EXCEPT !.at = "mark",
                                                   !.orig = status[work[p].bid]]
                            /\ w.at = "mark" /\ w.bid = work[p].bid
                            /\ w.orig = status[work[p].bid]
      BY <1>3, <1>7
    <3>4. ProceedsTo(p, w, status[work[p].bid])
      BY <1>2, <1>3, <3>1, <3>2, <3>3 DEF ProceedsTo
    <3> QED
      BY <1>2, <3>4
  <2>2. CASE Load(p) /\ ~Loadable(status[work[p].bid])
    <3>1. PICK x \in {"INTERNAL", "ROLLBACK_NOT_ELIGIBLE"} :
            /\ Conclude(p, x) /\ UNCHANGED status
            /\ x = "ROLLBACK_NOT_ELIGIBLE" => status[work[p].bid] # "none"
      BY <2>2 DEF Load
    <3>2. x = "ROLLBACK_NOT_ELIGIBLE" => status[work[p].bid] = "rolled-back"
      BY <1>2, <2>2, <3>1 DEF Loadable, Status
    <3>3. x \in Code
      BY DEF Code
    <3>4. PICK w \in Work : /\ w = [work[p] EXCEPT !.at = "release", !.orig = "none", !.code = x]
                            /\ w.at = "release" /\ w.bid = work[p].bid /\ w.code = x
      BY <1>8, <3>3
    <3>5. work' = [work EXCEPT ![p] = w]
      BY <3>1, <3>4 DEF Conclude
    <3>6. w.at \in Locked /\ w.at \notin Changing
      BY <1>3, <3>4
    <3>7. /\ w.code \notin {"eligible", "completed"} /\ w.code \notin Success
          /\ w.code \in {"rolled-back", "ROLLBACK_NOT_ELIGIBLE"} =>
               status[work[p].bid] = "rolled-back"
      BY <3>2, <3>4 DEF Success
    <3>8. status' = [status EXCEPT ![work[p].bid] = status[work[p].bid]]
      BY <1>2, <3>1
    <3>9. ProceedsTo(p, w, status[work[p].bid])
      BY <3>4, <3>5, <3>6, <3>7, <3>8 DEF ProceedsTo
    <3> QED
      BY <1>2, <3>9
  <2>3. CASE Mark(p)
    <3>1. /\ work' = [work EXCEPT ![p] = [work[p] EXCEPT !.at = "snapshot"]]
          /\ status' = [status EXCEPT ![work[p].bid] = "rollback-in-progress"]
      BY <2>3 DEF Mark, Goto, Save
    <3>2. status[work[p].bid] \in Open /\ work[p].orig \in Open
      BY <2>3 DEF Mark, Inv, Working, Changing
    <3>3. "rollback-in-progress" \in Status /\ "rollback-in-progress" \in Open
      BY DEF Status, Open
    <3>4. PICK w \in Work : /\ w = [work[p] EXCEPT !.at = "snapshot"]
                            /\ w.at = "snapshot" /\ w.bid = work[p].bid /\ w.orig = work[p].orig
      BY <1>3, <1>6
    <3>5. ProceedsTo(p, w, "rollback-in-progress")
      BY <1>3, <3>1, <3>2, <3>3, <3>4 DEF ProceedsTo
    <3> QED
      BY <3>3, <3>5
  <2>4. CASE Snapshot(p) \/ Reloads(p)
    <3>1. UNCHANGED status
      BY <2>4 DEF Snapshot, Reloads
    <3>2. status[work[p].bid] \in Open
      BY <2>4 DEF Snapshot, Reloads, Inv, Working, Changing
    <3>3. PICK w \in Work : /\ work' = [work EXCEPT ![p] = w]
                            /\ w.at = "run" /\ w.bid = work[p].bid
                            /\ w.orig = status[work[p].bid]
      <4>1. CASE Snapshot(p)
        <5>1. PICK w \in Work : /\ w = [work[p] EXCEPT !.at = "run",
                                                       !.orig = status[work[p].bid]]
                                /\ w.at = "run" /\ w.bid = work[p].bid
                                /\ w.orig = status[work[p].bid]
          BY <1>3, <1>7
        <5> QED
          BY <4>1, <5>1 DEF Snapshot
      <4>2. CASE Reloads(p)
        <5> DEFINE v == [work[p] EXCEPT !.orig = status[work[p].bid]]
        <5>1. /\ v \in Work /\ v.at = "run" /\ v.bid = work[p].bid
              /\ v.orig = status[work[p].bid]
          BY <1>2, <4>2 DEF Work, Reloads
        <5> QED
          BY <4>2, <5>1 DEF Reloads
      <4> QED
        BY <2>4, <4>1, <4>2
    <3>4. ProceedsTo(p, w, status[work[p].bid])
      BY <1>2, <1>3, <3>1, <3>2, <3>3 DEF ProceedsTo
    <3> QED
      BY <1>2, <3>4
  <2>8. CASE Resaves(p)
    <3>1. /\ work' = [work EXCEPT ![p] = work[p]] /\ work[p].at = "run"
          /\ status' = [status EXCEPT ![work[p].bid] = work[p].orig]
      BY <2>8 DEF Resaves, Save, Inv, TypeOK
    <3>2. status[work[p].bid] \in Open /\ work[p].orig \in Open
      BY <3>1 DEF Inv, Working, Changing
    <3>3. ProceedsTo(p, work[p], work[p].orig)
      BY <1>3, <3>1, <3>2 DEF ProceedsTo
    <3>4. work[p].orig \in Status
      BY <1>3, <3>2
    <3> QED
      BY <1>5, <3>3, <3>4
  <2>5. CASE SnapshotFails(p)
    <3>1. /\ Conclude(p, "SAFETY_SNAPSHOT_FAILED")
          /\ status' = [status EXCEPT ![work[p].bid] = work[p].orig]
      BY <2>5 DEF SnapshotFails, Save
    <3>2. status[work[p].bid] \in Open /\ work[p].orig \in Open
      BY <2>5 DEF SnapshotFails, Inv, Working, Changing
    <3>3. PICK w \in Work : /\ w = [work[p] EXCEPT !.at = "release", !.orig = "none",
                                                   !.code = "SAFETY_SNAPSHOT_FAILED"]
                            /\ w.at = "release" /\ w.bid = work[p].bid
                            /\ w.code = "SAFETY_SNAPSHOT_FAILED"
      BY <1>8 DEF Code
    <3>4. work' = [work EXCEPT ![p] = w]
      BY <3>1, <3>3 DEF Conclude
    <3>5. w.at \notin Changing /\ w.at \in Locked
      BY <1>3, <3>3
    <3>6. /\ w.code \notin {"eligible", "completed", "rolled-back", "ROLLBACK_NOT_ELIGIBLE"}
          /\ w.code \notin Success
      BY <3>3 DEF Success
    <3>7. ProceedsTo(p, w, work[p].orig)
      BY <1>3, <3>1, <3>2, <3>3, <3>4, <3>5, <3>6 DEF ProceedsTo
    <3>8. work[p].orig \in Status
      BY <1>3, <3>2
    <3> QED
      BY <3>7, <3>8
  <2>6. CASE Run(p)
    <3>1. PICK s \in Final : /\ Conclude(p, s)
                             /\ status' = [status EXCEPT ![work[p].bid] = s]
                             /\ s \in Success => reached' = reached \cup {work[p].bid}
      BY <2>6 DEF Run, Save
    <3>2. status[work[p].bid] \in Open
      BY <2>6 DEF Run, Inv, Working, Changing
    <3>3. /\ s \in Code /\ s \in Status /\ s # "none"
          /\ s \notin {"eligible", "completed", "ROLLBACK_NOT_ELIGIBLE"}
      BY DEF Final, Code, Status, Eligible
    <3>4. PICK w \in Work : /\ w = [work[p] EXCEPT !.at = "release", !.orig = "none", !.code = s]
                            /\ w.at = "release" /\ w.bid = work[p].bid /\ w.code = s
      BY <1>8, <3>3
    <3>5. work' = [work EXCEPT ![p] = w]
      BY <3>1, <3>4 DEF Conclude
    <3>6. /\ status[work[p].bid] # "rolled-back"
          /\ w.code \notin {"eligible", "completed", "ROLLBACK_NOT_ELIGIBLE"}
          /\ w.code = "rolled-back" => s = "rolled-back"
          /\ w.code \in Success => work[p].bid \in reached'
      BY <1>3, <3>1, <3>2, <3>3, <3>4
    <3>7. w.at \notin Changing /\ w.at \in Locked
      BY <1>3, <3>4
    <3>8. ProceedsTo(p, w, s)
      BY <3>1, <3>3, <3>4, <3>5, <3>6, <3>7 DEF ProceedsTo
    <3> QED
      BY <3>3, <3>8
  <2>7. CASE Raises(p)
    <3>1. Conclude(p, "INTERNAL") /\ UNCHANGED status
      BY <2>7 DEF Raises
    <3>2. PICK w \in Work : /\ w = [work[p] EXCEPT !.at = "release", !.orig = "none",
                                                   !.code = "INTERNAL"]
                            /\ w.at = "release" /\ w.bid = work[p].bid /\ w.code = "INTERNAL"
      BY <1>8 DEF Code
    <3>3. work' = [work EXCEPT ![p] = w]
      BY <3>1, <3>2 DEF Conclude
    <3>4. /\ status' = [status EXCEPT ![work[p].bid] = status[work[p].bid]]
          /\ w.code \notin {"eligible", "completed", "rolled-back", "ROLLBACK_NOT_ELIGIBLE"}
          /\ w.code \notin Success
      BY <1>2, <3>1, <3>2 DEF Success
    <3>5. w.at \notin Changing /\ w.at \in Locked
      BY <1>3, <3>2
    <3>6. ProceedsTo(p, w, status[work[p].bid])
      BY <3>2, <3>3, <3>4, <3>5 DEF ProceedsTo
    <3> QED
      BY <1>2, <3>6
  <2> QED
    BY <2>1, <2>2, <2>3, <2>4, <2>5, <2>6, <2>7, <2>8
<1>9. /\ UNCHANGED <<applying, overwritten>>
      /\ reached' \in {reached, reached \cup {work[p].bid}}
  BY DEF Load, Mark, Snapshot, SnapshotFails, Run, Raises, Reloads, Resaves
<1> QED
  BY <1>1, <1>4, <1>9, Proceeded DEF Proceeds

(* A process gets the lock. *)
Enters(p) ==
  \E w \in Work :
    /\ w.at \in {"load", "release"} /\ w.bid \in Backup /\ w.code = "INTERNAL"
    /\ p[2] = "serve" => w.bid = Head(inbox[p[1]]).req.args.bid
    /\ p[2] = "once" => w.bid = work[p].bid /\ work[p].at # "idle"
    /\ work' = [work EXCEPT ![p] = w]

LEMMA Entered ==
  ASSUME Inv, NEW p \in Process, lock = Nobody, lock' = p, Enters(p),
         consumed' = [consumed EXCEPT ![p[1]] = TRUE] \/ UNCHANGED consumed,
         p[2] = "serve" => consumed'[p[1]] /\ alive[p[1]] /\ inbox[p[1]] # <<>>,
         p[2] = "once" => UNCHANGED consumed,
         UNCHANGED <<manifests, alive, plan, inbox, outbox, user, faults>>
  PROVE  Inv'
<1> USE Processes
<1>1. PICK w \in Work :
        /\ w.at \in {"load", "release"} /\ w.bid \in Backup /\ w.code = "INTERNAL"
        /\ p[2] = "serve" => w.bid = Head(inbox[p[1]]).req.args.bid
        /\ p[2] = "once" => w.bid = work[p].bid /\ work[p].at # "idle"
        /\ work' = [work EXCEPT ![p] = w]
  BY DEF Enters
<1>2. /\ work' \in [Process -> Work] /\ work'[p] = w
      /\ \A q \in Process \ {p} : work'[q] = work[q] /\ work[q].at \notin Locked
  BY <1>1 DEF Inv, TypeOK, LockMatchesWork
<1>3. TypeOK'
  <2>1. consumed' \in [Client -> BOOLEAN]
    BY DEF Inv, TypeOK
  <2> QED
    BY <1>2, <2>1 DEF Inv, TypeOK
<1>4. LockMatchesWork'
  BY <1>1, <1>2 DEF Inv, LockMatchesWork, Locked
<1>5. Placed'
  <2> SUFFICES ASSUME NEW c \in Client PROVE Placed!(c)'
    BY DEF Placed
  <2>1. CASE p = Serve(c)
    BY <1>1, <1>2, <2>1 DEF Inv, Placed
  <2>2. CASE p = Once(c)
    BY <1>1, <1>2, <2>2 DEF Inv, Placed
  <2>3. CASE p # Serve(c) /\ p # Once(c)
    <3>1. p[1] # c
      BY <2>3
    <3>2. consumed'[c] = consumed[c]
      BY <3>1 DEF Inv, TypeOK
    <3> QED
      BY <1>2, <2>3, <3>2 DEF Inv, Placed
  <2> QED
    BY <2>1, <2>2, <2>3
<1>6. Working'
  <2> SUFFICES ASSUME NEW q \in Process PROVE Working!(q)'
    BY DEF Working
  <2>1. CASE q = p
    <3>1. w.at \notin Changing /\ w.code \notin {"eligible", "completed"}
          /\ w.code \notin {"rolled-back", "ROLLBACK_NOT_ELIGIBLE"} /\ w.code \notin Success
      BY <1>1 DEF Changing, Success
    <3> QED
      BY <1>1, <1>2, <2>1, <3>1
  <2>2. CASE q # p
    <3>1. work'[q] = work[q]
      BY <1>2, <2>2
    <3> QED
      BY <3>1 DEF Inv, Working
  <2> QED
    BY <2>1, <2>2
<1>7. Talk'
  BY DEF Inv, Talk, IsAnswer
<1>9. Begun'
  BY DEF Inv, Begun
<1>8. OnBehalf'
  <2> SUFFICES ASSUME NEW c \in Client PROVE OnBehalf!(c)'
    BY DEF OnBehalf
  <2>1. CASE p = Serve(c)
    BY <1>1, <1>2, <2>1 DEF Inv, OnBehalf
  <2>2. CASE p = Once(c)
    BY <1>1, <1>2, <2>2 DEF Inv, OnBehalf
  <2>3. CASE p # Serve(c) /\ p # Once(c)
    BY <1>2, <2>3 DEF Inv, OnBehalf
  <2> QED
    BY <2>1, <2>2, <2>3
<1> QED
  BY <1>3, <1>4, <1>5, <1>6, <1>7, <1>8, <1>9 DEF Inv

LEMMA EnteringSteps ==
  ASSUME Inv, NEW c \in Client, ServeRollback(c)
  PROVE  Inv'
<1> USE Processes
<1>1. /\ lock = Nobody /\ alive[c] /\ inbox[c] # <<>> /\ Head(inbox[c]).req.cmd = "rollback"
      /\ Enter(Serve(c), Asked(c).bid) /\ consumed' = [consumed EXCEPT ![c] = TRUE]
      /\ UNCHANGED <<manifests, alive, plan, inbox, outbox, user, faults>>
  BY DEF ServeRollback, Serving
<1>2. Head(inbox[c]).req \in Request
  BY <1>1, OneRequest
<1>3. Asked(c).bid \in Backup
  BY <1>1, <1>2 DEF Request, Args, Asked
<1>4. PICK l \in {"load", "release"} :
        work' = [work EXCEPT ![Serve(c)] = [NoWork EXCEPT !.at = l, !.bid = Asked(c).bid,
                                                          !.code = "INTERNAL"]]
  BY <1>1 DEF Enter
<1>5. PICK w \in Work : /\ w.at \in {"load", "release"} /\ w.bid = Asked(c).bid
                        /\ w.code = "INTERNAL" /\ work' = [work EXCEPT ![Serve(c)] = w]
  <2>1. [NoWork EXCEPT !.at = l, !.bid = Asked(c).bid, !.code = "INTERNAL"] \in Work
    BY <1>3 DEF NoWork, Work, At, Locked, Status, Code
  <2>2. \A w : w = [NoWork EXCEPT !.at = l, !.bid = Asked(c).bid, !.code = "INTERNAL"] =>
          w.at \in {"load", "release"} /\ w.bid = Asked(c).bid /\ w.code = "INTERNAL"
    BY DEF NoWork
  <2> QED
    BY <1>4, <2>1, <2>2
<1>6. Enters(Serve(c))
  BY <1>3, <1>5 DEF Enters, Asked
<1>7. consumed'[c] /\ lock' = Serve(c)
  BY <1>1 DEF Inv, TypeOK, Enter
<1> QED
  BY <1>1, <1>6, <1>7, Entered

(* The answer that ends a rollback of the persistent helper *)
LEMMA ServeReleases ==
  ASSUME Inv, NEW c \in Client, Release(Serve(c))
  PROVE  Inv'
<1> USE Processes
<1>1. /\ work[Serve(c)].at = "release" /\ Free(Serve(c)) /\ DiscardPlan(c)
      /\ work' = [work EXCEPT ![Serve(c)] = NoWork] /\ UNCHANGED <<manifests, user, faults>>
  BY DEF Release
<1>2. BecomesIdle(c)
  <2>1. NoWork \in Work /\ NoWork.at = "idle"
    BY DEF NoWork, Work, At, Status, Code
  <2> QED
    BY <1>1, <2>1 DEF BecomesIdle
<1>3. alive[c] /\ inbox[c] # <<>>
  BY <1>1 DEF Inv, Placed, Locked
<1>4. Replies(c)
  <2>1. /\ work[Serve(c)].code \in Code
        /\ work[Serve(c)].code \notin {"eligible", "completed"}
        /\ work[Serve(c)].bid = Head(inbox[c]).req.args.bid
        /\ work[Serve(c)].code = "rolled-back" =>
             work[Serve(c)].bid \in Backup /\ RolledBack(work[Serve(c)].bid)
    BY <1>1 DEF Inv, TypeOK, Working, OnBehalf, Locked, Work
  <2>2. Respond(c, work[Serve(c)].code, NoArgs, FALSE)
    BY <1>1 DEF DiscardPlan
  <2> QED
    BY <2>1, <2>2 DEF Replies
<1> QED
  BY <1>1, <1>2, <1>3, <1>4, Answered

(* A one-shot helper ends, with its exit code. *)
Exits(c) ==
  \E w \in Work :
    /\ w.at = "exited" /\ w.bid = work[Once(c)].bid
    /\ w.code \notin {"eligible", "completed"}
    /\ w.code \in {"rolled-back", "ROLLBACK_NOT_ELIGIBLE"} =>
         w.bid \in Backup /\ RolledBack(w.bid)
    /\ w.code \in Success => w.bid \in reached
    /\ work' = [work EXCEPT ![Once(c)] = w]

LEMMA Exited ==
  ASSUME Inv, NEW c \in Client, work[Once(c)].at # "idle", Exits(c), Free(Once(c)),
         UNCHANGED <<manifests, procVars, user>>, faults' \in 0..MaxFaults
  PROVE  Inv'
<1> USE Processes
<1>1. PICK w \in Work :
        /\ w.at = "exited" /\ w.bid = work[Once(c)].bid
        /\ w.code \notin {"eligible", "completed"}
        /\ w.code \in {"rolled-back", "ROLLBACK_NOT_ELIGIBLE"} =>
             w.bid \in Backup /\ RolledBack(w.bid)
        /\ w.code \in Success => w.bid \in reached
        /\ work' = [work EXCEPT ![Once(c)] = w]
  BY DEF Exits
<1>2. /\ work' \in [Process -> Work] /\ work'[Once(c)] = w
      /\ \A q \in Process \ {Once(c)} : work'[q] = work[q]
  BY <1>1 DEF Inv, TypeOK
<1>3. UNCHANGED <<alive, plan, consumed, inbox, outbox>>
  BY DEF procVars
<1>4. TypeOK'
  BY <1>2, <1>3 DEF Inv, TypeOK, Free
<1>5. LockMatchesWork'
  <2>1. "exited" \notin Locked
    BY DEF Locked, Changing
  <2> QED
    BY <1>1, <1>2, <2>1 DEF Inv, TypeOK, LockMatchesWork, Free
<1>6. Placed'
  BY <1>1, <1>2, <1>3 DEF Inv, Placed
<1>7. Working'
  BY <1>1, <1>2 DEF Inv, Working, Changing, Locked
<1>8. Talk'
  BY <1>3 DEF Inv, Talk, IsAnswer
<1>9. OnBehalf'
  <2> SUFFICES ASSUME NEW d \in Client PROVE OnBehalf!(d)'
    BY DEF OnBehalf
  <2>1. work'[Serve(d)] = work[Serve(d)] /\ work'[Once(d)].bid = work[Once(d)].bid
    BY <1>1, <1>2
  <2>2. work'[Once(d)].at # "idle" => work[Once(d)].at # "idle"
    BY <1>2
  <2> QED
    BY <1>3, <2>1, <2>2 DEF Inv, OnBehalf
<1>10. Begun'
  BY DEF Inv, Begun
<1> QED
  BY <1>4, <1>5, <1>6, <1>7, <1>8, <1>9, <1>10 DEF Inv

(* It asks for the lock, and gets it or not. *)
LEMMA OnceLockStep ==
  ASSUME Inv, NEW c \in Client, OnceLock(c)
  PROVE  Inv'
<1> USE Processes
<1>1. /\ work[Once(c)].at = "lock" /\ work[Once(c)].at # "idle" /\ work[Once(c)] \in Work
      /\ work[Once(c)].bid \in Backup
      /\ UNCHANGED <<manifests, procVars, user, faults>> /\ faults' \in 0..MaxFaults
  BY DEF Inv, TypeOK, Working, OnceLock
<1>2. CASE Enter(Once(c), work[Once(c)].bid) /\ lock = Nobody
  <2>1. PICK l \in {"load", "release"} :
          work' = [work EXCEPT ![Once(c)] = [NoWork EXCEPT !.at = l, !.bid = work[Once(c)].bid,
                                                           !.code = "INTERNAL"]]
    BY <1>2 DEF Enter
  <2>2. PICK w \in Work : /\ w.at \in {"load", "release"} /\ w.bid = work[Once(c)].bid
                          /\ w.code = "INTERNAL" /\ work' = [work EXCEPT ![Once(c)] = w]
    <3>1. [NoWork EXCEPT !.at = l, !.bid = work[Once(c)].bid, !.code = "INTERNAL"] \in Work
      BY <1>1 DEF NoWork, Work, At, Locked, Status, Code
    <3>2. \A w : w = [NoWork EXCEPT !.at = l, !.bid = work[Once(c)].bid, !.code = "INTERNAL"] =>
            w.at \in {"load", "release"} /\ w.bid = work[Once(c)].bid /\ w.code = "INTERNAL"
      BY DEF NoWork
    <3> QED
      BY <2>1, <3>1, <3>2
  <2>3. Enters(Once(c))
    BY <1>1, <2>2 DEF Enters
  <2> QED
    BY <1>1, <1>2, <2>3, Entered DEF Enter, procVars
<1>3. CASE /\ work' = [work EXCEPT ![Once(c)] = [work[Once(c)] EXCEPT !.at = "exited",
                                                          !.code = "E_OPERATION_ACTIVE"]]
           /\ UNCHANGED lock
  <2>1. PICK w \in Work : /\ w = [work[Once(c)] EXCEPT !.at = "exited",
                                                       !.code = "E_OPERATION_ACTIVE"]
                          /\ w.at = "exited" /\ w.bid = work[Once(c)].bid
                          /\ w.code = "E_OPERATION_ACTIVE"
    <3>1. [work[Once(c)] EXCEPT !.at = "exited", !.code = "E_OPERATION_ACTIVE"] \in Work
      BY <1>1 DEF Work, At, Code
    <3>2. \A w : w = [work[Once(c)] EXCEPT !.at = "exited", !.code = "E_OPERATION_ACTIVE"] =>
            /\ w.at = "exited" /\ w.bid = work[Once(c)].bid
            /\ w.code = "E_OPERATION_ACTIVE"
      BY <1>1 DEF Work
    <3> QED
      BY <3>1, <3>2
  <2>2. Exits(c)
    BY <1>3, <2>1 DEF Exits, Success
  <2>3. Free(Once(c))
    BY <1>1, <1>3 DEF Inv, LockMatchesWork, Free, Locked, Changing
  <2> QED
    BY <1>1, <2>2, <2>3, Exited
<1> QED
  BY <1>2, <1>3 DEF OnceLock

LEMMA OnceEndingSteps ==
  ASSUME Inv, NEW c \in Client, Release(Once(c)) \/ KillOnce(c)
  PROVE  Inv'
<1> USE Processes
<1>1. /\ work[Once(c)].at # "idle" /\ work[Once(c)] \in Work /\ Free(Once(c))
      /\ UNCHANGED <<manifests, procVars, user>> /\ faults' \in 0..MaxFaults
  BY BoundAssumption DEF Inv, TypeOK, Release, KillOnce, Fault, Locked, Changing
<1>2. CASE Release(Once(c))
  <2>1. /\ work[Once(c)].at = "release"
        /\ work' = [work EXCEPT ![Once(c)] = [work[Once(c)] EXCEPT !.at = "exited"]]
    BY <1>2 DEF Release, Goto
  <2>2. PICK w \in Work : /\ w = [work[Once(c)] EXCEPT !.at = "exited"]
                          /\ w.at = "exited" /\ w.bid = work[Once(c)].bid
                          /\ w.code = work[Once(c)].code
    <3>1. "exited" \in At
      BY DEF At
    <3> QED
      BY <1>1, <3>1, Moved
  <2>3. work' = [work EXCEPT ![Once(c)] = w]
    BY <2>1, <2>2
  <2>4. /\ work[Once(c)].code \notin {"eligible", "completed"}
        /\ work[Once(c)].code \in Success => work[Once(c)].bid \in reached
        /\ work[Once(c)].code \in {"rolled-back", "ROLLBACK_NOT_ELIGIBLE"} =>
             work[Once(c)].bid \in Backup /\ RolledBack(work[Once(c)].bid)
    BY <2>1 DEF Inv, Working
  <2>5. Exits(c)
    BY <2>2, <2>3, <2>4 DEF Exits
  <2> QED
    BY <1>1, <2>5, Exited
<1>3. CASE KillOnce(c)
  <2>1. PICK w \in Work : /\ w = [work[Once(c)] EXCEPT !.at = "exited", !.orig = "none",
                                                        !.code = "HELPER_DIED"]
                          /\ w.at = "exited" /\ w.bid = work[Once(c)].bid
                          /\ w.code = "HELPER_DIED"
    <3>1. [work[Once(c)] EXCEPT !.at = "exited", !.orig = "none",
                                                        !.code = "HELPER_DIED"] \in Work
      BY <1>1 DEF Work, At, Code, Status
    <3>2. \A w : w = [work[Once(c)] EXCEPT !.at = "exited", !.orig = "none",
                                                        !.code = "HELPER_DIED"] =>
            w.at = "exited" /\ w.bid = work[Once(c)].bid /\ w.code = "HELPER_DIED"
      BY <1>1 DEF Work
    <3> QED
      BY <3>1, <3>2
  <2>2. work' = [work EXCEPT ![Once(c)] = w]
    BY <1>3, <2>1 DEF KillOnce
  <2>3. Exits(c)
    BY <2>1, <2>2 DEF Exits, Success
  <2> QED
    BY <1>1, <2>3, Exited
<1> QED
  BY <1>2, <1>3

-----------------------------------------------------------------------------
(* The steps of the clients, and of others *)

(* A client that is idle starts to ask. *)
LEMMA AskStep ==
  ASSUME Inv, NEW c \in Client, Ask(c)
  PROVE  Inv'
<1> USE Processes
<1>1. /\ user[c].at = "idle" /\ user[c].id \in Nat /\ inbox[c] = <<>> /\ outbox[c] = <<>>
      /\ work[Serve(c)].at \notin Locked /\ work[Once(c)].at = "idle"
  BY DEF Ask, Inv, TypeOK, User, Talk, Placed, OnBehalf
<1>2. /\ alive' = [alive EXCEPT ![c] = TRUE]
      /\ UNCHANGED <<manifests, lock, plan, consumed, inbox, outbox, work, faults>>
  <2>1. outbox' = [outbox EXCEPT ![c] = <<>>] \/ outbox' = [outbox EXCEPT ![c] = outbox[c]]
    BY DEF Ask, Ensure
  <2>2. outbox = [outbox EXCEPT ![c] = outbox[c]]
    BY DEF Inv, TypeOK
  <2> QED
    BY <1>1, <2>1, <2>2 DEF Ask, Ensure
<1>3. PICK r \in Request :
        user' = [user EXCEPT ![c] = [at |-> "write", ask |-> r, id |-> user[c].id + 1,
                                     reply |-> NoReply]]
  BY DEF Ask
<1>4. /\ user' \in [Client -> User] /\ user'[c].at = "write" /\ user'[c].ask = r
      /\ \A d \in Client \ {c} : user'[d] = user[d]
  <2>1. NoReply \in Message
    BY DEF NoReply, Message, Code
  <2>2. [at |-> "write", ask |-> r, id |-> user[c].id + 1, reply |-> NoReply] \in User
    BY <1>1, <2>1 DEF User
  <2> QED
    BY <1>3, <2>2 DEF Inv, TypeOK
<1>5. TypeOK'
  BY <1>2, <1>4 DEF Inv, TypeOK
<1>6. LockMatchesWork' /\ Working'
  BY <1>2 DEF Inv, LockMatchesWork, Working
<1>10. Begun'
  BY <1>2 DEF Inv, Begun
<1>7. Placed'
  <2>1. \A d \in Client : alive'[d] = alive[d] \/ d = c
    BY <1>2 DEF Inv, TypeOK
  <2>2. alive'[c]
    BY <1>2 DEF Inv, TypeOK
  <2> QED
    BY <1>2, <2>1, <2>2 DEF Inv, Placed
<1>8. Talk'
  <2> SUFFICES ASSUME NEW d \in Client PROVE Talk!(d)'
    BY DEF Talk
  <2>1. CASE d = c
    BY <1>1, <1>2, <1>4, <2>1
  <2>2. CASE d # c
    BY <1>2, <1>4, <2>2 DEF Inv, Talk, IsAnswer
  <2> QED
    BY <2>1, <2>2
<1>9. OnBehalf'
  <2> SUFFICES ASSUME NEW d \in Client PROVE OnBehalf!(d)'
    BY DEF OnBehalf
  <2>1. CASE d = c
    BY <1>1, <1>2, <1>4, <2>1
  <2>2. CASE d # c
    BY <1>2, <1>4, <2>2 DEF Inv, OnBehalf
  <2> QED
    BY <2>1, <2>2
<1> QED
  BY <1>5, <1>6, <1>7, <1>8, <1>9, <1>10 DEF Inv

(* A client that waits is told something. *)
LEMMA Telling ==
  ASSUME Inv, NEW c \in Client, inbox[c] = <<>>, inbox' = inbox,
         \E m \in Message : IsAnswer(c, m) /\ Told(c, m),
         outbox' \in [Client -> Seq(Message)], outbox'[c] = <<>>,
         \A d \in Client \ {c} : outbox'[d] = outbox[d],
         UNCHANGED <<manifests, lock, alive, plan, consumed, faults>>,
         \/ UNCHANGED work /\ user[c].at \in {"write", "wait"}
         \/ work' = [work EXCEPT ![Once(c)] = NoWork] /\ work[Once(c)].at \notin Locked
  PROVE  Inv'
<1> USE Processes
<1>1. PICK m \in Message :
        /\ IsAnswer(c, m)
        /\ user' = [user EXCEPT ![c] = [user[c] EXCEPT !.at = "idle", !.reply = m]]
  BY DEF Told
<1>2. /\ user' \in [Client -> User] /\ user'[c].at = "idle" /\ user'[c].reply = m
      /\ user'[c].ask = user[c].ask /\ user'[c].id = user[c].id
      /\ \A d \in Client \ {c} : user'[d] = user[d]
  <2>1. user[c] \in User
    BY DEF Inv, TypeOK
  <2>2. [user[c] EXCEPT !.at = "idle", !.reply = m] \in User
    BY <2>1 DEF User
  <2>3. \A u : u = [user[c] EXCEPT !.at = "idle", !.reply = m] =>
          u.at = "idle" /\ u.reply = m /\ u.ask = user[c].ask /\ u.id = user[c].id
    BY <2>1 DEF User
  <2> QED
    BY <1>1, <2>2, <2>3 DEF Inv, TypeOK
<1>3. /\ work' \in [Process -> Work] /\ work'[Once(c)].at = "idle"
      /\ \A p \in Process \ {Once(c)} : work'[p] = work[p]
  <2>1. CASE UNCHANGED work /\ user[c].at \in {"write", "wait"}
    BY <2>1 DEF Inv, TypeOK, OnBehalf
  <2>2. CASE work' = [work EXCEPT ![Once(c)] = NoWork]
    <3>1. NoWork \in Work /\ NoWork.at = "idle"
      BY DEF NoWork, Work, At, Status, Code
    <3> QED
      BY <2>2, <3>1 DEF Inv, TypeOK
  <2> QED
    BY <2>1, <2>2
<1>4. TypeOK'
  BY <1>2, <1>3 DEF Inv, TypeOK
<1>5. LockMatchesWork'
  <2>1. "idle" \notin Locked /\ work[Once(c)].at \notin Locked
    BY DEF Locked, Changing, Inv, OnBehalf
  <2> QED
    BY <1>3, <2>1 DEF Inv, LockMatchesWork
<1>6. Placed' /\ Working' /\ Begun'
  <2>3. Begun'
    BY DEF Inv, Begun
  <2>1. Placed'
    BY <1>3 DEF Inv, Placed
  <2>2. Working'
    BY <1>3 DEF Inv, Working, Locked, Changing
  <2> QED
    BY <2>1, <2>2, <2>3
<1>7. Talk'
  <2> SUFFICES ASSUME NEW d \in Client PROVE Talk!(d)'
    BY DEF Talk
  <2>1. CASE d = c
    <3>1. IsAnswer(c, user[c].reply)'
      BY <1>1, <1>2 DEF IsAnswer
    <3> QED
      BY <1>2, <2>1, <3>1
  <2>2. CASE d # c
    BY <1>2, <2>2 DEF Inv, Talk, IsAnswer
  <2> QED
    BY <2>1, <2>2
<1>8. OnBehalf'
  <2> SUFFICES ASSUME NEW d \in Client PROVE OnBehalf!(d)'
    BY DEF OnBehalf
  <2>1. CASE d = c
    BY <1>2, <1>3, <2>1 DEF Inv, OnBehalf
  <2>2. CASE d # c
    BY <1>2, <1>3, <2>2 DEF Inv, OnBehalf
  <2> QED
    BY <2>1, <2>2
<1> QED
  BY <1>4, <1>5, <1>6, <1>7, <1>8 DEF Inv

LEMMA WriteStep ==
  ASSUME Inv, NEW c \in Client, Write(c)
  PROVE  Inv'
<1> USE Processes
<1>1. /\ user[c].at = "write" /\ user[c] \in User /\ user[c].ask \in Request
      /\ inbox[c] = <<>> /\ outbox[c] = <<>>
      /\ UNCHANGED <<manifests, lock, alive, plan, consumed, outbox, work, faults>>
  BY DEF Write, Inv, TypeOK, Talk
<1>2. CASE ~alive[c]
  <2>1. Told(c, [id |-> user[c].id, code |-> "BROKEN_PIPE"]) /\ UNCHANGED inbox
    BY <1>2 DEF Write
  <2>2. PICK m \in Message : m = [id |-> user[c].id, code |-> "BROKEN_PIPE"]
    BY <1>1 DEF User, Message, Code
  <2>3. IsAnswer(c, m) /\ Told(c, m)
    BY <2>1, <2>2 DEF IsAnswer
  <2>4. outbox' \in [Client -> Seq(Message)]
    BY <1>1 DEF Inv, TypeOK
  <2> QED
    BY <1>1, <2>1, <2>3, <2>4, Telling
<1>3. CASE alive[c]
  <2>1. /\ user' = [user EXCEPT ![c] = [user[c] EXCEPT !.at = "wait"]]
        /\ inbox' = [inbox EXCEPT ![c] = Append(inbox[c], [id |-> user[c].id,
                                                           req |-> user[c].ask])]
    BY <1>3 DEF Write
  <2>2. /\ user' \in [Client -> User] /\ user'[c].at = "wait"
        /\ user'[c].ask = user[c].ask /\ user'[c].id = user[c].id
        /\ \A d \in Client \ {c} : user'[d] = user[d]
    <3>1. [user[c] EXCEPT !.at = "wait"] \in User
      BY <1>1 DEF User
    <3>2. \A u : u = [user[c] EXCEPT !.at = "wait"] =>
            u.at = "wait" /\ u.ask = user[c].ask /\ u.id = user[c].id
      BY <1>1 DEF User
    <3> QED
      BY <2>1, <3>1, <3>2 DEF Inv, TypeOK
  <2>3. inbox' = [inbox EXCEPT ![c] = <<[id |-> user[c].id, req |-> user[c].ask]>>]
    <3>1. Append(inbox[c], [id |-> user[c].id, req |-> user[c].ask])
            = <<[id |-> user[c].id, req |-> user[c].ask]>>
      BY <1>1, Singletons
    <3> QED
      BY <2>1, <3>1
  <2>4. /\ inbox' \in [Client -> Seq([id : Nat, req : Request])]
        /\ inbox'[c] = <<[id |-> user[c].id, req |-> user[c].ask]>>
        /\ \A d \in Client \ {c} : inbox'[d] = inbox[d]
    <3> DEFINE Pipe == Seq([id : Nat, req : Request])
               one  == <<[id |-> user[c].id, req |-> user[c].ask]>>
    <3>1. [id |-> user[c].id, req |-> user[c].ask] \in [id : Nat, req : Request]
      BY <1>1 DEF User
    <3>2. one \in Pipe
      BY <3>1
    <3>3. inbox \in [Client -> Pipe]
      BY DEF Inv, TypeOK
    <3>4. inbox' = [inbox EXCEPT ![c] = one]
      BY <2>3
    <3> HIDE DEF Pipe, one
    <3>5. inbox' \in [Client -> Pipe] /\ inbox'[c] = one
          /\ \A d \in Client \ {c} : inbox'[d] = inbox[d]
      BY <3>2, <3>3, <3>4
    <3> QED
      BY <3>5 DEF Pipe, one
  <2>5. TypeOK'
    BY <1>1, <2>2, <2>4 DEF Inv, TypeOK
  <2>6. LockMatchesWork' /\ Working'
    BY <1>1 DEF Inv, LockMatchesWork, Working
  <2>7. Placed'
    <3> SUFFICES ASSUME NEW d \in Client PROVE Placed!(d)'
      BY DEF Placed
    <3>1. CASE d = c
      BY <1>1, <1>3, <3>1 DEF Inv, Placed
    <3>2. CASE d # c
      BY <1>1, <2>4, <3>2 DEF Inv, Placed
    <3> QED
      BY <3>1, <3>2
  <2>8. Talk'
    <3> SUFFICES ASSUME NEW d \in Client PROVE Talk!(d)'
      BY DEF Talk
    <3>1. CASE d = c
      BY <1>1, <2>2, <2>4, <3>1
    <3>2. CASE d # c
      <4>1. /\ inbox'[d] = inbox[d] /\ user'[d] = user[d]
            /\ UNCHANGED <<outbox, manifests>>
        BY <1>1, <2>2, <2>4, <3>2
      <4>2. Talk
        BY DEF Inv
      <4> QED
        BY <4>1, <4>2 DEF Talk, IsAnswer
    <3> QED
      BY <3>1, <3>2
  <2>9. OnBehalf'
    <3> SUFFICES ASSUME NEW d \in Client PROVE OnBehalf!(d)'
      BY DEF OnBehalf
    <3>1. CASE d = c
      <4>1. work[Serve(c)].at \notin Locked /\ work[Once(c)].at = "idle"
        BY <1>1 DEF Inv, Placed, OnBehalf
      <4> QED
        BY <1>1, <2>2, <3>1, <4>1
    <3>2. CASE d # c
      <4>1. inbox'[d] = inbox[d] /\ user'[d] = user[d] /\ UNCHANGED work
        BY <1>1, <2>2, <2>4, <3>2
      <4>2. OnBehalf
        BY DEF Inv
      <4> QED
        BY <4>1, <4>2 DEF OnBehalf
    <3> QED
      BY <3>1, <3>2
  <2>10. Begun'
    BY <1>1 DEF Inv, Begun
  <2> QED
    BY <2>5, <2>6, <2>7, <2>8, <2>9, <2>10 DEF Inv
<1> QED
  BY <1>2, <1>3

LEMMA ReadStep ==
  ASSUME Inv, NEW c \in Client, Read(c)
  PROVE  Inv'
<1> USE Processes
<1>1. /\ user[c].at = "wait" /\ user[c] \in User
      /\ UNCHANGED <<manifests, lock, alive, plan, consumed, inbox, work, faults>>
  BY DEF Read, Inv, TypeOK
<1>2. CASE outbox[c] # <<>>
  <2>1. PICK m \in Message : outbox[c] = <<m>> /\ IsAnswer(c, m) /\ inbox[c] = <<>>
    BY <1>1, <1>2 DEF Inv, Talk
  <2>2. Head(outbox[c]) = m /\ Tail(outbox[c]) = <<>>
    BY <2>1, Singletons
  <2>3. Told(c, m) /\ outbox' = [outbox EXCEPT ![c] = <<>>]
    <3>1. Told(c, Head(outbox[c])) /\ outbox' = [outbox EXCEPT ![c] = Tail(outbox[c])]
      BY <1>2 DEF Read
    <3> QED
      BY <2>2, <3>1 DEF Told
  <2>4. /\ outbox' \in [Client -> Seq(Message)] /\ outbox'[c] = <<>>
        /\ \A d \in Client \ {c} : outbox'[d] = outbox[d]
    <3>1. <<>> \in Seq(Message)
      OBVIOUS
    <3> QED
      BY <2>3, <3>1 DEF Inv, TypeOK
  <2> QED
    BY <1>1, <2>1, <2>3, <2>4, Telling
<1>3. CASE outbox[c] = <<>>
  <2>1. /\ ~alive[c] /\ Told(c, [id |-> user[c].id, code |-> "HELPER_DIED"])
        /\ UNCHANGED outbox
    BY <1>3 DEF Read
  <2>2. PICK m \in Message : m = [id |-> user[c].id, code |-> "HELPER_DIED"]
    BY <1>1 DEF User, Message, Code
  <2>3. IsAnswer(c, m) /\ Told(c, m)
    BY <2>1, <2>2 DEF IsAnswer
  <2>4. outbox' \in [Client -> Seq(Message)] /\ inbox[c] = <<>>
    BY <2>1 DEF Inv, TypeOK, Placed
  <2> QED
    BY <1>1, <1>3, <2>1, <2>3, <2>4, Telling
<1> QED
  BY <1>2, <1>3

LEMMA WatchedStep ==
  ASSUME Inv, NEW c \in Client, Watched(c)
  PROVE  Inv'
<1> USE Processes
<1>1. /\ user[c].at = "watch" /\ user[c] \in User /\ work[Once(c)].at = "exited"
      /\ inbox[c] = <<>> /\ outbox[c] = <<>>
      /\ Told(c, [id |-> user[c].id, code |-> Outcome(work[Once(c)].code)])
      /\ work' = [work EXCEPT ![Once(c)] = NoWork]
      /\ UNCHANGED <<manifests, lock, alive, plan, consumed, inbox, outbox, faults>>
  BY DEF Watched, procVars, Inv, TypeOK, Talk
<1>2. /\ work[Once(c)].code \in Code /\ work[Once(c)].code \notin {"eligible", "completed"}
      /\ work[Once(c)].bid = user[c].ask.args.bid /\ user[c].ask.args.bid \in Backup
      /\ work[Once(c)].code \in Success => work[Once(c)].bid \in reached
  BY <1>1 DEF Inv, TypeOK, Working, OnBehalf, Work
<1>6. PICK x \in Code : /\ x = Outcome(work[Once(c)].code)
                        /\ x \notin {"eligible", "rolled-back"}
                        /\ x = "completed" => user[c].ask.args.bid \in reached
  BY <1>2 DEF Outcome, Success, Code
<1>3. PICK m \in Message : m = [id |-> user[c].id, code |-> x]
  BY <1>1 DEF User, Message
<1>4. IsAnswer(c, m) /\ Told(c, m)
  BY <1>1, <1>2, <1>3, <1>6 DEF IsAnswer
<1>5. outbox' \in [Client -> Seq(Message)] /\ work[Once(c)].at \notin Locked
  BY <1>1 DEF Inv, TypeOK, Locked, Changing
<1> QED
  BY <1>1, <1>4, <1>5, Telling

LEMMA ConfirmStep ==
  ASSUME Inv, NEW c \in Client, Confirm(c)
  PROVE  Inv'
<1> USE Processes
<1>1. /\ user[c].at = "idle" /\ user[c].reply.code = "eligible" /\ user[c] \in User
      /\ inbox[c] = <<>> /\ outbox[c] = <<>> /\ user[c].ask.args.bid \in Backup
      /\ UNCHANGED <<manifests, lock, alive, plan, consumed, inbox, outbox, faults>>
  BY DEF Confirm, procVars, Inv, TypeOK, Talk, IsAnswer
<1>2. /\ work[Serve(c)].at \notin Locked /\ work[Once(c)].at = "idle"
  BY <1>1 DEF Inv, Placed, OnBehalf
<1>3. /\ user' \in [Client -> User] /\ user'[c].at = "watch" /\ user'[c].ask = user[c].ask
      /\ \A d \in Client \ {c} : user'[d] = user[d]
  <2>1. user' = [user EXCEPT ![c] = [user[c] EXCEPT !.at = "watch", !.reply = NoReply]]
    BY DEF Confirm
  <2>2. NoReply \in Message
    BY DEF NoReply, Message, Code
  <2>3. [user[c] EXCEPT !.at = "watch", !.reply = NoReply] \in User
    BY <1>1, <2>2 DEF User
  <2>4. \A u : u = [user[c] EXCEPT !.at = "watch", !.reply = NoReply] =>
          u.at = "watch" /\ u.ask = user[c].ask
    BY <1>1 DEF User
  <2> QED
    BY <2>1, <2>3, <2>4 DEF Inv, TypeOK
<1>4. /\ work' \in [Process -> Work] /\ work'[Once(c)].at = "lock"
      /\ work'[Once(c)].bid = user[c].ask.args.bid
      /\ \A p \in Process \ {Once(c)} : work'[p] = work[p]
  <2>1. work' = [work EXCEPT ![Once(c)] = [NoWork EXCEPT !.at = "lock",
                                                         !.bid = user[c].ask.args.bid]]
    BY DEF Confirm
  <2>2. [NoWork EXCEPT !.at = "lock", !.bid = user[c].ask.args.bid] \in Work
    BY <1>1 DEF NoWork, Work, At, Status, Code
  <2>3. \A w : w = [NoWork EXCEPT !.at = "lock", !.bid = user[c].ask.args.bid] =>
          w.at = "lock" /\ w.bid = user[c].ask.args.bid
    BY DEF NoWork
  <2> QED
    BY <2>1, <2>2, <2>3 DEF Inv, TypeOK
<1>5. TypeOK'
  BY <1>1, <1>3, <1>4 DEF Inv, TypeOK
<1>6. LockMatchesWork'
  <2>1. "idle" \notin Locked /\ "lock" \notin Locked
    BY DEF Locked, Changing
  <2> QED
    BY <1>1, <1>2, <1>4, <2>1 DEF Inv, LockMatchesWork
<1>7. Placed'
  BY <1>1, <1>4 DEF Inv, Placed
<1>8. Working' /\ Begun'
  BY <1>1, <1>4 DEF Inv, Working, Begun, Locked, Changing
<1>9. Talk'
  <2> SUFFICES ASSUME NEW d \in Client PROVE Talk!(d)'
    BY DEF Talk
  <2>1. CASE d = c
    BY <1>1, <1>3, <2>1
  <2>2. CASE d # c
    BY <1>1, <1>3, <2>2 DEF Inv, Talk, IsAnswer
  <2> QED
    BY <2>1, <2>2
<1>10. OnBehalf'
  <2> SUFFICES ASSUME NEW d \in Client PROVE OnBehalf!(d)'
    BY DEF OnBehalf
  <2>1. CASE d = c
    BY <1>1, <1>2, <1>3, <1>4, <2>1
  <2>2. CASE d # c
    BY <1>1, <1>3, <1>4, <2>2 DEF Inv, OnBehalf
  <2> QED
    BY <2>1, <2>2
<1> QED
  BY <1>5, <1>6, <1>7, <1>8, <1>9, <1>10 DEF Inv

LEMMA LeaveStep ==
  ASSUME Inv, NEW c \in Client, Leave(c)
  PROVE  Inv'
<1> USE Processes
<1>1. /\ outbox' = [outbox EXCEPT ![c] = <<>>]
      /\ UNCHANGED <<manifests, lock, alive, plan, consumed, inbox, work, faults>>
  BY DEF Leave
<1>2. /\ user' \in [Client -> User] /\ user'[c].at = "gone"
      /\ \A d \in Client \ {c} : user'[d] = user[d]
  <2>1. user' = [user EXCEPT ![c] = [NoUser EXCEPT !.at = "gone"]]
    BY DEF Leave
  <2>2. [NoUser EXCEPT !.at = "gone"] \in User
    BY DEF NoUser, User, NoReply, Message, Code
  <2>3. \A u : u = [NoUser EXCEPT !.at = "gone"] => u.at = "gone"
    BY DEF NoUser
  <2> QED
    BY <2>1, <2>2, <2>3 DEF Inv, TypeOK
<1>3. /\ outbox' \in [Client -> Seq(Message)] /\ outbox'[c] = <<>>
      /\ \A d \in Client \ {c} : outbox'[d] = outbox[d]
  <2>1. <<>> \in Seq(Message)
    OBVIOUS
  <2> QED
    BY <1>1, <2>1 DEF Inv, TypeOK
<1>4. TypeOK'
  BY <1>1, <1>2, <1>3 DEF Inv, TypeOK
<1>5. LockMatchesWork' /\ Placed' /\ Working' /\ Begun'
  BY <1>1 DEF Inv, LockMatchesWork, Placed, Working, Begun
<1>6. Talk'
  <2> SUFFICES ASSUME NEW d \in Client PROVE Talk!(d)'
    BY DEF Talk
  <2>1. CASE d = c
    <3>1. inbox[c] = <<>> \/ \E r \in [id : Nat, req : Request] : inbox[c] = <<r>>
      BY OneRequest
    <3> QED
      BY <1>1, <1>2, <1>3, <2>1, <3>1
  <2>2. CASE d # c
    BY <1>1, <1>2, <1>3, <2>2 DEF Inv, Talk, IsAnswer
  <2> QED
    BY <2>1, <2>2
<1>7. OnBehalf'
  <2> SUFFICES ASSUME NEW d \in Client PROVE OnBehalf!(d)'
    BY DEF OnBehalf
  <2>1. CASE d = c
    BY <1>1, <1>2, <2>1 DEF Inv, OnBehalf
  <2>2. CASE d # c
    BY <1>1, <1>2, <2>2 DEF Inv, OnBehalf
  <2> QED
    BY <2>1, <2>2
<1> QED
  BY <1>4, <1>5, <1>6, <1>7 DEF Inv

(* What an apply does to the manifest of its own backup: it begins it, or  *)
(* writes over what is there, be it the end of a rollback.                 *)
ApplyStep(b) == BeginApply(b) \/ ApplySaves(b) \/ EndApply(b)

LEMMA AppliesDo ==
  ASSUME Inv, NEW b \in Backup, ApplyStep(b)
  PROVE  /\ UNCHANGED <<lock, alive, plan, consumed, inbox, outbox, work, user, faults, reached>>
         /\ applying' \in {applying, applying \cup {b}, applying \ {b}}
         /\ overwritten' \in {overwritten, overwritten \cup {b}}
         /\ status' \in [Backup -> Status]
         /\ \A d \in Backup \ {b} : status'[d] = status[d]
         /\ status'[b] = status[b] \/ status'[b] \in {"in-progress", "completed", "failed"}
         /\ status[b] = "rolled-back" => status'[b] = "rolled-back" \/ b \in overwritten'
         /\ b \in applying' => status'[b] # "none"
<1>1. UNCHANGED <<lock, alive, plan, consumed, inbox, outbox, work, user, faults, reached>>
  BY DEF ApplyStep, BeginApply, ApplySaves, EndApply, Overwrites, procVars
<1>2. /\ applying' \in {applying, applying \cup {b}, applying \ {b}}
      /\ overwritten' \in {overwritten, overwritten \cup {b}}
  BY DEF ApplyStep, BeginApply, ApplySaves, EndApply, Overwrites
<1>3. {"in-progress", "completed", "failed"} \subseteq Status
  BY DEF Status, Eligible
<1>4. status \in [Backup -> Status]
  BY DEF Inv, TypeOK
<1>5. CASE BeginApply(b)
  BY <1>1, <1>2, <1>3, <1>4, <1>5 DEF BeginApply, Save
<1>6. CASE ApplySaves(b)
  BY <1>1, <1>2, <1>3, <1>4, <1>6 DEF ApplySaves, Overwrites, Save
<1>7. CASE EndApply(b)
  <2>1. b \notin applying'
    BY <1>7 DEF EndApply
  <2>2. CASE UNCHANGED <<status, overwritten>>
    BY <1>1, <1>2, <1>4, <2>1, <2>2
  <2>3. ASSUME NEW s \in {"completed", "failed"}, Overwrites(b, s)
        PROVE  /\ status' \in [Backup -> Status]
               /\ \A d \in Backup \ {b} : status'[d] = status[d]
               /\ status'[b] = s
               /\ status[b] = "rolled-back" => b \in overwritten'
    BY <1>3, <1>4, <2>3 DEF Overwrites, Save
  <2> QED
    BY <1>1, <1>2, <1>7, <2>1, <2>2, <2>3 DEF EndApply
<1> QED
  BY <1>5, <1>6, <1>7 DEF ApplyStep

LEMMA ApplySteps ==
  ASSUME Inv, NEW b \in Backup, ApplyStep(b)
  PROVE  Inv'
<1>1. /\ UNCHANGED <<lock, alive, plan, consumed, inbox, outbox, work, user, faults, reached>>
      /\ applying' \in {applying, applying \cup {b}, applying \ {b}}
      /\ overwritten' \in {overwritten, overwritten \cup {b}}
      /\ status' \in [Backup -> Status]
      /\ \A d \in Backup \ {b} : status'[d] = status[d]
      /\ status'[b] = status[b] \/ status'[b] \in {"in-progress", "completed", "failed"}
      /\ status[b] = "rolled-back" => status'[b] = "rolled-back" \/ b \in overwritten'
      /\ b \in applying' => status'[b] # "none"
  BY AppliesDo
<1>2. /\ \A d \in Backup : RolledBack(d) => RolledBack(d)'
      /\ \A d \in Backup : status[d] \in Open => status'[d] \in Open
  BY <1>1 DEF Open, Eligible
<1>3. TypeOK'
  BY <1>1 DEF Inv, TypeOK
<1>4. LockMatchesWork' /\ Placed' /\ OnBehalf'
  BY <1>1 DEF Inv, LockMatchesWork, Placed, OnBehalf
<1>5. Working'
  <2>1. work' = work /\ reached' = reached
    BY <1>1
  <2> QED
    BY <1>2, <2>1 DEF Inv, Working, Locked
<1>6. Talk'
  <2>1. UNCHANGED <<inbox, outbox, user, reached>>
    BY <1>1
  <2> QED
    BY <1>2, <2>1 DEF Inv, Talk, IsAnswer
<1>7. Begun'
  BY <1>1 DEF Inv, TypeOK, Begun
<1> QED
  BY <1>3, <1>4, <1>5, <1>6, <1>7 DEF Inv

-----------------------------------------------------------------------------
(* The invariant holds *)

LEMMA NextInv == Inv /\ [Next]_vars => Inv'
<1> SUFFICES ASSUME Inv, [Next]_vars PROVE Inv'
  OBVIOUS
<1> USE Processes
<1>1. CASE UNCHANGED vars
  <2>1. UNCHANGED <<manifests, lock, alive, plan, consumed, inbox, outbox, work, user, faults>>
    BY <1>1 DEF vars
  <2>2. TypeOK'
    BY <2>1 DEF Inv, TypeOK
  <2>3. LockMatchesWork' /\ Placed' /\ Working'
    BY <2>1 DEF Inv, LockMatchesWork, Placed, Working
  <2>4. Talk' /\ OnBehalf' /\ Begun'
    BY <2>1 DEF Inv, Talk, IsAnswer, OnBehalf, Begun
  <2> QED
    BY <2>2, <2>3, <2>4 DEF Inv
<1>2. ASSUME NEW b \in Backup, ApplyStep(b)
      PROVE  Inv'
  BY <1>2, ApplySteps
<1>7. ASSUME NEW p \in Process, Reloads(p) \/ Resaves(p)
      PROVE  Inv'
  BY <1>7, ProceedingSteps
<1>3. ASSUME NEW c \in Client, Ask(c) \/ Confirm(c) \/ Leave(c) \/ UserStep(c)
      PROVE  Inv'
  BY <1>3, AskStep, ConfirmStep, LeaveStep, WriteStep, ReadStep, WatchedStep DEF UserStep
<1>4. ASSUME NEW p \in Process, RollbackStep(p)
      PROVE  Inv'
  <2>1. CASE Release(p)
    <3>1. PICK c \in Client : p = Serve(c) \/ p = Once(c)
      OBVIOUS
    <3> QED
      BY <2>1, <3>1, ServeReleases, OnceEndingSteps
  <2> QED
    BY <1>4, <2>1, ProceedingSteps DEF RollbackStep
<1>5. ASSUME NEW c \in Client, ServeStep(c) \/ OnceStep(c)
      PROVE  Inv'
  BY <1>4, <1>5, AnsweringSteps, EnteringSteps, EndingSteps, OnceLockStep
     DEF ServeStep, OnceStep
<1>6. ASSUME NEW c \in Client, IdleTimeout(c) \/ KillServe(c) \/ KillOnce(c)
      PROVE  Inv'
  BY <1>6, IdleTimeoutStep, EndingSteps, OnceEndingSteps
<1> QED
  BY <1>1, <1>2, <1>3, <1>5, <1>6, <1>7 DEF Next, ApplyStep

LEMMA AlwaysInv == Spec => []Inv
  BY InitInv, NextInv, PTL DEF Spec

(* Every variable stays in its range, for any clients and backups. *)
THEOREM SessionTypeCorrect == Spec => []TypeOK
<1>1. Inv => TypeOK
  BY DEF Inv
<1> QED
  BY <1>1, AlwaysInv, PTL

(* The operation lock is held exactly while a rollback is inside the block *)
(* of cmd_rollback that releases it, so never by two processes and never   *)
(* by one that has ended.                                                  *)
THEOREM LockMatchesWorkCorrect == Spec => []LockMatchesWork
<1>1. Inv => LockMatchesWork
  BY DEF Inv
<1> QED
  BY <1>1, AlwaysInv, PTL

(* Every client is told what became of the request that waits;             *)
(* "rolled-back" only of a backup that is, or would be if its own apply    *)
(* had not saved over it; "completed" only of one that a rollback reached. *)
THEOREM AnswersAreTrueCorrect == Spec => []AnswersAreTrue
<1>1. Inv => AnswersAreTrue
  BY DEF Inv, Talk, IsAnswer, AnswersAreTrue
<1> QED
  BY <1>1, AlwaysInv, PTL

(* A rollback previewed as possible is refused only when the backup has    *)
(* been rolled back since, though its own apply may have saved over that.  *)
THEOREM PreviewHoldsCorrect == Spec => []PreviewHolds
<1>1. Inv => PreviewHolds
  BY Processes DEF Inv, Working, PreviewHolds
<1> QED
  BY <1>1, AlwaysInv, PTL

(* A used command is open again only when its rollback has ended, or in a  *)
(* new process.                                                            *)
THEOREM NotReopenedCorrect == Spec => NotReopened
<1> DEFINE Kept == \A c \in Client : (consumed[c] /\ ~consumed'[c])
                     => work[Serve(c)].at = "release" \/ ~alive'[c]
<1>1. Inv /\ [Next]_vars => Kept
  <2> SUFFICES ASSUME Inv, [Next]_vars PROVE Kept
    OBVIOUS
  <2>1. CASE UNCHANGED consumed
    BY <2>1
  <2>2. ASSUME NEW c \in Client, Stop(c)
        PROVE  Kept
    BY <2>2 DEF Stop, Inv, TypeOK
  <2>3. ASSUME NEW c \in Client,
               \/ \E code, approved : Respond(c, code, approved, consumed[c])
               \/ \E code, approved : Respond(c, code, approved, TRUE)
        PROVE  Kept
    BY <2>3 DEF Respond, Stop, Inv, TypeOK
  <2>4. ASSUME NEW c \in Client, ServeRollback(c)
        PROVE  Kept
    BY <2>4 DEF ServeRollback, Inv, TypeOK
  <2>5. ASSUME NEW p \in Process, RollbackStep(p)
        PROVE  Kept
    <3>1. CASE Release(p) /\ p[2] = "serve"
      <4>1. PICK c \in Client : p = Serve(c) /\ p[1] = c
        BY <3>1, Processes
      <4>2. work[Serve(c)].at = "release" /\ Respond(c, work[Serve(c)].code, NoArgs, FALSE)
        BY <3>1, <4>1 DEF Release, DiscardPlan
      <4>3. \A d \in Client \ {c} : consumed'[d] = consumed[d]
        BY <4>2 DEF Respond, Stop, Inv, TypeOK
      <4> QED
        BY <4>2, <4>3
    <3>2. CASE ~(Release(p) /\ p[2] = "serve")
      BY <2>1, <2>5, <3>2 DEF RollbackStep, Load, Mark, Snapshot, SnapshotFails, Run, Raises,
                              Release, procVars
    <3> QED
      BY <3>1, <3>2
  <2>6. ASSUME NEW c \in Client, ServeStep(c)
        PROVE  Kept
    <3>1. CASE ServeRead(c) \/ ServePreview(c) \/ ServeSubmit(c) \/ ServeRefuse(c)
      BY <2>3, <3>1 DEF ServeRead, ServePreview, ServeSubmit, ServeRefuse, Answer, Submitted
    <3>2. CASE ServeWrongMode(c) \/ ServeBusy(c)
      BY <2>3, <3>2 DEF ServeWrongMode, ServeBusy
    <3>3. CASE EndOfInput(c) \/ IdleExit(c)
      BY <2>2, <3>3 DEF EndOfInput, IdleExit
    <3>4. CASE RollbackStep(Serve(c))
      BY <2>5, <3>4, Processes
    <3> QED
      BY <2>4, <2>6, <3>1, <3>2, <3>3, <3>4 DEF ServeStep
  <2>7. ASSUME NEW c \in Client,
               \/ Ask(c) \/ Confirm(c) \/ Leave(c) \/ UserStep(c) \/ OnceLock(c)
               \/ IdleTimeout(c) \/ KillOnce(c)
        PROVE  Kept
    BY <2>1, <2>7 DEF Ask, Ensure, Confirm, Leave, UserStep, Write, Read, Watched, OnceLock,
                      IdleTimeout, KillOnce, procVars
  <2>8. ASSUME NEW c \in Client, KillServe(c)
        PROVE  Kept
    BY <2>2, <2>8 DEF KillServe
  <2>9. CASE \/ UNCHANGED vars
             \/ \E b \in Backup : ApplyStep(b)
             \/ \E p \in Process : Reloads(p) \/ Resaves(p)
    BY <2>1, <2>9 DEF vars, ApplyStep, BeginApply, ApplySaves, EndApply, Overwrites, Reloads,
                      Resaves, procVars
  <2> QED
    BY <2>5, <2>6, <2>7, <2>8, <2>9, Processes DEF Next, OnceStep, ApplyStep
<1> QED
  BY <1>1, AlwaysInv, PTL DEF Spec, NotReopened

-----------------------------------------------------------------------------
(* The refinement: each step takes one step of ApprovedRollback for one    *)
(* process, or none                                                        *)

LEMMA RunningIs ==
  \A w : \A p \in Process :
    (w[p].at \in Changing /\ \A q \in Process : w[q].at \in Changing => q = p)
      => RunningIn(w) = [agent |-> p, backup |-> w[p].bid]
<1> SUFFICES ASSUME NEW w, NEW p \in Process, w[p].at \in Changing,
                    \A q \in Process : w[q].at \in Changing => q = p
             PROVE  RunningIn(w) = [agent |-> p, backup |-> w[p].bid]
  OBVIOUS
<1>1. (CHOOSE q \in Process : w[q].at \in Changing) = p
  OBVIOUS
<1> QED
  BY <1>1 DEF RunningIn

LEMMA OneChanging ==
  Inv => \A p, q \in Process : work[p].at \in Changing /\ work[q].at \in Changing => q = p
BY DEF Inv, LockMatchesWork, Locked

(* The step concerns p at most. *)
OtherSessions(p) ==
  \A c \in Client : (p[2] = "serve" /\ c = p[1])
                      \/ (plan'[c] = plan[c] /\ consumed'[c] = consumed[c])
Others(p) == OtherSessions(p) /\ \A q \in Process \ {p} : work'[q] = work[q]
SameBackups ==
  /\ applying' = applying
  /\ \A b \in Backup : /\ status'[b] = "rolled-back" <=> status[b] = "rolled-back"
                       /\ status'[b] = "none" <=> status[b] = "none"

LEMMA OthersSame ==
  ASSUME NEW p \in Process, Others(p)
  PROVE  \A q \in Process \ {p} : ApprovedOf(q)' = ApprovedOf(q) /\ TakenOf(q)' = TakenOf(q)
<1> SUFFICES ASSUME NEW q \in Process \ {p}
             PROVE  ApprovedOf(q)' = ApprovedOf(q) /\ TakenOf(q)' = TakenOf(q)
  OBVIOUS
<1>1. work'[q] = work[q]
  BY DEF Others, OtherSessions
<1>2. TakenOf(q)' = TakenOf(q)
  BY <1>1 DEF TakenOf
<1>3. CASE q[2] = "once"
  BY <1>1, <1>2, <1>3 DEF ApprovedOf
<1>4. CASE q[2] = "serve"
  <2>1. q[1] \in Client /\ ~(p[2] = "serve" /\ q[1] = p[1])
    BY <1>4, Processes
  <2>2. plan'[q[1]] = plan[q[1]] /\ consumed'[q[1]] = consumed[q[1]]
    BY <2>1 DEF Others, OtherSessions
  <2> QED
    BY <1>2, <1>4, <2>2 DEF ApprovedOf
<1> QED
  BY <1>3, <1>4, Processes

(* No rollback begins or ends. *)
LEMMA RunningSame ==
  ASSUME Inv, NEW p \in Process, Others(p),
         work'[p].at \in Changing <=> work[p].at \in Changing,
         work[p].at \in Changing => work'[p].bid = work[p].bid
  PROVE  RunningNow' = RunningNow
<1>1. \A q \in Process : /\ work'[q].at \in Changing <=> work[q].at \in Changing
                         /\ work[q].at \in Changing => work'[q].bid = work[q].bid
  BY DEF Others, OtherSessions
<1>2. CASE \E q \in Process : work[q].at \in Changing
  <2>1. PICK q \in Process : work[q].at \in Changing
    BY <1>2
  <2>2. \A r \in Process : work[r].at \in Changing => r = q
    BY <2>1, OneChanging
  <2>3. RunningIn(work) = [agent |-> q, backup |-> work[q].bid]
    BY <2>1, <2>2, RunningIs
  <2>4. work'[q].at \in Changing /\ \A r \in Process : work'[r].at \in Changing => r = q
    BY <1>1, <2>1, <2>2
  <2>5. RunningIn(work') = [agent |-> q, backup |-> work'[q].bid]
    BY <2>4, RunningIs
  <2> QED
    BY <1>1, <2>1, <2>3, <2>5 DEF RunningNow
<1>3. CASE ~\E q \in Process : work[q].at \in Changing
  BY <1>1, <1>3 DEF RunningNow, RunningIn
<1> QED
  BY <1>2, <1>3

LEMMA BackupsSame ==
  SameBackups => Undone' = Undone /\ Fresh' = Fresh /\ applying' = applying
<1> SUFFICES ASSUME SameBackups
             PROVE  Undone' = Undone /\ Fresh' = Fresh /\ applying' = applying
  OBVIOUS
<1>1. Undone' = Undone
  BY DEF SameBackups, Undone
<1>2. Fresh' = Fresh
  BY DEF SameBackups, Fresh
<1> QED
  BY <1>1, <1>2 DEF SameBackups

(* The steps of ApprovedRollback, for one process *)
LEMMA Withdrawn ==
  ASSUME Inv, NEW p \in Process, Others(p), SameBackups,
         work'[p].at \in Changing <=> work[p].at \in Changing,
         work[p].at \in Changing => work'[p].bid = work[p].bid,
         ApprovedOf(p)' = {}, TakenOf(p)' = {}
  PROVE  Abstract!Withdraw(p)
<1>1. ApprovedNow' = [ApprovedNow EXCEPT ![p] = {}]
  BY OthersSame DEF ApprovedNow
<1>2. TakenNow' = [TakenNow EXCEPT ![p] = {}]
  BY OthersSame DEF TakenNow
<1> QED
  BY <1>1, <1>2, RunningSame, BackupsSame DEF Abstract!backups, Abstract!Withdraw

LEMMA Approved ==
  ASSUME Inv, NEW p \in Process, Others(p), SameBackups,
         work'[p].at \notin Changing, work[p].at \notin Changing,
         \E b \in Backup : ApprovedOf(p)' = {b},
         TakenOf(p)' = TakenOf(p)
  PROVE  \E b \in Backup : Abstract!Approve(p, b)
<1>1. PICK b \in Backup : ApprovedOf(p)' = {b}
  OBVIOUS
<1>2. ApprovedNow' = [ApprovedNow EXCEPT ![p] = {b}]
  BY <1>1, OthersSame DEF ApprovedNow
<1>3. TakenNow' = TakenNow
  BY OthersSame DEF TakenNow
<1> QED
  BY <1>2, <1>3, RunningSame, BackupsSame DEF Abstract!backups, Abstract!Approve

LEMMA Took ==
  ASSUME Inv, NEW p \in Process, Others(p), SameBackups,
         work'[p].at \notin Changing, work[p].at \notin Changing,
         \E b \in Backup : ApprovedOf(p) = {b} /\ TakenOf(p)' = {b}, ApprovedOf(p)' = {}
  PROVE  \E b \in Backup : Abstract!Take(p, b)
<1>1. PICK b \in Backup : ApprovedOf(p) = {b} /\ TakenOf(p)' = {b}
  OBVIOUS
<1>2. ApprovedNow' = [ApprovedNow EXCEPT ![p] = {}] /\ b \in ApprovedNow[p]
  BY <1>1, OthersSame DEF ApprovedNow
<1>3. TakenNow' = [TakenNow EXCEPT ![p] = {b}]
  BY <1>1, OthersSame DEF TakenNow
<1> QED
  BY <1>2, <1>3, RunningSame, BackupsSame DEF Abstract!backups, Abstract!Take

LEMMA Started ==
  ASSUME Inv, NEW p \in Process, Others(p), UNCHANGED <<status, applying>>,
         work[p].at = "load", work'[p].at = "mark", work'[p].bid = work[p].bid,
         status[work[p].bid] \notin {"rolled-back", "none"}, ApprovedOf(p)' = ApprovedOf(p)
  PROVE  \E b \in Backup : Abstract!Start(p, b)
<1>1. PICK b \in Backup : b = work[p].bid
  BY DEF Inv, Working, Locked
<1>2. \A q \in Process : work[q].at \notin Changing
  <2>1. "load" \in Locked /\ "load" \notin Changing
    BY DEF Locked, Changing
  <2> QED
    BY <2>1 DEF Inv, LockMatchesWork, Locked
<1>3. RunningNow = NoRun
  BY <1>2 DEF RunningNow, RunningIn
<1>4. RunningNow' = [agent |-> p, backup |-> b]
  <2>1. work'[p].at \in Changing /\ \A q \in Process : work'[q].at \in Changing => q = p
    BY <1>2 DEF Others, OtherSessions, Changing
  <2>2. RunningIn(work') = [agent |-> p, backup |-> work'[p].bid]
    BY <2>1, RunningIs
  <2> QED
    BY <1>1, <2>2 DEF RunningNow
<1>5. ApprovedNow' = ApprovedNow
  BY OthersSame DEF ApprovedNow
<1>6. TakenNow' = [TakenNow EXCEPT ![p] = {}] /\ TakenNow[p] = {b}
  BY <1>1, OthersSame DEF TakenNow, TakenOf
<1>7. /\ b \notin Undone /\ b \notin Fresh
      /\ Undone' = Undone /\ Fresh' = Fresh /\ applying' = applying
  BY <1>1 DEF Undone, Fresh
<1> QED
  BY <1>3, <1>4, <1>5, <1>6, <1>7 DEF Abstract!Start, Abstract!backups

LEMMA Ended ==
  ASSUME Inv, NEW p \in Process, Others(p),
         work[p].at \in Changing, work'[p].at \notin Changing,
         UNCHANGED applying, status'[work[p].bid] # "none",
         \A b \in Backup \ {work[p].bid} : status'[b] = status[b],
         ApprovedOf(p)' = ApprovedOf(p), TakenOf(p)' = TakenOf(p)
  PROVE  Abstract!End
<1>1. RunningNow = [agent |-> p, backup |-> work[p].bid]
  BY OneChanging, RunningIs DEF RunningNow
<1>2. RunningNow # NoRun
  BY <1>1, Processes DEF NoRun
<1>3. RunningNow' = NoRun
  <2>1. \A q \in Process : work'[q].at \notin Changing
    BY OneChanging DEF Others, OtherSessions
  <2> QED
    BY <2>1 DEF RunningNow, RunningIn
<1>4. ApprovedNow' = ApprovedNow /\ TakenNow' = TakenNow
  BY OthersSame DEF ApprovedNow, TakenNow
<1>5. work[p].bid \in Backup /\ status[work[p].bid] \notin {"rolled-back", "none"}
  BY DEF Inv, Working, Locked, Open, Eligible
<1>6. Undone' \in {Undone, Undone \cup {RunningNow.backup}}
  <2>1. CASE status'[work[p].bid] = "rolled-back"
    <3>1. Undone' = Undone \cup {work[p].bid}
      BY <1>5, <2>1 DEF Undone
    <3> QED
      BY <1>1, <3>1
  <2>2. CASE status'[work[p].bid] # "rolled-back"
    <3>1. Undone' = Undone
      BY <1>5, <2>2 DEF Undone
    <3> QED
      BY <3>1
  <2> QED
    BY <2>1, <2>2
<1>7. Fresh' = Fresh
  BY <1>5 DEF Fresh
<1> QED
  BY <1>2, <1>3, <1>4, <1>6, <1>7 DEF Abstract!End

(* Nothing happens. *)
LEMMA Stuttered ==
  ASSUME Inv, NEW p \in Process, Others(p), SameBackups,
         work'[p].at \in Changing <=> work[p].at \in Changing,
         work[p].at \in Changing => work'[p].bid = work[p].bid,
         ApprovedOf(p)' = ApprovedOf(p), TakenOf(p)' = TakenOf(p)
  PROVE  UNCHANGED Abstract!vars
<1>1. ApprovedNow' = ApprovedNow /\ TakenNow' = TakenNow
  BY OthersSame DEF ApprovedNow, TakenNow
<1> QED
  BY <1>1, RunningSame, BackupsSame DEF Abstract!backups, Abstract!vars

(* What a helper may still do and has not begun is gone with it. *)
LEMMA StopMaps ==
  ASSUME Inv, NEW c \in Client, Stop(c), BecomesIdle(c), UNCHANGED <<status, applying>>,
         work[Serve(c)].at \notin Changing
  PROVE  Abstract!Withdraw(Serve(c))
<1> USE Processes
<1>1. /\ work'[Serve(c)].at = "idle"
      /\ \A p \in Process \ {Serve(c)} : work'[p] = work[p]
  BY DEF Inv, TypeOK, BecomesIdle
<1>2. Others(Serve(c))
  <2>1. \A d \in Client \ {c} : plan'[d] = plan[d] /\ consumed'[d] = consumed[d]
    BY DEF Inv, TypeOK, Stop
  <2> QED
    BY <1>1, <2>1 DEF Others, OtherSessions
<1>3. plan'[c] = NoArgs
  BY DEF Inv, TypeOK, Stop
<1>4. ApprovedOf(Serve(c))' = {}
  BY <1>3 DEF ApprovedOf, NoArgs
<1>5. TakenOf(Serve(c))' = {}
  BY <1>1 DEF TakenOf
<1>6. SameBackups /\ "idle" \notin Changing
  BY DEF SameBackups, Changing
<1> QED
  BY <1>1, <1>2, <1>4, <1>5, <1>6, Withdrawn

(* An answer leaves an approval that is good, or none. *)
LEMMA AnswerMaps ==
  ASSUME Inv, NEW c \in Client, BecomesIdle(c), UNCHANGED <<status, applying>>,
         work[Serve(c)].at \in {"idle", "release"},
         \E code, used : \E approved \in Args \cup {NoArgs} : Respond(c, code, approved, used)
  PROVE  \/ Abstract!Withdraw(Serve(c))
         \/ \E b \in Backup : Abstract!Approve(Serve(c), b)
<1> USE Processes
<1>1. PICK code, used : \E approved \in Args \cup {NoArgs} : Respond(c, code, approved, used)
  OBVIOUS
<1>2. PICK approved \in Args \cup {NoArgs} : Respond(c, code, approved, used)
  BY <1>1
<1>3. work[Serve(c)].at \notin Changing
  BY DEF Changing
<1>4. CASE Gone(c)
  BY <1>2, <1>3, <1>4, StopMaps DEF Respond
<1>5. CASE ~Gone(c)
  <2>1. plan' = [plan EXCEPT ![c] = approved] /\ consumed' = [consumed EXCEPT ![c] = used]
    BY <1>2, <1>5 DEF Respond
  <2>2. /\ work'[Serve(c)].at = "idle"
        /\ \A p \in Process \ {Serve(c)} : work'[p] = work[p]
    BY DEF Inv, TypeOK, BecomesIdle
  <2>3. Others(Serve(c))
    BY <2>1, <2>2 DEF Inv, TypeOK, Others, OtherSessions
  <2>4. TakenOf(Serve(c))' = {} /\ TakenOf(Serve(c)) = {}
    BY <2>2 DEF TakenOf
  <2>5. SameBackups /\ "idle" \notin Changing
    BY DEF SameBackups, Changing
  <2>6. ApprovedOf(Serve(c))' = IF used \/ approved.mode # "safe" THEN {}
                                ELSE {approved.bid} \ {NoBackup}
    BY <2>1 DEF Inv, TypeOK, ApprovedOf
  <2>7. CASE ApprovedOf(Serve(c))' = {}
    BY <1>3, <2>2, <2>3, <2>4, <2>5, <2>7, Withdrawn
  <2>8. CASE ApprovedOf(Serve(c))' # {}
    <3>1. approved.bid \in Backup
      BY <2>6, <2>8 DEF Args, NoArgs
    <3>2. ApprovedOf(Serve(c))' = {approved.bid}
      BY <2>6, <2>8
    <3>3. /\ \E b \in Backup : ApprovedOf(Serve(c))' = {b}
          /\ work[Serve(c)].at \notin Changing /\ work'[Serve(c)].at \notin Changing
          /\ TakenOf(Serve(c))' = TakenOf(Serve(c))
      BY <1>3, <2>2, <2>4, <2>5, <3>1, <3>2
    <3> QED
      BY <2>3, <2>5, <3>3, Approved
  <2> QED
    BY <2>7, <2>8
<1> QED
  BY <1>4, <1>5

Mapped == Abstract!Next \/ UNCHANGED Abstract!vars

LEMMA MappedSteps ==
  ASSUME NEW p \in Process,
         \/ Abstract!Withdraw(p)
         \/ \E b \in Backup : Abstract!Approve(p, b) \/ Abstract!Take(p, b) \/ Abstract!Start(p, b)
         \/ Abstract!End
         \/ UNCHANGED Abstract!vars
  PROVE  Mapped
  BY DEF Mapped, Abstract!Next

(* The persistent helper outside of a rollback *)
LEMMA ServingMaps ==
  ASSUME Inv, NEW c \in Client,
         \/ ServeRead(c) \/ ServePreview(c) \/ ServeSubmit(c) \/ ServeRefuse(c)
         \/ ServeWrongMode(c) \/ ServeBusy(c)
  PROVE  Mapped
<1> USE Processes
<1>1. /\ inbox[c] # <<>> /\ work[Serve(c)].at = "idle" /\ UNCHANGED <<status, applying, work>>
  BY DEF ServeRead, ServePreview, ServeSubmit, ServeRefuse, ServeWrongMode, ServeBusy, Serving
<1>2. BecomesIdle(c)
  <2>1. work = [work EXCEPT ![Serve(c)] = work[Serve(c)]] /\ work[Serve(c)] \in Work
    BY DEF Inv, TypeOK
  <2> QED
    BY <1>1, <2>1 DEF BecomesIdle
<1>3. \E code, used : \E approved \in Args \cup {NoArgs} : Respond(c, code, approved, used)
  <2>1. plan[c] \in Args \cup {NoArgs}
    BY DEF Inv, TypeOK
  <2>2. CASE ServeSubmit(c)
    <3>1. Head(inbox[c]).req \in Request
      BY <1>1, OneRequest
    <3>2. Asked(c) \in Args \cup {NoArgs} /\ Respond(c, "ok", Asked(c), consumed[c])
      BY <2>2, <3>1 DEF ServeSubmit, Serving, Submitted, Request, Asked
    <3> QED
      BY <3>2
  <2> QED
    BY <2>1, <2>2 DEF ServeRead, ServePreview, ServeRefuse, ServeWrongMode, ServeBusy, Answer
<1> QED
  BY <1>1, <1>2, <1>3, AnswerMaps, MappedSteps

LEMMA EndingMaps ==
  ASSUME Inv, NEW c \in Client, EndOfInput(c) \/ IdleExit(c) \/ KillServe(c)
  PROVE  Mapped
<1> USE Processes
<1>1. Stop(c) /\ UNCHANGED <<status, applying>> /\ work[Serve(c)] \in Work
  BY DEF EndOfInput, IdleExit, KillServe, Inv, TypeOK
<1>2. BecomesIdle(c)
  BY EndsIdle
<1>3. CASE work[Serve(c)].at \notin Changing
  BY <1>1, <1>2, <1>3, StopMaps, MappedSteps
<1>4. CASE work[Serve(c)].at \in Changing
  <2>1. /\ work'[Serve(c)].at = "idle"
        /\ \A p \in Process \ {Serve(c)} : work'[p] = work[p]
    BY <1>2 DEF Inv, TypeOK, BecomesIdle
  <2>2. Others(Serve(c)) /\ plan'[c] = NoArgs
    <3>1. /\ \A d \in Client \ {c} : plan'[d] = plan[d] /\ consumed'[d] = consumed[d]
          /\ plan'[c] = NoArgs
      BY <1>1 DEF Inv, TypeOK, Stop
    <3> QED
      BY <2>1, <3>1 DEF Others, OtherSessions
  <2>3. consumed[c]
    BY <1>4 DEF Inv, Placed, Locked
  <2>4. ApprovedOf(Serve(c)) = {} /\ ApprovedOf(Serve(c))' = {}
    BY <2>2, <2>3 DEF ApprovedOf, NoArgs
  <2>5. TakenOf(Serve(c)) = {} /\ TakenOf(Serve(c))' = {}
    BY <1>4, <2>1 DEF TakenOf, Changing
  <2>6. /\ "idle" \notin Changing /\ \A b \in Backup : status'[b] = status[b]
        /\ UNCHANGED applying /\ status'[work[Serve(c)].bid] # "none"
    BY <1>1, <1>4 DEF Changing, Inv, Working, Open, Eligible
  <2>7. Serve(c) \in Process /\ work'[Serve(c)].at \notin Changing
    BY <2>1, <2>6
  <2>8. Abstract!End
    BY <1>4, <2>2, <2>4, <2>5, <2>6, <2>7, Ended
  <2> QED
    BY <2>7, <2>8, MappedSteps
<1> QED
  BY <1>3, <1>4

(* A process that has the lock has no approval left. *)
LEMMA LockedApproved ==
  ASSUME Inv, NEW p \in Process, work[p].at \in Locked, UNCHANGED <<plan, consumed>>,
         work'[p].at \in Locked
  PROVE  ApprovedOf(p) = {} /\ ApprovedOf(p)' = {}
<1>1. CASE p[2] = "once"
  BY <1>1 DEF ApprovedOf, Locked, Changing
<1>2. CASE p[2] = "serve"
  <2>1. p[1] \in Client /\ consumed[p[1]]
    BY <1>2, Processes DEF Inv, Placed
  <2> QED
    BY <1>2, <2>1 DEF ApprovedOf
<1> QED
  BY <1>1, <1>2, Processes

LEMMA RollbackMaps ==
  ASSUME Inv, NEW p \in Process,
         \/ Load(p) \/ Mark(p) \/ Snapshot(p) \/ SnapshotFails(p) \/ Run(p) \/ Raises(p)
         \/ Reloads(p) \/ Resaves(p)
  PROVE  Mapped
<1> USE Processes
<1>1. /\ work[p].at \in Locked /\ work[p].bid \in Backup /\ work[p] \in Work
      /\ status[work[p].bid] \in Status /\ UNCHANGED <<applying, plan, consumed>>
  BY DEF Load, Mark, Snapshot, SnapshotFails, Run, Raises, Reloads, Resaves, Inv, TypeOK,
         Working, Locked, Changing, procVars
<1>2. ASSUME NEW x, Conclude(p, x)
      PROVE  /\ Others(p) /\ work'[p].at = "release" /\ work'[p].bid = work[p].bid
             /\ ApprovedOf(p) = {} /\ ApprovedOf(p)' = {} /\ TakenOf(p)' = {}
             /\ work'[p].at \notin Changing
  <2>1. \A w : w = [work[p] EXCEPT !.at = "release", !.orig = "none", !.code = x] =>
          w.at = "release" /\ w.bid = work[p].bid
    BY <1>1 DEF Work
  <2>2. /\ work'[p].at = "release" /\ work'[p].bid = work[p].bid
        /\ \A q \in Process \ {p} : work'[q] = work[q]
    BY <1>2, <2>1 DEF Conclude, Inv, TypeOK
  <2>3. Others(p)
    BY <1>1, <2>2 DEF Others, OtherSessions
  <2>4. "release" \in Locked /\ "release" \notin Changing
    BY DEF Locked, Changing
  <2> QED
    BY <1>1, <2>2, <2>3, <2>4, LockedApproved DEF TakenOf
<1>3. ASSUME NEW w \in Work, w.at \in Changing, w.bid = work[p].bid,
             work' = [work EXCEPT ![p] = w]
      PROVE  /\ Others(p) /\ work'[p].at = w.at /\ work'[p].bid = work[p].bid
             /\ ApprovedOf(p) = {} /\ ApprovedOf(p)' = {} /\ TakenOf(p)' = {}
             /\ work'[p].at \in Changing
  <2>1. work'[p] = w /\ \A q \in Process \ {p} : work'[q] = work[q]
    BY <1>3 DEF Inv, TypeOK
  <2>2. Others(p)
    BY <1>1, <2>1 DEF Others, OtherSessions
  <2>3. w.at \in Locked
    BY <1>3 DEF Locked
  <2> QED
    BY <1>1, <1>3, <2>1, <2>2, <2>3, LockedApproved DEF TakenOf, Changing
<1>4. work[p].at \in Changing =>
        /\ TakenOf(p) = {} /\ status[work[p].bid] \notin {"rolled-back", "none"}
        /\ work[p].orig \notin {"rolled-back", "none"}
  BY DEF TakenOf, Changing, Inv, Working, Open, Eligible
<1>5. CASE Load(p) /\ Loadable(status[work[p].bid])
  <2>1. /\ work' = [work EXCEPT ![p] = [work[p] EXCEPT !.at = "mark",
                                                       !.orig = status[work[p].bid]]]
        /\ UNCHANGED <<status, applying>> /\ work[p].at = "load"
    BY <1>5 DEF Load, Loadable, Eligible
  <2>2. \A w : w = [work[p] EXCEPT !.at = "mark", !.orig = status[work[p].bid]] =>
          w.at = "mark" /\ w.bid = work[p].bid
    BY <1>1 DEF Work
  <2>3. /\ work'[p].at = "mark" /\ work'[p].bid = work[p].bid
        /\ \A q \in Process \ {p} : work'[q] = work[q]
    BY <2>1, <2>2 DEF Inv, TypeOK
  <2>4. Others(p)
    BY <1>1, <2>3 DEF Others, OtherSessions
  <2>5. ApprovedOf(p) = {} /\ ApprovedOf(p)' = {}
    <3>1. "mark" \in Locked
      BY DEF Locked, Changing
    <3> QED
      BY <1>1, <2>3, <3>1, LockedApproved
  <2>6. status[work[p].bid] \notin {"rolled-back", "none"}
    BY <1>5 DEF Loadable, Eligible
  <2> QED
    <3>1. \E b \in Backup : Abstract!Start(p, b)
      BY <2>1, <2>3, <2>4, <2>5, <2>6, Started
    <3> QED
      BY <3>1, MappedSteps
<1>6. CASE \/ Load(p) /\ ~Loadable(status[work[p].bid])
           \/ Raises(p) /\ work[p].at = "load"
  <2>1. PICK x : Conclude(p, x)
    BY <1>6 DEF Load, Raises
  <2>2. UNCHANGED <<status, applying>> /\ work[p].at \notin Changing
    BY <1>6 DEF Load, Raises, Changing
  <2>3. SameBackups
    BY <2>2 DEF SameBackups
  <2> QED
    BY <1>2, <2>1, <2>2, <2>3, Withdrawn, MappedSteps
<1>7. CASE Mark(p) \/ Snapshot(p) \/ Reloads(p) \/ Resaves(p)
  <2>1. \E w \in Work : /\ w.at \in Changing /\ w.bid = work[p].bid
                        /\ work' = [work EXCEPT ![p] = w]
    <3>1. {"snapshot", "run"} \subseteq At \cap Changing
      BY DEF At, Changing, Locked
    <3>2. CASE Mark(p)
      <4>1. PICK w \in Work : /\ w = [work[p] EXCEPT !.at = "snapshot"]
                              /\ w.at = "snapshot" /\ w.bid = work[p].bid
        BY <1>1, <3>1, Moved
      <4> QED
        BY <3>1, <3>2, <4>1 DEF Mark, Goto
    <3>3. CASE Snapshot(p)
      <4> DEFINE v == [work[p] EXCEPT !.at = "run", !.orig = status[work[p].bid]]
      <4>1. v \in Work /\ v.at = "run" /\ v.bid = work[p].bid
        BY <1>1, <3>1 DEF Work
      <4> QED
        BY <3>1, <3>3, <4>1 DEF Snapshot
    <3>4. CASE Reloads(p)
      <4> DEFINE v == [work[p] EXCEPT !.orig = status[work[p].bid]]
      <4>1. v \in Work /\ v.at = "run" /\ v.bid = work[p].bid
        BY <1>1, <3>4 DEF Work, Reloads
      <4> QED
        BY <3>1, <3>4, <4>1 DEF Reloads
    <3>5. CASE Resaves(p)
      <4>1. work' = [work EXCEPT ![p] = work[p]] /\ work[p].at = "run"
        BY <3>5 DEF Resaves, Inv, TypeOK
      <4> QED
        BY <1>1, <3>1, <4>1
    <3> QED
      BY <1>7, <3>2, <3>3, <3>4, <3>5
  <2>2. work[p].at \in Changing
    BY <1>7 DEF Mark, Snapshot, Reloads, Resaves, Changing
  <2>3. SameBackups
    <3>1. CASE Mark(p)
      BY <1>1, <1>4, <2>2, <3>1 DEF Mark, Save, SameBackups, Inv, TypeOK
    <3>2. CASE Snapshot(p) \/ Reloads(p)
      BY <3>2 DEF Snapshot, Reloads, SameBackups
    <3>3. CASE Resaves(p)
      BY <1>1, <1>4, <2>2, <3>3 DEF Resaves, Save, SameBackups, Inv, TypeOK
    <3> QED
      BY <1>7, <3>1, <3>2, <3>3
  <2> QED
    BY <1>3, <1>4, <2>1, <2>2, <2>3, Stuttered, MappedSteps
<1>8. CASE \/ SnapshotFails(p) \/ Run(p)
           \/ Raises(p) /\ work[p].at # "load"
  <2>1. PICK x : Conclude(p, x)
    BY <1>8 DEF SnapshotFails, Run, Raises
  <2>2. work[p].at \in Changing
    BY <1>8 DEF SnapshotFails, Run, Raises, Changing
  <2>3. \A b \in Backup \ {work[p].bid} : status'[b] = status[b]
    BY <1>8 DEF SnapshotFails, Run, Raises, Save, Inv, TypeOK
  <2>4. status'[work[p].bid] # "none"
    BY <1>1, <1>4, <1>8, <2>2 DEF SnapshotFails, Run, Raises, Save, Final, Inv, TypeOK
  <2> QED
    BY <1>1, <1>2, <1>4, <2>1, <2>2, <2>3, <2>4, Ended, MappedSteps
<1> QED
  BY <1>5, <1>6, <1>7, <1>8

LEMMA ServeReleaseMaps ==
  ASSUME Inv, NEW c \in Client, Release(Serve(c))
  PROVE  Mapped
<1> USE Processes
<1>1. /\ work[Serve(c)].at = "release" /\ DiscardPlan(c)
      /\ work' = [work EXCEPT ![Serve(c)] = NoWork] /\ UNCHANGED <<status, applying>>
  BY DEF Release
<1>2. BecomesIdle(c)
  <2>1. NoWork \in Work /\ NoWork.at = "idle"
    BY DEF NoWork, Work, At, Status, Code
  <2> QED
    BY <1>1, <2>1 DEF BecomesIdle
<1>3. \E code, used : \E approved \in Args \cup {NoArgs} : Respond(c, code, approved, used)
  BY <1>1 DEF DiscardPlan
<1> QED
  BY <1>1, <1>2, <1>3, AnswerMaps, MappedSteps

(* The one-shot helper moves to where it has nothing left to do. *)
LEMMA OnceDone ==
  ASSUME Inv, NEW c \in Client, UNCHANGED <<status, applying, plan, consumed>>,
         \E w \in Work : /\ w.at \in {"idle", "exited"}
                         /\ work' = [work EXCEPT ![Once(c)] = w]
  PROVE  Mapped
<1> USE Processes
<1>1. /\ work'[Once(c)].at \in {"idle", "exited"}
      /\ \A p \in Process \ {Once(c)} : work'[p] = work[p]
  BY DEF Inv, TypeOK
<1>2. Others(Once(c))
  BY <1>1 DEF Others, OtherSessions
<1>3. /\ ApprovedOf(Once(c))' = {} /\ TakenOf(Once(c))' = {}
      /\ work'[Once(c)].at \notin Changing
  BY <1>1 DEF ApprovedOf, TakenOf, Changing
<1>4. CASE work[Once(c)].at \in Changing
  <2>1. /\ ApprovedOf(Once(c)) = {} /\ TakenOf(Once(c)) = {}
        /\ status'[work[Once(c)].bid] # "none"
    BY <1>4 DEF ApprovedOf, TakenOf, Changing, Inv, Working, Open, Eligible
  <2> QED
    BY <1>2, <1>3, <1>4, <2>1, Ended, MappedSteps
<1>5. CASE work[Once(c)].at \notin Changing
  <2>1. SameBackups
    BY DEF SameBackups
  <2> QED
    BY <1>2, <1>3, <1>5, <2>1, Withdrawn, MappedSteps
<1> QED
  BY <1>4, <1>5

LEMMA OnceEndingMaps ==
  ASSUME Inv, NEW c \in Client, Release(Once(c)) \/ KillOnce(c) \/ Watched(c)
  PROVE  Mapped
<1> USE Processes
<1>1. UNCHANGED <<status, applying, plan, consumed>> /\ work[Once(c)] \in Work
  BY DEF Release, KillOnce, Watched, procVars, Inv, TypeOK
<1>2. \E w \in Work : /\ w.at \in {"idle", "exited"}
                      /\ work' = [work EXCEPT ![Once(c)] = w]
  <2>1. CASE Release(Once(c))
    <3>1. work' = [work EXCEPT ![Once(c)] = [work[Once(c)] EXCEPT !.at = "exited"]]
      BY <2>1 DEF Release, Goto
    <3>2. "exited" \in At
      BY DEF At
    <3>3. PICK w \in Work : w = [work[Once(c)] EXCEPT !.at = "exited"] /\ w.at = "exited"
      BY <1>1, <3>2, Moved
    <3> QED
      BY <3>1, <3>3
  <2>2. CASE KillOnce(c)
    <3>1. work' = [work EXCEPT ![Once(c)] = [work[Once(c)] EXCEPT !.at = "exited", !.orig = "none",
                                                        !.code = "HELPER_DIED"]]
      BY <2>2 DEF KillOnce
    <3>2. [work[Once(c)] EXCEPT !.at = "exited", !.orig = "none",
                                                        !.code = "HELPER_DIED"] \in Work
      BY <1>1 DEF Work, At, Code, Status
    <3>3. \A w : w = [work[Once(c)] EXCEPT !.at = "exited", !.orig = "none",
                                                        !.code = "HELPER_DIED"] =>
            w.at = "exited"
      BY <1>1 DEF Work
    <3> QED
      BY <3>1, <3>2, <3>3
  <2>3. CASE Watched(c)
    <3>1. NoWork \in Work /\ NoWork.at = "idle"
      BY DEF NoWork, Work, At, Status, Code
    <3> QED
      BY <2>3, <3>1 DEF Watched
  <2> QED
    BY <2>1, <2>2, <2>3
<1> QED
  BY <1>1, <1>2, OnceDone

(* A command is taken on once the lock is held. *)
TakesUp(p) == \E b \in Backup : Enter(p, b) /\ ApprovedOf(p) = {b}

LEMMA EnterMaps ==
  ASSUME Inv, NEW p \in Process, TakesUp(p), work[p].at \notin Locked,
         UNCHANGED <<status, applying>>, OtherSessions(p), p[2] = "serve" => consumed'[p[1]]
  PROVE  Mapped
<1> USE Processes
<1>1. PICK b \in Backup : Enter(p, b) /\ ApprovedOf(p) = {b}
  BY DEF TakesUp
<1>2. PICK l \in {"load", "release"} :
        work' = [work EXCEPT ![p] = [NoWork EXCEPT !.at = l, !.bid = b, !.code = "INTERNAL"]]
  BY <1>1 DEF Enter
<1>3. /\ work'[p].at = l /\ work'[p].bid = b
      /\ \A q \in Process \ {p} : work'[q] = work[q]
  <2>1. \A w : w = [NoWork EXCEPT !.at = l, !.bid = b, !.code = "INTERNAL"] =>
          w.at = l /\ w.bid = b
    BY DEF NoWork
  <2> QED
    BY <1>2, <2>1 DEF Inv, TypeOK
<1>4. Others(p) /\ SameBackups
  BY <1>3 DEF Others, OtherSessions, SameBackups
<1>5. work[p].at \notin Changing /\ l \notin Changing
  BY DEF Locked, Changing
<1>6. ApprovedOf(p)' = {}
  BY <1>3 DEF ApprovedOf
<1>7. CASE l = "load"
  <2>1. TakenOf(p)' = {b}
    BY <1>3, <1>7 DEF TakenOf
  <2>2. \E d \in Backup : Abstract!Take(p, d)
    BY <1>1, <1>3, <1>4, <1>5, <1>6, <2>1, Took
  <2> QED
    BY <2>2, MappedSteps
<1>8. CASE l = "release"
  <2>1. TakenOf(p)' = {}
    BY <1>3, <1>8 DEF TakenOf
  <2> QED
    BY <1>3, <1>4, <1>5, <1>6, <2>1, Withdrawn, MappedSteps
<1> QED
  BY <1>7, <1>8

LEMMA ServeRollbackMaps ==
  ASSUME Inv, NEW c \in Client, ServeRollback(c)
  PROVE  Mapped
<1> USE Processes
<1>1. /\ inbox[c] # <<>> /\ Head(inbox[c]).req.cmd = "rollback" /\ work[Serve(c)].at = "idle"
      /\ Enter(Serve(c), Asked(c).bid) /\ consumed' = [consumed EXCEPT ![c] = TRUE]
      /\ UNCHANGED <<status, applying, plan>> /\ ~consumed[c] /\ plan[c] = Asked(c)
      /\ Asked(c).mode = "safe"
  BY DEF ServeRollback, Serving, InPlan
<1>2. Head(inbox[c]).req \in Request
  BY <1>1, OneRequest
<1>3. Asked(c).bid \in Backup
  BY <1>1, <1>2 DEF Request, Args, Asked
<1>4. ApprovedOf(Serve(c)) = {Asked(c).bid}
  BY <1>1, <1>3, NoBackupAssumption DEF ApprovedOf
<1>5. consumed'[c] /\ \A d \in Client \ {c} : consumed'[d] = consumed[d]
  BY <1>1 DEF Inv, TypeOK
<1>6. work[Serve(c)].at \notin Locked
  BY <1>1 DEF Locked, Changing
<1>7. TakesUp(Serve(c))
  BY <1>1, <1>3, <1>4 DEF TakesUp
<1>8. OtherSessions(Serve(c))
  <2>1. Serve(c)[1] = c /\ Serve(c)[2] = "serve"
    BY DEF Serve
  <2>2. \A d \in Client : d = c \/ (plan'[d] = plan[d] /\ consumed'[d] = consumed[d])
    BY <1>1, <1>5
  <2> QED
    BY <2>1, <2>2 DEF OtherSessions
<1> QED
  BY <1>1, <1>5, <1>6, <1>7, <1>8, EnterMaps

LEMMA OnceLockMaps ==
  ASSUME Inv, NEW c \in Client, OnceLock(c)
  PROVE  Mapped
<1> USE Processes
<1>1. /\ work[Once(c)].at = "lock" /\ UNCHANGED <<status, applying, plan, consumed>>
      /\ work[Once(c)] \in Work
  BY DEF OnceLock, procVars, Inv, TypeOK
<1>2. CASE Enter(Once(c), work[Once(c)].bid)
  <2>1. work[Once(c)].bid \in Backup
    BY <1>1 DEF Inv, Working
  <2>2. ApprovedOf(Once(c)) = {work[Once(c)].bid}
    BY <1>1 DEF ApprovedOf
  <2>3. work[Once(c)].at \notin Locked
    BY <1>1 DEF Locked, Changing
  <2>4. TakesUp(Once(c)) /\ OtherSessions(Once(c))
    BY <1>1, <1>2, <2>1, <2>2 DEF TakesUp, OtherSessions
  <2> QED
    BY <1>1, <2>3, <2>4, EnterMaps
<1>3. CASE work' = [work EXCEPT ![Once(c)] = [work[Once(c)] EXCEPT !.at = "exited",
                                                          !.code = "E_OPERATION_ACTIVE"]]
  <2>1. [work[Once(c)] EXCEPT !.at = "exited", !.code = "E_OPERATION_ACTIVE"] \in Work
    BY <1>1 DEF Work, At, Code
  <2>2. \A w : w = [work[Once(c)] EXCEPT !.at = "exited", !.code = "E_OPERATION_ACTIVE"] =>
          w.at = "exited"
    BY <1>1 DEF Work
  <2>3. \E w \in Work : w.at \in {"idle", "exited"} /\ work' = [work EXCEPT ![Once(c)] = w]
    BY <1>3, <2>1, <2>2
  <2> QED
    BY <1>1, <2>3, OnceDone
<1> QED
  BY <1>2, <1>3 DEF OnceLock

LEMMA ConfirmMaps ==
  ASSUME Inv, NEW c \in Client, Confirm(c)
  PROVE  Mapped
<1> USE Processes
<1>1. /\ user[c].at = "idle" /\ user[c].ask.args.bid \in Backup
      /\ UNCHANGED <<status, applying, plan, consumed>>
  BY DEF Confirm, procVars, Inv, Talk, IsAnswer
<1>2. work[Once(c)].at = "idle"
  BY <1>1 DEF Inv, OnBehalf
<1>3. /\ work'[Once(c)].at = "lock" /\ work'[Once(c)].bid = user[c].ask.args.bid
      /\ \A p \in Process \ {Once(c)} : work'[p] = work[p]
  <2>1. work' = [work EXCEPT ![Once(c)] = [NoWork EXCEPT !.at = "lock",
                                                         !.bid = user[c].ask.args.bid]]
    BY DEF Confirm
  <2>2. \A w : w = [NoWork EXCEPT !.at = "lock", !.bid = user[c].ask.args.bid] =>
          w.at = "lock" /\ w.bid = user[c].ask.args.bid
    BY DEF NoWork
  <2> QED
    BY <2>1, <2>2 DEF Inv, TypeOK
<1>4. Others(Once(c)) /\ SameBackups
  BY <1>1, <1>3 DEF Others, OtherSessions, SameBackups
<1>5. ApprovedOf(Once(c))' = {user[c].ask.args.bid}
  BY <1>3 DEF ApprovedOf
<1>6. /\ TakenOf(Once(c))' = TakenOf(Once(c))
      /\ work[Once(c)].at \notin Changing /\ work'[Once(c)].at \notin Changing
  BY <1>2, <1>3 DEF TakenOf, Changing
<1>7. \E b \in Backup : Abstract!Approve(Once(c), b)
  BY <1>1, <1>4, <1>5, <1>6, Approved
<1> QED
  BY <1>7, MappedSteps

(* What the promise does not see *)
LEMMA OtherMaps ==
  ASSUME Inv, NEW c \in Client,
         Ask(c) \/ Write(c) \/ Read(c) \/ Leave(c) \/ IdleTimeout(c)
  PROVE  Mapped
<1> USE Processes
<1>1. UNCHANGED <<status, applying, plan, consumed>> /\ work[Serve(c)] \in Work
  BY DEF Ask, Ensure, Write, Read, Leave, IdleTimeout, procVars, Inv, TypeOK
<1>2. CASE UNCHANGED work
  <2>1. Others(Serve(c)) /\ SameBackups
    BY <1>1, <1>2 DEF Others, OtherSessions, SameBackups
  <2>2. /\ ApprovedOf(Serve(c))' = ApprovedOf(Serve(c))
        /\ TakenOf(Serve(c))' = TakenOf(Serve(c))
    BY <1>1, <1>2 DEF ApprovedOf, TakenOf
  <2> QED
    BY <1>2, <2>1, <2>2, Stuttered, MappedSteps
<1>3. CASE IdleTimeout(c)
  <2>1. \A w : w = [work[Serve(c)] EXCEPT !.at = "leaving"] => w.at = "leaving"
    BY <1>1 DEF Work
  <2>2. /\ work'[Serve(c)].at = "leaving" /\ work[Serve(c)].at = "idle"
        /\ \A p \in Process \ {Serve(c)} : work'[p] = work[p]
    BY <1>3, <2>1 DEF IdleTimeout, Goto, Inv, TypeOK
  <2>3. Others(Serve(c)) /\ SameBackups
    BY <1>1, <2>2 DEF Others, OtherSessions, SameBackups
  <2>4. /\ ApprovedOf(Serve(c))' = ApprovedOf(Serve(c))
        /\ TakenOf(Serve(c))' = TakenOf(Serve(c))
        /\ work[Serve(c)].at \notin Changing /\ work'[Serve(c)].at \notin Changing
    BY <1>1, <2>2 DEF ApprovedOf, TakenOf, Changing
  <2> QED
    BY <2>3, <2>4, Stuttered, MappedSteps
<1> QED
  BY <1>2, <1>3 DEF Ask, Write, Read, Leave

(* An apply: of a promise, it takes back what its own backup says. *)
LEMMA ApplyMaps ==
  ASSUME Inv, NEW b \in Backup, ApplyStep(b)
  PROVE  Mapped
<1>1. UNCHANGED <<plan, consumed, work>>
  BY AppliesDo
<1>2. ApprovedNow' = ApprovedNow /\ TakenNow' = TakenNow /\ RunningNow' = RunningNow
  BY <1>1 DEF ApprovedNow, ApprovedOf, TakenNow, TakenOf, RunningNow
<1>3. status \in [Backup -> Status]
  BY DEF Inv, TypeOK
<1>4. CASE BeginApply(b)
  <2>1. status[b] = "none" /\ status' = [status EXCEPT ![b] = "in-progress"]
    BY <1>4 DEF BeginApply, Save
  <2>2. Fresh' = Fresh \ {b} /\ b \in Fresh /\ Undone' = Undone
    BY <1>3, <2>1 DEF Fresh, Undone
  <2>3. Abstract!Begin(b)
    BY <1>2, <1>4, <2>2 DEF BeginApply, Abstract!Begin
  <2> QED
    BY <2>3 DEF Mapped, Abstract!Next
<1>5. ASSUME NEW s \in {"in-progress", "completed", "failed"}, Overwrites(b, s), b \in applying
      PROVE  Fresh' = Fresh /\ Undone' = Undone \ {b}
  <2>1. status[b] # "none" /\ status' = [status EXCEPT ![b] = s]
    BY <1>5 DEF Overwrites, Save, Inv, Begun
  <2> QED
    BY <1>3, <2>1 DEF Fresh, Undone
<1>6. CASE ApplySaves(b)
  <2>1. Abstract!Overwrite(b)
    BY <1>2, <1>5, <1>6 DEF ApplySaves, Abstract!Overwrite
  <2> QED
    BY <2>1 DEF Mapped, Abstract!Next
<1>7. CASE EndApply(b)
  <2>1. Fresh' = Fresh /\ Undone' \in {Undone, Undone \ {b}}
    <3>1. CASE UNCHANGED status
      BY <3>1 DEF Fresh, Undone
    <3> QED
      BY <1>5, <1>7, <3>1 DEF EndApply
  <2>2. Abstract!EndApply(b)
    BY <1>2, <1>7, <2>1 DEF EndApply, Abstract!EndApply
  <2> QED
    BY <2>2 DEF Mapped, Abstract!Next
<1> QED
  BY <1>4, <1>6, <1>7 DEF ApplyStep

LEMMA InitMaps == Init => Abstract!Init
<1> SUFFICES ASSUME Init PROVE Abstract!Init
  OBVIOUS
<1>1. \A p \in Process : ApprovedOf(p) = {} /\ TakenOf(p) = {} /\ work[p].at \notin Changing
  BY Processes DEF Init, ApprovedOf, TakenOf, NoArgs, NoWork, Changing
<1>2. RunningNow = NoRun
  BY <1>1 DEF RunningNow, RunningIn
<1>3. Undone \subseteq Backup \ Fresh /\ Fresh \subseteq Backup /\ applying = {}
  BY DEF Undone, Fresh, Init
<1> QED
  BY <1>1, <1>2, <1>3 DEF Abstract!Init, ApprovedNow, TakenNow

LEMMA NextMaps == Inv /\ [Next]_vars => Mapped
<1> SUFFICES ASSUME Inv, [Next]_vars PROVE Mapped
  OBVIOUS
<1> USE Processes
<1>1. CASE UNCHANGED vars
  <2>1. UNCHANGED <<status, applying, plan, consumed, work>>
    BY <1>1 DEF vars
  <2>2. /\ ApprovedNow' = ApprovedNow /\ TakenNow' = TakenNow /\ RunningNow' = RunningNow
        /\ Undone' = Undone /\ Fresh' = Fresh /\ applying' = applying
    BY <2>1 DEF ApprovedNow, ApprovedOf, TakenNow, TakenOf, RunningNow, Undone, Fresh
  <2> QED
    BY <2>2 DEF Mapped, Abstract!vars, Abstract!backups
<1>2. CASE \E b \in Backup : ApplyStep(b)
  BY <1>2, ApplyMaps
<1>7. ASSUME NEW p \in Process, Reloads(p) \/ Resaves(p)
      PROVE  Mapped
  BY <1>7, RollbackMaps
<1>3. ASSUME NEW c \in Client, Ask(c) \/ Confirm(c) \/ Leave(c) \/ UserStep(c)
      PROVE  Mapped
  BY <1>3, OtherMaps, ConfirmMaps, OnceEndingMaps DEF UserStep
<1>4. ASSUME NEW p \in Process, RollbackStep(p)
      PROVE  Mapped
  <2>1. CASE Release(p)
    <3>1. PICK c \in Client : p = Serve(c) \/ p = Once(c)
      OBVIOUS
    <3> QED
      BY <2>1, <3>1, ServeReleaseMaps, OnceEndingMaps
  <2> QED
    BY <1>4, <2>1, RollbackMaps DEF RollbackStep
<1>5. ASSUME NEW c \in Client, ServeStep(c) \/ OnceStep(c)
      PROVE  Mapped
  BY <1>4, <1>5, ServingMaps, ServeRollbackMaps, EndingMaps, OnceLockMaps
     DEF ServeStep, OnceStep
<1>6. ASSUME NEW c \in Client, IdleTimeout(c) \/ KillServe(c) \/ KillOnce(c)
      PROVE  Mapped
  BY <1>6, OtherMaps, EndingMaps, OnceEndingMaps
<1> QED
  BY <1>1, <1>2, <1>3, <1>5, <1>6, <1>7 DEF Next, ApplyStep

(* The two rollback protocols implement the promise: every rollback is     *)
(* approved, each approval is for one, one runs at a time, none undoes     *)
(* what is undone, and what is undone stays so once the apply that made    *)
(* the backup has ended.                                                   *)
THEOREM SessionRefines == Spec => ApprovedRollbacks
<1>1. Inv /\ [Next]_vars => [Abstract!Next]_(Abstract!vars)
  BY NextMaps DEF Mapped
<1> QED
  BY <1>1, InitMaps, AlwaysInv, PTL DEF Spec, ApprovedRollbacks, Abstract!SafeSpec
=============================================================================
