---------------------------- MODULE GuardProofs ----------------------------
(* The guard's promises for any number of drifts: the invariant relates    *)
(* the marker to the notification that was sent last.                      *)
EXTENDS GuardProperties, TLAPS

(* What a running notifier holds is a drift that differs from the marker,  *)
(* and between notifications the marker is the last one, unless it was cut *)
(* off from writing it.                                                    *)
MarkerIsLast ==
  /\ session \in {"send", "mark"} => held # None /\ held.found \in Drift
  /\ session = "send" => held.found # marker
  /\ session = "mark" => held.found = last
  /\ session # "mark" => cut \/ marker = last

GuardInv == TypeOK /\ MarkerIsLast

LEMMA GuardInit == Init => GuardInv
  BY DriftAssumption DEF Init, GuardInv, TypeOK, MarkerIsLast, Verdict

LEMMA GuardStep == GuardInv /\ [Next]_vars => GuardInv'
<1> SUFFICES ASSUME GuardInv, [Next]_vars PROVE GuardInv'
  OBVIOUS
<1> USE DriftAssumption DEF GuardInv, TypeOK, MarkerIsLast, Verdict, GuardStatus, Stamp
<1>1. CASE GuardCheck
  BY <1>1 DEF GuardCheck, history
<1>2. CASE Login
  BY <1>2 DEF Login, files, history
<1>3. CASE Read
  BY <1>3 DEF Read, ShouldNotify, StatusHash, files, history
<1>4. CASE Send
  BY <1>4 DEF Send, files
<1>5. CASE Mark
  BY <1>5 DEF Mark, StatusHash, history
<1>6. CASE Logout \/ Reboot
  BY <1>6 DEF Logout, Reboot, EndSession
<1>7. CASE Change \/ Toggle \/ Discard
  BY <1>7 DEF Change, Toggle, Discard, files, history
<1>8. CASE UNCHANGED vars
  BY <1>8 DEF vars, files, history
<1> QED
  BY <1>1, <1>2, <1>3, <1>4, <1>5, <1>6, <1>7, <1>8 DEF Next

(* The variables of the guard stay in their ranges. *)
THEOREM GuardTypeCorrect == Spec => []TypeOK
<1>1. GuardInv => TypeOK
  BY DEF GuardInv
<1> QED
  BY <1>1, GuardInit, GuardStep, PTL DEF Spec

(* The user is not told of the same drift twice in a row, for any lists of *)
(* errors and whatever is repaired, rebooted and discarded in between      *)
(* (guard_notify, should_notify, status_hash).                             *)
THEOREM NotToldTwiceCorrect == Spec => NotToldTwice
<1>1. GuardInv /\ [Next]_vars
        => [session = "send" /\ session' = "mark" => cut \/ held.found # last]_vars
  BY DEF GuardInv, MarkerIsLast
<1> QED
  BY <1>1, GuardInit, GuardStep, PTL DEF Spec, NotToldTwice
=============================================================================
