------------------------------- MODULE Guard -------------------------------
(***************************************************************************)
(* The guard: a timer runs `--guard-check` as root three minutes after a   *)
(* boot (guard_check, ubuntu-hibernate-guard.timer), and each session of   *)
(* the user runs `--guard-notify` a minute after it begins (guard_notify,  *)
(* guard-notify.desktop).  They share guard-status.json; the notifier      *)
(* keeps the hash of the last status it told of in a marker file.          *)
(*                                                                         *)
(* What verify_json makes of the machine is module SystemCheck's; here it  *)
(* is Healthy or one of the lists of errors in Drift.                      *)
(***************************************************************************)
EXTENDS Naturals

CONSTANTS
  Drift,     \* lists of errors: what verification may find
  Healthy,   \* all_ok
  None       \* no file, or none that load_state accepts

ASSUME DriftAssumption == Healthy \notin Drift /\ None \notin Drift \cup {Healthy}

VARIABLES
  verdict,   \* what verification would find now
  enabled,   \* /var/lib/ubuntu-hibernate-wizard/enabled exists
  checked,   \* the timer has fired since the boot
  status,    \* guard-status.json
  marker,    \* last-notified-hash
  session,   \* where the session's notifier stands
  held,      \* the status it has read
  told,      \* history: the drifts the user was told of
  last,      \* history: the one told of last
  cut        \* history: that notifier ended before it wrote the marker

files == <<status, marker>>
history == <<told, last, cut>>
vars == <<verdict, enabled, checked, files, session, held, history>>

Verdict == Drift \cup {Healthy}

(* checked_at is taken from two moments: one guard check and the next. *)
Stamp == {0, 1}
GuardStatus == [found : Verdict, at : Stamp]

Init ==
  /\ verdict \in Verdict /\ enabled \in BOOLEAN
  /\ checked = FALSE
  /\ status = None /\ marker = None
  /\ session = "none" /\ held = None
  /\ told = {} /\ last = None /\ cut = FALSE

(* Wrong variant: the whole status is hashed. *)
StampedHash(s) == s

(* status_hash: of all_ok and the errors, not of the time.  Equal hashes   *)
(* are equal lists.                                                        *)
StatusHash(s) == s.found

(* Wrong variant: who was told once is told no more. *)
NotifyOnce(s) == s # None /\ s.found # Healthy /\ marker = None

ShouldNotify(s) == s # None /\ s.found # Healthy /\ StatusHash(s) # marker

-----------------------------------------------------------------------------
(* guard_check, written atomically; the unit has no effect without the     *)
(* file that enables it.                                                   *)
GuardCheck ==
  /\ enabled /\ ~checked /\ checked' = TRUE
  /\ status' = [found |-> verdict,
                at |-> IF status = None THEN 0 ELSE 1 - status.at]
  /\ UNCHANGED <<verdict, enabled, marker, session, held, history>>

Login ==
  /\ session = "none" /\ session' = "delay"
  /\ UNCHANGED <<verdict, enabled, checked, files, held, history>>

(* guard_notify reads both files ... *)
Read ==
  /\ session = "delay"
  /\ held' = status
  /\ session' = IF ShouldNotify(status) THEN "send" ELSE "done"
  /\ UNCHANGED <<verdict, enabled, checked, files, history>>

(* ... sends the notification, whether or not anybody can show it, ...     *)
Send ==
  /\ session = "send" /\ session' = "mark"
  /\ told' = told \cup {held.found} /\ last' = held.found /\ cut' = FALSE
  /\ UNCHANGED <<verdict, enabled, checked, files, held>>

(* ... and writes the marker for the status it has read. *)
Mark ==
  /\ session = "mark" /\ session' = "done"
  /\ marker' = StatusHash(held)
  /\ UNCHANGED <<verdict, enabled, checked, status, held, history>>

(* A notifier that ends early leaves the marker as it was, or truncated. *)
EndSession ==
  /\ session' = "none" /\ held' = None
  /\ cut' = (cut \/ session = "mark")
  /\ \/ UNCHANGED marker
     \/ session = "mark" /\ marker' = None
  /\ UNCHANGED <<told, last>>

Logout ==
  /\ session # "none"
  /\ EndSession
  /\ UNCHANGED <<verdict, enabled, checked, status>>

(* The machine starts again, in order or not. *)
Reboot ==
  /\ EndSession
  /\ checked' = FALSE
  /\ UNCHANGED <<verdict, enabled, status>>

(* The configuration drifts, drifts otherwise, or is repaired. *)
Change ==
  /\ \E v \in Verdict \ {verdict} : verdict' = v
  /\ UNCHANGED <<enabled, checked, files, session, held, history>>

(* The administrator enables or disables the guard. *)
Toggle ==
  /\ enabled' = ~enabled
  /\ UNCHANGED <<verdict, checked, files, session, held, history>>

(* The status file is removed, or is another version's. *)
Discard ==
  /\ status # None /\ status' = None
  /\ UNCHANGED <<verdict, enabled, checked, marker, session, held, history>>

Next ==
  \/ GuardCheck \/ Login \/ Read \/ Send \/ Mark \/ Logout \/ Reboot
  \/ Change \/ Toggle \/ Discard

Spec == Init /\ [][Next]_vars

(* The machine is used: it is booted again and again, now and then for     *)
(* three minutes, and there is now and then a session that lasts longer    *)
(* than one.                                                               *)
FairSpec ==
  /\ Spec
  /\ WF_vars(Reboot) /\ WF_vars(Login)
  /\ SF_vars(GuardCheck) /\ SF_vars(Read) /\ SF_vars(Send)
=============================================================================
