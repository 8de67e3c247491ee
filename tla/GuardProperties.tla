-------------------------- MODULE GuardProperties --------------------------
(* What the guard promises: no drift goes unsaid, none is said twice over. *)
EXTENDS Guard

(* Every variable stays in its range. *)
TypeOK ==
  /\ verdict \in Verdict /\ enabled \in BOOLEAN /\ checked \in BOOLEAN
  /\ status \in GuardStatus \cup {None} /\ held \in GuardStatus \cup {None}
  /\ marker \in Drift \cup {None}
  /\ session \in {"none", "delay", "send", "mark", "done"}
  /\ told \subseteq Drift /\ last \in Drift \cup {None} /\ cut \in BOOLEAN

(* The user is not told of the same drift twice in a row, though it is     *)
(* checked and written again after every boot, unless the notifier was     *)
(* ended between its notification and its marker (guard_notify,            *)
(* status_hash).                                                           *)
NotToldTwice == [][session = "send" /\ session' = "mark" => cut \/ held.found # last]_vars

(* A drift that stays is told of, whatever was found and told before,      *)
(* while the guard is enabled and its status file is left there.           *)
DriftIsReported ==
  \A d \in Drift : <>[](verdict = d /\ enabled /\ status # None) => <>(d \in told)
=============================================================================
