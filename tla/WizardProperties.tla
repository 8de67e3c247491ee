-------------------------- MODULE WizardProperties --------------------------
(***************************************************************************)
(* What the wizard promises: one apply at a time, only after a review of   *)
(* a plan that can be applied, Finish only after success, and workers that *)
(* always report back.                                                     *)
(***************************************************************************)
EXTENDS Wizard

(* Every variable of WizardWindow and HelperSession stays in its range. *)
TypeOK ==
  /\ page \in Page /\ built \subseteq Page
  /\ info \in Maybe(Profiles) /\ profile \in Maybe(Profiles) /\ last \in Maybe(Profiles)
  /\ selected \in Maybe(Target) /\ request \in Maybe(Size) /\ size \in Size \cup {0}
  /\ plan \in Plan /\ running \in BOOLEAN /\ widgets \in Widgets
  /\ threads \in [Thread -> Task] /\ idle \in Seq(Callback)
  /\ asked \in [probes : 0..MaxProbes, applies : 0..MaxApplies]
  /\ ticked \in BOOLEAN /\ succeeded \in BOOLEAN

Applying == {t \in Thread : threads[t].kind = "apply"}
Reported == {i \in DOMAIN idle : idle[i].kind = "apply"}

(* At most one apply is in flight, from the click to its report, whatever  *)
(* boxes are ticked meanwhile, and _apply_running says exactly whether one *)
(* is (_start_apply against _apply_done).                                  *)
OneApplyAtATime ==
  Cardinality(Applying) + Cardinality(Reported) = IF running THEN 1 ELSE 0

(* The helper is started only after the apply page was opened on a plan    *)
(* that can be applied and its box was ticked; a blocked plan that the     *)
(* sidebar lets the user open leads nowhere (_apply_page).                 *)
ReviewBeforeHelper ==
  \A t \in Thread :
    threads[t].at = "helper" => "apply" \in built /\ ticked /\ plan.ok

(* Finish opens only after an apply or a dry run succeeded (_maybe_open,   *)
(* _apply_done).                                                           *)
FinishAfterSuccess == "finish" \in built => succeeded

(* No page behind the System Check is built before a detection has ended   *)
(* well, opened from the sidebar or not (_maybe_open); and Continue leads  *)
(* to Configuration only on a result that is still the one shown and says  *)
(* so, in whatever order detections report (_detect_done).  The sidebar    *)
(* asks for less: it leads there on a result that blocks, too.             *)
DetectedBeforeConfig ==
  /\ built \ {"intro", "check"} # {} => profile # None
  /\ widgets.nextCheck => info # None /\ info.supported

(* The page of planned modifications is built with a plan to show: neither *)
(* the sidebar nor Continue opens it with nothing selected (_render_plan). *)
PlanPageHasPlan == "plan" \in built => plan # NoPlan

(* Every apply reports back and frees the wizard (_apply_worker). *)
ApplyReports == running ~> ~running

(* What runs is what the user reviewed: the helper is given the choice     *)
(* that the Review & Apply page shows.                                     *)
ReviewedIsApplied ==
  \A t \in Thread : threads[t].at = "helper" => threads[t].choice = plan.choice
=============================================================================
