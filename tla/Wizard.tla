------------------------------- MODULE Wizard -------------------------------
(***************************************************************************)
(* The GTK wizard (ui/wizard_window.py) and the controller it drives       *)
(* (backend/session.py): pages that are built once and kept, a selection,  *)
(* a plan, and worker threads that probe the machine or apply, which hand  *)
(* their result to the main loop with GLib.idle_add.                       *)
(*                                                                         *)
(* An action is one event of the main loop (a click, an idle callback) or  *)
(* one step of a worker thread between two accesses of shared state.  The  *)
(* machine is the environment: a probe may return any of Profiles.  The    *)
(* helper process that an apply starts ends well or not (module Helper     *)
(* models what it does).  Help and About, which are always open and change *)
(* nothing, are left out, and so are icons and logs.                       *)
(***************************************************************************)
EXTENDS Naturals, Sequences, FiniteSets

CONSTANTS
  Target,       \* swap targets (with their uuid and offset) a probe may list
  Size,         \* sizes the managed swap file may be given
  None,         \* Python's None
  Suggested,    \* suggested_swap_sizes(ram)[1]
  Profiles,     \* what a probe of the machine may return
  DryRun,       \* the wizard was started with --dry-run
  MaxThreads,   \* worker threads alive at once
  MaxProbes,    \* probes the user asks for (Refresh, verification)
  MaxApplies    \* clicks on Apply Plan

(* targets are the selectable candidates; clash those conflict_warnings    *)
(* objects to; fits the sizes that pass swapfile_free_space_problem.       *)
Profile == [targets : SUBSET Target, supported : BOOLEAN,
            clash : SUBSET Target, fits : SUBSET Size]

ASSUME ChoiceAssumption  == Target \cap Size = {} /\ None \notin Target \cup Size
ASSUME SizeAssumption    == Suggested \in Size
ASSUME ProfileAssumption == Profiles \subseteq Profile /\ None \notin Profile
ASSUME BoundAssumption   == {MaxThreads, MaxProbes, MaxApplies} \subseteq Nat /\ DryRun \in BOOLEAN

Page   == {"intro", "check", "config", "plan", "apply", "finish"}
Choice == Target \cup Size
Maybe(S) == S \cup {None}

VARIABLES
  page,       \* the visible page
  built,      \* pages whose widgets exist: built on the first visit, kept
  info,       \* detect_info, the result the check page shows
  profile,    \* self.profile, of the last detection that succeeded
  selected,   \* selected_target
  request,    \* swap_file_request, by its size
  size,       \* _swapfile_size_bytes
  plan,       \* self.plan, which the plan and apply pages show
  last,       \* controller._last_profile
  running,    \* _apply_running
  widgets,    \* state of the widgets that decide what can be clicked
  threads,    \* worker threads
  idle,       \* callbacks posted with GLib.idle_add
  asked,      \* probes and applies asked for
  ticked,     \* history: the confirmation box has been ticked
  succeeded   \* history: an apply (or dry run) ended well

pageVars   == <<page, built>>
choiceVars == <<selected, request, size>>
askVars    == <<asked, ticked, succeeded>>
vars == <<page, built, info, profile, selected, request, size, plan, last,
          running, widgets, threads, idle, asked, ticked, succeeded>>

Plan   == [choice : Maybe(Choice), ok : BOOLEAN]
NoPlan == [choice |-> None, ok |-> FALSE]

Widgets == [radios : SUBSET Target, radio : Maybe(Target), toggle : BOOLEAN,
            nextCheck : BOOLEAN, nextConfig : BOOLEAN, nextPlan : BOOLEAN,
            confirm : BOOLEAN, dry : BOOLEAN, apply : BOOLEAN,
            finish : BOOLEAN, verify : BOOLEAN]

Thread == 1..MaxThreads
Task   == [kind : {"none", "detect", "verify", "apply"},
           at : {"none", "start", "plan", "helper", "post"},
           choice : Maybe(Choice), dry : BOOLEAN,
           found : Maybe(Profiles), ok : BOOLEAN]
NoTask == [kind |-> "none", at |-> "none", choice |-> None, dry |-> FALSE,
           found |-> None, ok |-> FALSE]

Callback == [kind : {"start-detect", "detect", "verify", "apply"},
             found : Maybe(Profiles), ok : BOOLEAN]

Init ==
  /\ page = "intro" /\ built = {"intro"}
  /\ info = None /\ profile = None /\ last = None
  /\ selected = None /\ request = None /\ size = 0
  /\ plan = NoPlan /\ running = FALSE
  /\ widgets = [radios |-> {}, radio |-> None, toggle |-> FALSE,
                nextCheck |-> FALSE, nextConfig |-> FALSE, nextPlan |-> FALSE,
                confirm |-> FALSE, dry |-> FALSE, apply |-> FALSE,
                finish |-> FALSE, verify |-> FALSE]
  /\ threads = [t \in Thread |-> NoTask] /\ idle = <<>>
  /\ asked = [probes |-> 0, applies |-> 0] /\ ticked = FALSE /\ succeeded = FALSE

-----------------------------------------------------------------------------
(* Profiles, selection and plans *)

(* SystemProfile.recommended_target *)
Recommended(p) == IF p.targets = {} THEN None ELSE CHOOSE t \in p.targets : TRUE

(* _config_selection *)
Selection == IF request # None THEN request ELSE selected

(* _config_can_continue, of a selection about to be made *)
CanContinue(s, r) == IF r # None THEN profile = None \/ r \in profile.fits ELSE s # None

(* build_modification_plan and build_swapfile_modification_plan, can_apply *)
CanApply(p, c) ==
  /\ p.supported
  /\ IF c \in Size THEN c \in p.fits ELSE p.targets # {} /\ c \notin p.clash

(* HelperSession._resolve_target: nothing selected means the recommended   *)
(* target; without one build_plan raises.                                  *)
Resolved(p, c) == IF c = None THEN Recommended(p) ELSE c

PlanFor(p, c) == [choice |-> Resolved(p, c), ok |-> CanApply(p, Resolved(p, c))]

(* build_plan on the last profile probed; when it raises, the handlers     *)
(* keep the plan they had.                                                 *)
BuildPlan == IF Resolved(last, Selection) = None THEN plan ELSE PlanFor(last, Selection)

(* Wrong variant: the suggestion is not used. *)
NoDefaultSize == size

(* _default_swapfile_size_bytes *)
DefaultSize == IF size = 0 THEN Suggested ELSE size

-----------------------------------------------------------------------------
(* Worker threads and the idle queue *)

Free == {t \in Thread : threads[t] = NoTask}

Spawn(kind) ==
  \E t \in Free : /\ \A u \in Free : t <= u
                  /\ threads' = [threads EXCEPT ![t].kind = kind, ![t].at = "start"]

Post(kind, found, ok) == Append(idle, [kind |-> kind, found |-> found, ok |-> ok])

(* _start_detect, from the Refresh button or from the idle queue *)
StartDetect == Spawn("detect") /\ widgets' = [widgets EXCEPT !.nextCheck = FALSE]

-----------------------------------------------------------------------------
(* Pages *)

(* What building a page for the first time does (_check_page .. _finish_page). *)
BuildPage(k) ==
  \/ /\ k = "check"
     /\ widgets' = [widgets EXCEPT !.nextCheck = info # None /\ info.supported]
     /\ idle' = IF info = None THEN Post("start-detect", None, FALSE) ELSE idle
     /\ UNCHANGED <<plan, size>>
  \/ /\ k = "config"
     /\ LET shown == IF profile = None THEN {} ELSE profile.targets
        IN  widgets' = [widgets EXCEPT
              !.radios = shown,
              !.radio = IF selected \in shown THEN selected ELSE None,
              !.toggle = request # None,
              !.nextConfig = CanContinue(selected, request)]
     /\ size' = DefaultSize
     /\ UNCHANGED <<plan, idle>>
  \/ /\ k = "plan"
     /\ plan' = BuildPlan
     /\ widgets' = [widgets EXCEPT !.nextPlan = plan'.ok]
     /\ UNCHANGED <<size, idle>>
  \/ /\ k = "apply"
     /\ plan' = IF plan = NoPlan THEN BuildPlan ELSE plan
     /\ widgets' = [widgets EXCEPT !.dry = DryRun]
     /\ UNCHANGED <<size, idle>>
  \/ /\ k = "finish"
     /\ widgets' = [widgets EXCEPT !.verify = TRUE]
     /\ UNCHANGED <<plan, size, idle>>

(* _show_page *)
ShowPage(k) ==
  /\ page' = k /\ built' = built \cup {k}
  /\ IF k \in built THEN UNCHANGED <<plan, size, widgets, idle>> ELSE BuildPage(k)
  /\ UNCHANGED <<info, profile, selected, request, last, running, threads, askVars>>

Index == [intro |-> 0, check |-> 1, config |-> 2, plan |-> 3, apply |-> 4, finish |-> 5]

(* Wrong variant: the check page is enough, whatever it shows. *)
FurthestByPages ==
  IF "finish" \in built THEN 5
  ELSE IF plan # NoPlan THEN 4
  ELSE IF selected # None \/ request # None THEN 3
  ELSE IF "check" \in built THEN 2 ELSE 0

(* _maybe_open: how far the sidebar lets the user go.  A result that       *)
(* blocks counts as one, and a choice outlives the result.                 *)
Furthest ==
  IF "finish" \in built THEN 5
  ELSE IF plan # NoPlan THEN 4
  ELSE IF selected # None \/ request # None THEN 3
  ELSE IF info # None THEN 2 ELSE 0

Sidebar(k) ==
  /\ k # page /\ ~running /\ Index[k] <= Furthest
  /\ ShowPage(k)

(* The buttons at the bottom of the pages; Back is never switched off. *)
Continue ==
  \/ page = "intro"  /\ ShowPage("check")
  \/ page = "check"  /\ widgets.nextCheck  /\ ShowPage("config")
  \/ page = "config" /\ widgets.nextConfig /\ ShowPage("plan")
  \/ page = "plan"   /\ widgets.nextPlan   /\ ShowPage("apply")
  \/ page = "apply"  /\ widgets.finish     /\ ShowPage("finish")

Back ==
  \/ page = "plan"  /\ ShowPage("config")
  \/ page = "apply" /\ ShowPage("plan")

-----------------------------------------------------------------------------
(* System check *)

Refresh ==
  /\ page = "check" /\ asked.probes < MaxProbes
  /\ StartDetect
  /\ asked' = [asked EXCEPT !.probes = @ + 1]
  /\ UNCHANGED <<pageVars, info, profile, choiceVars, plan, last, running, idle, ticked, succeeded>>

(* _export_report: export_diagnostics probes first if nobody did *)
ExportReport ==
  /\ page = "check" /\ last = None
  /\ last' \in Profiles
  /\ UNCHANGED <<pageVars, info, profile, choiceVars, plan, running, widgets, threads, idle, askVars>>

(* _detect_worker and _post_restart_verify_worker: controller.detect(),    *)
(* then the callback.  A probe may fail.                                   *)
Probe(t) ==
  /\ threads[t].kind \in {"detect", "verify"} /\ threads[t].at = "start"
  /\ \E p \in Maybe(Profiles) :
       /\ threads' = [threads EXCEPT ![t].found = p, ![t].at = "post"]
       /\ last' = IF p = None THEN last ELSE p
  /\ UNCHANGED <<pageVars, info, profile, choiceVars, plan, running, widgets, idle, askVars>>

PostResult(t) ==
  /\ threads[t].at = "post"
  /\ idle' = Post(threads[t].kind, threads[t].found, threads[t].ok)
  /\ threads' = [threads EXCEPT ![t] = NoTask]
  /\ UNCHANGED <<pageVars, info, profile, choiceVars, plan, last, running, widgets, askVars>>

(* _detect_done: the result replaces whatever the user had selected.  The  *)
(* config page, if built, still shows the old candidates and choice.       *)
DetectDone(p) ==
  /\ info' = p
  /\ IF p = None
     THEN /\ widgets' = [widgets EXCEPT !.nextCheck = FALSE]
          /\ UNCHANGED <<profile, choiceVars>>
     ELSE /\ profile' = p
          /\ selected' = Recommended(p)
          /\ request' = IF Recommended(p) = None THEN Suggested ELSE None
          /\ size' = IF Recommended(p) = None THEN Suggested ELSE size
          /\ widgets' = [widgets EXCEPT !.nextCheck = p.supported]
  /\ UNCHANGED <<plan, running, threads, succeeded>>

-----------------------------------------------------------------------------
(* Configuration *)

OnConfig == page = "config" /\ UNCHANGED <<pageVars, info, profile, plan, last,
                                           running, threads, idle, askVars>>

(* _target_toggled; the toggle of the swap file follows *)
PickTarget(c) ==
  /\ OnConfig /\ c \in widgets.radios /\ widgets.radio # c
  /\ selected' = c /\ request' = None
  /\ widgets' = [widgets EXCEPT !.radio = c, !.toggle = FALSE,
                                !.nextConfig = CanContinue(c, None)]
  /\ UNCHANGED size

(* A radio with no other candidate is a check box and can be unticked. *)
UntickTarget ==
  /\ OnConfig /\ widgets.radio # None /\ widgets.radios = {widgets.radio}
  /\ widgets' = [widgets EXCEPT !.radio = None]
  /\ UNCHANGED choiceVars

(* Wrong variant: the Continue button is not looked at again. *)
ToggleKeepsNext ==
  /\ OnConfig
  /\ IF ~widgets.toggle
     THEN /\ selected' = None /\ size' = DefaultSize /\ request' = DefaultSize
     ELSE /\ request' = None /\ UNCHANGED <<selected, size>>
  /\ widgets' = [widgets EXCEPT !.toggle = ~widgets.toggle]

(* _swapfile_toggle_changed *)
ToggleSwapFile ==
  /\ OnConfig
  /\ IF ~widgets.toggle
     THEN /\ selected' = None /\ size' = DefaultSize /\ request' = DefaultSize
     ELSE /\ request' = None /\ UNCHANGED <<selected, size>>
  /\ widgets' = [widgets EXCEPT !.toggle = ~widgets.toggle,
                                !.nextConfig = CanContinue(selected', request')]

(* _swapfile_size_changed: the slider or the number box *)
SetSize(s) ==
  /\ OnConfig /\ size # s
  /\ size' = s
  /\ IF widgets.toggle
     THEN /\ request' = s
          /\ widgets' = [widgets EXCEPT !.nextConfig = CanContinue(selected, s)]
     ELSE UNCHANGED <<request, widgets>>
  /\ UNCHANGED selected

(* _swapfile_preset_clicked: the size, then the toggle, then the request *)
PickPreset(s) ==
  /\ OnConfig
  /\ selected' = IF widgets.toggle THEN selected ELSE None
  /\ size' = s /\ request' = s
  /\ widgets' = [widgets EXCEPT !.toggle = TRUE, !.nextConfig = CanContinue(selected', s)]

-----------------------------------------------------------------------------
(* Review & Apply *)

OnApply == page = "apply" /\ UNCHANGED <<pageVars, info, profile, choiceVars, plan, last, idle, succeeded>>

(* Wrong variant: whether the plan can be applied is not asked. *)
ConfirmEnablesApply ==
  /\ OnApply
  /\ widgets' = [widgets EXCEPT !.confirm = ~@, !.apply = ~widgets.confirm]
  /\ ticked' = TRUE
  /\ UNCHANGED <<running, threads, asked>>

(* The confirmation box *)
ToggleConfirm ==
  /\ OnApply
  /\ widgets' = [widgets EXCEPT !.confirm = ~@, !.apply = ~widgets.confirm /\ plan.ok]
  /\ ticked' = TRUE
  /\ UNCHANGED <<running, threads, asked>>

ToggleDry ==
  /\ OnApply
  /\ widgets' = [widgets EXCEPT !.dry = ~@]
  /\ UNCHANGED <<running, threads, asked, ticked>>

(* Wrong variant: only the button guards against a second start. *)
StartApplyTwice ==
  /\ OnApply /\ widgets.apply /\ asked.applies < MaxApplies
  /\ running' = TRUE
  /\ widgets' = [widgets EXCEPT !.apply = FALSE, !.finish = FALSE]
  /\ Spawn("apply")
  /\ asked' = [asked EXCEPT !.applies = @ + 1]
  /\ UNCHANGED ticked

(* _start_apply *)
StartApply ==
  /\ OnApply /\ widgets.apply /\ asked.applies < MaxApplies
  /\ ~running
  /\ running' = TRUE
  /\ widgets' = [widgets EXCEPT !.apply = FALSE, !.finish = FALSE]
  /\ Spawn("apply")
  /\ asked' = [asked EXCEPT !.applies = @ + 1]
  /\ UNCHANGED ticked

Worker(t, at) ==
  /\ threads[t].kind = "apply" /\ threads[t].at = at
  /\ UNCHANGED <<pageVars, info, profile, choiceVars, plan, last, running, widgets, idle, askVars>>

Finished(t, ok) ==
  threads' = [threads EXCEPT ![t] = [NoTask EXCEPT !.kind = "apply", !.at = "post", !.ok = ok]]

(* _apply_worker reads the pages: what is selected and dry now. *)
ReadSelection(t) ==
  /\ Worker(t, "start")
  /\ threads' = [threads EXCEPT ![t].choice = Selection, ![t].dry = widgets.dry, ![t].at = "plan"]

(* Wrong variant: a plan that cannot be built ends the thread silently. *)
PlanAgainUncaught(t) ==
  LET j == threads[t]
      p == PlanFor(last, j.choice)
  IN  /\ Worker(t, "plan")
      /\ p.ok
      /\ IF ~j.dry
         THEN threads' = [threads EXCEPT ![t].choice = p.choice, ![t].at = "helper"]
         ELSE Finished(t, TRUE)

(* HelperSession.apply plans again; a blocked plan, an exception or a dry  *)
(* run never reaches the helper.                                           *)
PlanAgain(t) ==
  LET j == threads[t]
      p == PlanFor(last, j.choice)
  IN  /\ Worker(t, "plan")
      /\ IF p.choice # None /\ p.ok /\ ~j.dry
         THEN threads' = [threads EXCEPT ![t].choice = p.choice, ![t].at = "helper"]
         ELSE Finished(t, p.choice # None /\ p.ok)

(* _run_apply_helper: the helper process ends, or cannot be started *)
HelperEnds(t) ==
  /\ Worker(t, "helper")
  /\ \E ok \in BOOLEAN : Finished(t, ok)

(* Wrong variant: Finish opens whatever the outcome. *)
ApplyDoneOpensFinish(ok) ==
  /\ running' = FALSE
  /\ widgets' = [widgets EXCEPT !.apply = ~ok, !.finish = TRUE]
  /\ succeeded' = (succeeded \/ ok)
  /\ UNCHANGED <<info, profile, choiceVars, plan, threads>>

(* _apply_done *)
ApplyDone(ok) ==
  /\ running' = FALSE
  /\ widgets' = IF ok THEN [widgets EXCEPT !.finish = TRUE]
                ELSE [widgets EXCEPT !.apply = TRUE, !.finish = FALSE]
  /\ succeeded' = (succeeded \/ ok)
  /\ UNCHANGED <<info, profile, choiceVars, plan, threads>>

-----------------------------------------------------------------------------
(* Finish *)

StartVerify ==
  /\ page = "finish" /\ widgets.verify /\ asked.probes < MaxProbes
  /\ widgets' = [widgets EXCEPT !.verify = FALSE]
  /\ Spawn("verify")
  /\ asked' = [asked EXCEPT !.probes = @ + 1]
  /\ UNCHANGED <<pageVars, info, profile, choiceVars, plan, last, running, idle, ticked, succeeded>>

-----------------------------------------------------------------------------
(* The main loop runs posted callbacks in order. *)

RunIdle ==
  /\ idle # <<>> /\ idle' = Tail(idle)
  /\ LET c == Head(idle)
     IN  \/ /\ c.kind = "start-detect" /\ StartDetect
            /\ UNCHANGED <<info, profile, choiceVars, plan, running, succeeded>>
         \/ c.kind = "detect" /\ DetectDone(c.found)
         \/ /\ c.kind = "verify"
            /\ widgets' = [widgets EXCEPT !.verify = TRUE]
            /\ UNCHANGED <<info, profile, choiceVars, plan, running, threads, succeeded>>
         \/ c.kind = "apply" /\ ApplyDone(c.ok)
  /\ UNCHANGED <<pageVars, last, asked, ticked>>

ThreadStep(t) == Probe(t) \/ ReadSelection(t) \/ PlanAgain(t) \/ HelperEnds(t) \/ PostResult(t)

User ==
  \/ \E k \in Page : Sidebar(k)
  \/ Continue \/ Back \/ Refresh \/ ExportReport
  \/ \E c \in Target : PickTarget(c)
  \/ UntickTarget \/ ToggleSwapFile
  \/ \E s \in Size : SetSize(s) \/ PickPreset(s)
  \/ ToggleConfirm \/ ToggleDry \/ StartApply \/ StartVerify

Next == User \/ RunIdle \/ \E t \in Thread : ThreadStep(t)

Spec == Init /\ [][Next]_vars

(* Threads are scheduled, the main loop keeps running, commands have       *)
(* timeouts; the user owes nothing.                                        *)
FairSpec == Spec /\ WF_vars(RunIdle) /\ \A t \in Thread : WF_vars(ThreadStep(t))
=============================================================================
