---------------------------- MODULE WizardProofs ----------------------------
(***************************************************************************)
(* Proofs about the wizard, for every set of targets, sizes and machines   *)
(* and any number of threads, probes and clicks.                           *)
(***************************************************************************)
EXTENDS WizardProperties, FiniteSetTheorems, TLAPS

-----------------------------------------------------------------------------
(* The inductive invariant *)

(* What the fields of a task say together. *)
Tasks ==
  \A t \in Thread : /\ threads[t].at \in {"plan", "helper"} => threads[t].kind = "apply"
                    /\ threads[t].at = "post" => threads[t].kind # "none"

(* The pages are opened in this order, and what opens the next is there. *)
Order ==
  /\ page \in built
  /\ "finish" \in built => "apply" \in built
  /\ "apply" \in built => "plan" \in built
  /\ plan # NoPlan => "plan" \in built
  /\ widgets.nextPlan => "plan" \in built

(* Whoever plans has a profile to plan with. *)
Probed ==
  /\ (info # None \/ Selection # None \/ {"config", "plan"} \cap built # {}) => last # None
  /\ \A t \in Thread : threads[t].found # None => last # None
  /\ \A i \in DOMAIN idle : idle[i].found # None => last # None

(* Whatever opens a page behind the System Check comes of a profile. *)
Detected == info # None \/ Selection # None => profile # None

Chosen == widgets.nextConfig => Selection # None

Completed == ("finish" \in built \/ widgets.finish) => succeeded

(* Whatever may become, is, or was a helper started from a plan that can   *)
(* be applied, on a page that was opened, with a box that was ticked.      *)
Engaged  == widgets.apply \/ Applying # {} \/ Reported # {}
Reviewed == Engaged => "apply" \in built /\ ticked /\ plan.ok

Flight ==
  /\ \A t, u \in Applying : t = u
  /\ \A i, j \in Reported : i = j
  /\ Applying = {} \/ Reported = {}
  /\ running <=> (Applying # {} \/ Reported # {})

Inv == /\ TypeOK /\ Tasks /\ Order /\ Probed /\ Chosen /\ Completed /\ Reviewed
       /\ Flight /\ DetectedBeforeConfig /\ Detected /\ PlanPageHasPlan

-----------------------------------------------------------------------------
(* Data *)

LEMMA TailFacts ==
  ASSUME NEW S, NEW s \in Seq(S), s # <<>>, NEW q, q = Tail(s)
  PROVE  /\ q \in Seq(S) /\ Head(s) \in S /\ 1 \in DOMAIN s /\ Head(s) = s[1]
         /\ \A i \in DOMAIN q : i \in Nat /\ i # 0 /\ i + 1 \in DOMAIN s /\ q[i] = s[i + 1]
         /\ \A i \in DOMAIN s : i = 1 \/ (i - 1 \in DOMAIN q /\ q[i - 1] = s[i])
  OBVIOUS

LEMMA AppendFacts ==
  ASSUME NEW S, NEW s \in Seq(S), NEW c \in S, NEW q, q = Append(s, c)
  PROVE  /\ q \in Seq(S)
         /\ \A i \in DOMAIN q : \/ i \in DOMAIN s /\ q[i] = s[i]
                                \/ i \notin DOMAIN s /\ q[i] = c
         /\ \A i \in DOMAIN s : i \in DOMAIN q /\ q[i] = s[i]
         /\ \E i \in DOMAIN q : i \notin DOMAIN s /\ q[i] = c
         /\ \A i, j \in DOMAIN q : i \notin DOMAIN s /\ j \notin DOMAIN s => i = j
  OBVIOUS

LEMMA ProfileFacts ==
  ASSUME NEW p \in Profiles
  PROVE  /\ p # None /\ p.supported \in BOOLEAN /\ p.targets \subseteq Target
         /\ Recommended(p) \in Maybe(Target)
<1>1. p \in Profile
  BY ProfileAssumption
<1> QED BY <1>1, ProfileAssumption DEF Profile, Recommended, Maybe

LEMMA ChoiceFacts ==
  /\ None \notin Target /\ None \notin Size /\ NoPlan \in Plan /\ NoTask \in Task
  /\ NoTask.kind = "none" /\ NoTask.at = "none" /\ ~NoPlan.ok
  BY ChoiceAssumption DEF NoPlan, Plan, NoTask, Task, Maybe

LEMMA PlanType ==
  ASSUME NEW p \in Profiles, NEW c \in Maybe(Choice)
  PROVE  PlanFor(p, c) \in Plan
<1>1. Resolved(p, c) \in Maybe(Choice)
  BY ProfileFacts DEF Resolved, Maybe, Choice
<1>2. CanApply(p, Resolved(p, c)) \in BOOLEAN
  BY DEF CanApply
<1> QED BY <1>1, <1>2 DEF PlanFor, Plan

-----------------------------------------------------------------------------
(* Pages *)

LEMMA InitInv ==
  ASSUME Init PROVE Inv
<1>1. TypeOK
  <2>1. page \in Page /\ built \subseteq Page /\ plan \in Plan /\ widgets \in Widgets
    BY ChoiceFacts DEF Init, Page, Widgets, Maybe
  <2>2. threads \in [Thread -> Task] /\ idle \in Seq(Callback)
    BY ChoiceFacts DEF Init
  <2>3. asked \in [probes : 0..MaxProbes, applies : 0..MaxApplies]
    BY BoundAssumption DEF Init
  <2>4. /\ info \in Maybe(Profiles) /\ profile \in Maybe(Profiles) /\ last \in Maybe(Profiles)
        /\ selected \in Maybe(Target) /\ request \in Maybe(Size) /\ size \in Size \cup {0}
        /\ running \in BOOLEAN /\ ticked \in BOOLEAN /\ succeeded \in BOOLEAN
    BY DEF Init, Maybe
  <2> QED BY <2>1, <2>2, <2>3, <2>4 DEF TypeOK
<1>2. Applying = {} /\ Reported = {}
  BY ChoiceFacts DEF Init, Applying, Reported
<1>3. Tasks /\ Order /\ Probed /\ Chosen /\ Completed
  BY ChoiceFacts DEF Init, Tasks, Order, Probed, Chosen, Completed, Selection, NoTask
<1>4. Reviewed /\ Flight /\ DetectedBeforeConfig /\ Detected /\ PlanPageHasPlan
  BY <1>2 DEF Init, Reviewed, Engaged, Flight, DetectedBeforeConfig, Detected, Selection, PlanPageHasPlan
<1> QED BY <1>1, <1>3, <1>4 DEF Inv

(* When a page may be opened. *)
Open(k) ==
  /\ k \in {"config", "plan"} => last # None
  /\ k \notin {"intro", "check"} => profile # None
  /\ k = "plan" => "plan" \in built \/ Selection # None
  /\ k = "apply" => "plan" \in built
  /\ k = "finish" => "apply" \in built /\ succeeded

LEMMA SidebarOpens ==
  ASSUME Inv, NEW k \in Page, Sidebar(k) PROVE Open(k)
<1> USE DEF Inv, TypeOK
<1>1. "finish" \in built \/ plan # NoPlan => "plan" \in built
  BY DEF Order
<1>2. Index[k] <= Furthest
  BY DEF Sidebar
<1>3. k \in {"config", "plan"} => last # None
  BY <1>1, <1>2 DEF Page, Index, Furthest, Probed, Selection
<1>4. k = "plan" => "plan" \in built \/ Selection # None
  BY <1>1, <1>2 DEF Page, Index, Furthest, Selection
<1>5. k = "apply" => "plan" \in built
  BY <1>1, <1>2 DEF Page, Index, Furthest
<1>6. k = "finish" => "apply" \in built /\ succeeded
  BY <1>2 DEF Page, Index, Furthest, Order, Completed
<1>7. k \notin {"intro", "check"} => profile # None
  BY <1>1, <1>2 DEF Page, Index, Furthest, Detected, DetectedBeforeConfig, Selection
<1> QED BY <1>3, <1>4, <1>5, <1>6, <1>7 DEF Open

LEMMA ButtonsOpen ==
  ASSUME Inv, Continue \/ Back PROVE \E k \in Page : Open(k) /\ ShowPage(k)
<1> USE DEF Inv, TypeOK, Open, Page
<1>1. CASE page = "intro" /\ ShowPage("check")
  BY <1>1
<1>2. CASE page = "check" /\ widgets.nextCheck /\ ShowPage("config")
  BY <1>2 DEF DetectedBeforeConfig, Detected, Probed
<1>3. CASE page = "config" /\ widgets.nextConfig /\ ShowPage("plan")
  BY <1>3 DEF Chosen, Probed, DetectedBeforeConfig, Order, Detected
<1>4. CASE page = "plan" /\ widgets.nextPlan /\ ShowPage("apply")
  BY <1>4 DEF Order, DetectedBeforeConfig, Detected
<1>5. CASE page = "apply" /\ widgets.finish /\ ShowPage("finish")
  BY <1>5 DEF Order, Completed, DetectedBeforeConfig, Detected
<1>6. CASE page = "plan" /\ ShowPage("config")
  BY <1>6 DEF Order, Probed, DetectedBeforeConfig, Detected
<1>7. CASE page = "apply" /\ ShowPage("plan")
  BY <1>7 DEF Order, Probed, DetectedBeforeConfig, Detected
<1> QED BY <1>1, <1>2, <1>3, <1>4, <1>5, <1>6, <1>7 DEF Continue, Back

LEMMA BuildPlanFacts ==
  ASSUME Inv, last # None
  PROVE  BuildPlan \in Plan /\ (Selection # None => BuildPlan # NoPlan)
<1> USE DEF Inv, TypeOK
<1>1. Selection \in Maybe(Choice)
  BY DEF Selection, Maybe, Choice
<1>2. PlanFor(last, Selection) \in Plan
  BY <1>1, PlanType DEF Maybe
<1>3. Selection # None => Resolved(last, Selection) = Selection /\ PlanFor(last, Selection).choice = Selection
  BY DEF Resolved, PlanFor
<1> QED BY <1>2, <1>3 DEF BuildPlan, NoPlan

(* What building a page does to the state it may change. *)
LEMMA BuildPageFacts ==
  ASSUME Inv, NEW k \in Page, k \notin built, Open(k), BuildPage(k)
  PROVE  /\ plan' \in Plan /\ widgets' \in Widgets /\ size' \in Size \cup {0}
         /\ idle' \in Seq(Callback)
         /\ k \notin {"plan", "apply"} => plan' = plan
         /\ k = "plan" => plan' # NoPlan
         /\ widgets'.apply = widgets.apply /\ widgets'.finish = widgets.finish
         /\ widgets'.nextPlan => k = "plan" \/ widgets.nextPlan
         /\ widgets'.nextCheck => widgets.nextCheck \/ (info # None /\ info.supported)
         /\ widgets'.nextConfig => widgets.nextConfig \/ Selection # None
         /\ \A i \in DOMAIN idle' : \/ i \in DOMAIN idle /\ idle'[i] = idle[i]
                                    \/ idle'[i].kind # "apply" /\ idle'[i].found = None
         /\ \A i \in DOMAIN idle : i \in DOMAIN idle' /\ idle'[i] = idle[i]
<1> USE DEF Inv, TypeOK
<1>1. CASE k = "check"
  <2> DEFINE c == [kind |-> "start-detect", found |-> None, ok |-> FALSE]
  <2>1. c \in Callback
    BY DEF Callback, Maybe
  <2>2. idle' = Append(idle, c) \/ idle' = idle
    BY <1>1 DEF BuildPage, Post
  <2>3. /\ idle' \in Seq(Callback)
        /\ \A i \in DOMAIN idle' : \/ i \in DOMAIN idle /\ idle'[i] = idle[i]
                                   \/ idle'[i].kind # "apply" /\ idle'[i].found = None
        /\ \A i \in DOMAIN idle : i \in DOMAIN idle' /\ idle'[i] = idle[i]
    <3>1. c.kind # "apply" /\ c.found = None
      OBVIOUS
    <3>2. CASE idle' = idle
      BY <3>2
    <3>3. CASE idle' = Append(idle, c)
      <4> HIDE DEF c
      <4> QED BY <3>1, <3>3, <2>1, AppendFacts
    <3> QED BY <2>2, <3>2, <3>3
  <2>4. widgets' = [widgets EXCEPT !.nextCheck = info # None /\ info.supported]
    BY <1>1 DEF BuildPage
  <2>5. UNCHANGED <<plan, size>>
    BY <1>1 DEF BuildPage
  <2>6. (info # None /\ info.supported) \in BOOLEAN
    OBVIOUS
  <2> QED BY <1>1, <2>3, <2>4, <2>5, <2>6 DEF Widgets
<1>2. CASE k = "config"
  <2> DEFINE shown == IF profile = None THEN {} ELSE profile.targets
  <2>1. shown \in SUBSET Target
    BY ProfileFacts DEF Maybe
  <2>2. DefaultSize \in Size
    BY SizeAssumption DEF DefaultSize
  <2>3. CanContinue(selected, request) => Selection # None
    BY DEF CanContinue, Selection
  <2>4. CanContinue(selected, request) \in BOOLEAN
    BY DEF CanContinue
  <2>5. widgets' = [widgets EXCEPT !.radios = shown,
                     !.radio = IF selected \in shown THEN selected ELSE None,
                     !.toggle = request # None,
                     !.nextConfig = CanContinue(selected, request)]
    BY <1>2 DEF BuildPage
  <2>6. size' = DefaultSize /\ UNCHANGED <<plan, idle>>
    BY <1>2 DEF BuildPage
  <2> HIDE DEF shown
  <2> QED BY <1>2, <2>1, <2>2, <2>3, <2>4, <2>5, <2>6 DEF Widgets, Maybe
<1>3. CASE k = "plan"
  <2>1. plan' = BuildPlan /\ UNCHANGED <<size, idle>>
    BY <1>3 DEF BuildPage
  <2>2. plan' \in Plan /\ plan' # NoPlan
    BY <1>3, <2>1, BuildPlanFacts DEF Open
  <2>3. widgets' = [widgets EXCEPT !.nextPlan = plan'.ok]
    BY <1>3 DEF BuildPage
  <2> QED BY <1>3, <2>1, <2>2, <2>3 DEF Widgets, Plan
<1>4. CASE k = "apply"
  <2>1. last # None
    BY <1>4 DEF Open, Probed
  <2>2. plan' \in Plan
    BY <1>4, <2>1, BuildPlanFacts DEF BuildPage
  <2>3. widgets' = [widgets EXCEPT !.dry = DryRun] /\ UNCHANGED <<size, idle>>
    BY <1>4 DEF BuildPage
  <2> QED BY <1>4, <2>2, <2>3, BoundAssumption DEF Widgets
<1>5. CASE k = "finish"
  BY <1>5 DEF BuildPage, Widgets
<1> QED BY <1>1, <1>2, <1>3, <1>4, <1>5 DEF BuildPage

LEMMA ShowPageStep ==
  ASSUME Inv, NEW k \in Page, Open(k), ShowPage(k) PROVE Inv'
<1> USE DEF Inv
<1>1. /\ page' = k /\ built' = built \cup {k}
      /\ UNCHANGED <<info, profile, selected, request, last, running, threads,
                     asked, ticked, succeeded>>
  BY DEF ShowPage, askVars
<1>2. Selection' = Selection /\ Applying' = Applying
  BY <1>1 DEF Selection, Applying
<1>3. /\ plan' \in Plan /\ widgets' \in Widgets /\ size' \in Size \cup {0}
      /\ idle' \in Seq(Callback)
      /\ k \notin {"plan", "apply"} \/ k \in built => plan' = plan
      /\ k = "plan" /\ k \notin built => plan' # NoPlan
      /\ widgets'.apply = widgets.apply /\ widgets'.finish = widgets.finish
      /\ widgets'.nextPlan => k = "plan" \/ widgets.nextPlan
      /\ widgets'.nextCheck => widgets.nextCheck \/ (info # None /\ info.supported)
      /\ widgets'.nextConfig => widgets.nextConfig \/ Selection # None
      /\ \A i \in DOMAIN idle' : \/ i \in DOMAIN idle /\ idle'[i] = idle[i]
                                 \/ idle'[i].kind # "apply" /\ idle'[i].found = None
      /\ \A i \in DOMAIN idle : i \in DOMAIN idle' /\ idle'[i] = idle[i]
  <2>1. CASE k \in built
    <3>1. UNCHANGED <<plan, size, widgets, idle>>
      BY <2>1 DEF ShowPage
    <3> QED BY <2>1, <3>1 DEF TypeOK
  <2>2. CASE k \notin built
    <3>1. BuildPage(k)
      BY <2>2 DEF ShowPage
    <3> QED BY <2>2, <3>1, BuildPageFacts
  <2> QED BY <2>1, <2>2
<1>4. Reported' = Reported
  BY <1>3 DEF Reported
<1>5. TypeOK'
  BY <1>1, <1>3 DEF TypeOK
<1>6. Tasks' /\ Chosen'
  BY <1>1, <1>2, <1>3 DEF Tasks, Chosen
<1>7. Order'
  BY <1>1, <1>3 DEF Order, Open
<1>8. Probed'
  <2>1. (info' # None \/ Selection' # None \/ {"config", "plan"} \cap built' # {}) => last' # None
    BY <1>1, <1>2 DEF Probed, Open
  <2>2. \A i \in DOMAIN idle' : idle'[i].found # None => last' # None
    BY <1>1, <1>3 DEF Probed
  <2> QED BY <1>1, <2>1, <2>2 DEF Probed
<1>9. Completed' /\ DetectedBeforeConfig' /\ Detected'
  BY <1>1, <1>2, <1>3 DEF Completed, DetectedBeforeConfig, Detected, Open
<1>10. Reviewed'
  BY <1>1, <1>2, <1>3, <1>4 DEF Reviewed, Engaged, Order
<1>11. Flight'
  BY <1>1, <1>2, <1>4 DEF Flight
<1>12. PlanPageHasPlan'
  <2>1. CASE k \notin {"plan", "apply"} \/ k \in built
    BY <2>1, <1>1, <1>3 DEF PlanPageHasPlan
  <2>2. CASE k = "plan" /\ k \notin built
    BY <2>2, <1>3 DEF PlanPageHasPlan
  <2>3. CASE k = "apply" /\ k \notin built
    <3>1. plan # NoPlan
      BY <2>3 DEF Open, PlanPageHasPlan
    <3>2. plan' = plan
      BY <2>3, <3>1 DEF ShowPage, BuildPage
    <3> QED BY <3>1, <3>2 DEF PlanPageHasPlan
  <2> QED BY <2>1, <2>2, <2>3
<1> QED BY <1>5, <1>6, <1>7, <1>8, <1>9, <1>10, <1>11, <1>12

-----------------------------------------------------------------------------
(* Configuration *)

(* What the handlers of the configuration page have in common. *)
LEMMA ConfigStep ==
  ASSUME Inv, OnConfig,
         selected' \in Maybe(Target), request' \in Maybe(Size), size' \in Size \cup {0},
         widgets' \in Widgets, widgets'.apply = widgets.apply,
         widgets'.finish = widgets.finish, widgets'.nextPlan = widgets.nextPlan,
         widgets'.nextCheck = widgets.nextCheck, Chosen'
  PROVE  Inv'
<1> USE DEF Inv
<1>1. /\ UNCHANGED <<page, built, info, profile, plan, last, running, threads, idle,
                     asked, ticked, succeeded>>
      /\ page = "config"
  BY DEF OnConfig, pageVars, askVars
<1>2. Applying' = Applying /\ Reported' = Reported
  BY <1>1 DEF Applying, Reported
<1>3. TypeOK' /\ Tasks' /\ Order'
  BY <1>1 DEF TypeOK, Tasks, Order
<1>4. Probed'
  <2>1. last # None
    BY <1>1 DEF Order, Probed
  <2> QED BY <1>1, <2>1 DEF Probed
<1>5. Completed' /\ DetectedBeforeConfig' /\ Detected' /\ PlanPageHasPlan'
  <2>1. profile # None
    BY <1>1 DEF Order, DetectedBeforeConfig
  <2> QED BY <1>1, <2>1 DEF Completed, DetectedBeforeConfig, Detected, PlanPageHasPlan
<1>6. Reviewed' /\ Flight'
  BY <1>1, <1>2 DEF Reviewed, Engaged, Flight
<1> QED BY <1>3, <1>4, <1>5, <1>6

LEMMA CanContinueFacts ==
  ASSUME TypeOK, NEW s \in Maybe(Target), NEW r \in Maybe(Size)
  PROVE  CanContinue(s, r) \in BOOLEAN /\ (CanContinue(s, r) => s # None \/ r # None)
  BY DEF CanContinue

LEMMA ConfigActions ==
  ASSUME Inv,
         \/ \E c \in Target : PickTarget(c)
         \/ UntickTarget \/ ToggleSwapFile
         \/ \E s \in Size : SetSize(s) \/ PickPreset(s)
  PROVE  Inv'
<1> USE DEF Inv
<1>1. ASSUME NEW c \in Target, PickTarget(c) PROVE Inv'
  <2>1. /\ OnConfig /\ selected' = c /\ request' = None /\ UNCHANGED size
        /\ widgets' = [widgets EXCEPT !.radio = c, !.toggle = FALSE,
                                      !.nextConfig = CanContinue(c, None)]
    BY <1>1 DEF PickTarget
  <2>2. c \in Maybe(Target) /\ None \in Maybe(Size) /\ c # None
    BY ChoiceFacts DEF Maybe
  <2>3. CanContinue(c, None) \in BOOLEAN
    BY <2>2, CanContinueFacts
  <2>4. Chosen'
    BY <2>1, <2>2 DEF Chosen, Selection
  <2> QED BY <2>1, <2>2, <2>3, <2>4, ConfigStep DEF TypeOK, Widgets
<1>2. ASSUME UntickTarget PROVE Inv'
  <2>1. /\ OnConfig /\ UNCHANGED <<selected, request, size>>
        /\ widgets' = [widgets EXCEPT !.radio = None]
    BY <1>2 DEF UntickTarget, choiceVars
  <2>2. widgets' \in Widgets /\ widgets'.nextConfig = widgets.nextConfig
    BY <2>1 DEF TypeOK, Widgets, Maybe
  <2>3. Chosen'
    BY <2>1, <2>2 DEF Chosen, Selection
  <2> QED BY <2>1, <2>2, <2>3, ConfigStep DEF TypeOK, Widgets
<1>3. ASSUME ToggleSwapFile PROVE Inv'
  <2>1. /\ OnConfig
        /\ widgets' = [widgets EXCEPT !.toggle = ~widgets.toggle,
                                      !.nextConfig = CanContinue(selected', request')]
        /\ \/ selected' = None /\ size' = DefaultSize /\ request' = DefaultSize
           \/ request' = None /\ UNCHANGED <<selected, size>>
    BY <1>3 DEF ToggleSwapFile
  <2>2. selected' \in Maybe(Target) /\ request' \in Maybe(Size) /\ size' \in Size \cup {0}
    BY <2>1, SizeAssumption DEF TypeOK, Maybe, DefaultSize
  <2>3. CanContinue(selected', request') \in BOOLEAN
        /\ (CanContinue(selected', request') => selected' # None \/ request' # None)
    BY <2>2, CanContinueFacts
  <2>4. widgets.toggle \in BOOLEAN
    BY DEF TypeOK, Widgets
  <2>5. widgets' \in Widgets /\ (widgets'.nextConfig <=> CanContinue(selected', request'))
    BY <2>1, <2>3, <2>4 DEF TypeOK, Widgets
  <2>6. Chosen'
    BY <2>3, <2>5 DEF Chosen, Selection
  <2> QED BY <2>1, <2>2, <2>5, <2>6, ConfigStep DEF TypeOK, Widgets
<1>4. ASSUME NEW s \in Size, SetSize(s) PROVE Inv'
  <2>1. /\ OnConfig /\ size' = s /\ UNCHANGED selected
        /\ \/ /\ request' = s
              /\ widgets' = [widgets EXCEPT !.nextConfig = CanContinue(selected, s)]
           \/ UNCHANGED <<request, widgets>>
    BY <1>4 DEF SetSize
  <2>2. s \in Maybe(Size) /\ s # None /\ selected \in Maybe(Target)
    BY ChoiceFacts DEF Maybe, TypeOK
  <2>3. CanContinue(selected, s) \in BOOLEAN
    BY <2>2, CanContinueFacts
  <2>4. Chosen'
    BY <2>1, <2>2 DEF Chosen, Selection
  <2> QED BY <2>1, <2>2, <2>3, <2>4, ConfigStep DEF TypeOK, Widgets
<1>5. ASSUME NEW s \in Size, PickPreset(s) PROVE Inv'
  <2>1. /\ OnConfig /\ size' = s /\ request' = s
        /\ selected' = IF widgets.toggle THEN selected ELSE None
        /\ widgets' = [widgets EXCEPT !.toggle = TRUE, !.nextConfig = CanContinue(selected', s)]
    BY <1>5 DEF PickPreset
  <2>2. s \in Maybe(Size) /\ s # None /\ selected' \in Maybe(Target)
    BY <2>1, ChoiceFacts DEF Maybe, TypeOK
  <2>3. CanContinue(selected', s) \in BOOLEAN
    BY <2>2, CanContinueFacts
  <2>4. Chosen'
    BY <2>1, <2>2 DEF Chosen, Selection
  <2> QED BY <2>1, <2>2, <2>3, <2>4, ConfigStep DEF TypeOK, Widgets
<1> QED BY <1>1, <1>2, <1>3, <1>4, <1>5

-----------------------------------------------------------------------------
(* Threads *)

(* A step that changes one thread and neither the pages nor the queue. *)
LEMMA SpawnFacts ==
  ASSUME Inv, NEW kind \in {"detect", "verify", "apply"}, Spawn(kind)
  PROVE  /\ threads' \in [Thread -> Task] /\ Tasks'
         /\ \A t \in Thread : threads'[t].found # None => last # None
         /\ kind # "apply" => Applying' = Applying
         /\ kind = "apply" => \E t \in Thread : Applying' = Applying \cup {t}
<1> USE DEF Inv, TypeOK
<1>1. PICK t \in Thread : /\ threads[t] = NoTask
                          /\ threads' = [threads EXCEPT ![t].kind = kind, ![t].at = "start"]
  BY DEF Spawn, Free
<1> DEFINE j == [threads[t] EXCEPT !.kind = kind, !.at = "start"]
<1>2. /\ j \in Task /\ j.kind = kind /\ j.at = "start" /\ j.found = None
      /\ threads[t].kind = "none"
  BY <1>1, ChoiceFacts DEF Task, NoTask
<1>3. threads' = [threads EXCEPT ![t] = j]
  BY <1>1
<1> HIDE DEF j
<1>4. threads' \in [Thread -> Task] /\ Tasks'
  BY <1>2, <1>3 DEF Tasks
<1>5. \A u \in Thread : threads'[u].found # None => last # None
  BY <1>2, <1>3 DEF Probed
<1>6. Applying' = IF kind = "apply" THEN Applying \cup {t} ELSE Applying
  BY <1>2, <1>3 DEF Applying
<1> QED BY <1>4, <1>5, <1>6

(* Refresh, the verification button and the posted start of a detection:   *)
(* buttons go off, a thread starts, nothing else moves but the queue.      *)
LEMMA ProbeStarts ==
  ASSUME Inv, NEW kind \in {"detect", "verify"}, Spawn(kind),
         widgets' = [widgets EXCEPT !.nextCheck = FALSE] \/ widgets' = [widgets EXCEPT !.verify = FALSE],
         asked' \in [probes : 0..MaxProbes, applies : 0..MaxApplies],
         UNCHANGED <<page, built, info, profile, selected, request, size, plan, last,
                     running, ticked, succeeded>>,
         idle' \in Seq(Callback), Reported' = {} <=> Reported = {},
         \A i, k \in Reported' : i = k,
         \A i \in DOMAIN idle' : idle'[i].found # None => last # None
  PROVE  Inv'
<1> USE DEF Inv
<1>1. /\ widgets' \in Widgets
      /\ widgets'.apply = widgets.apply /\ widgets'.finish = widgets.finish
      /\ widgets'.nextPlan = widgets.nextPlan /\ widgets'.nextConfig = widgets.nextConfig
      /\ widgets'.nextCheck => widgets.nextCheck
  BY DEF TypeOK, Widgets
<1>2. /\ threads' \in [Thread -> Task] /\ Tasks' /\ Applying' = Applying
      /\ \A t \in Thread : threads'[t].found # None => last # None
  BY SpawnFacts
<1>3. Selection' = Selection
  BY DEF Selection
<1>4. TypeOK'
  BY <1>1, <1>2 DEF TypeOK
<1>5. Order' /\ Chosen' /\ Completed' /\ DetectedBeforeConfig' /\ Detected' /\ PlanPageHasPlan'
  BY <1>1, <1>3 DEF Order, Chosen, Completed, DetectedBeforeConfig, Detected, PlanPageHasPlan
<1>6. Probed'
  BY <1>2, <1>3 DEF Probed
<1>7. Reviewed' /\ Flight'
  BY <1>1, <1>2 DEF Reviewed, Engaged, Flight
<1> QED BY <1>2, <1>4, <1>5, <1>6, <1>7

LEMMA ProbeButtons ==
  ASSUME Inv, Refresh \/ StartVerify PROVE Inv'
<1> USE DEF Inv
<1>1. /\ UNCHANGED <<page, built, info, profile, selected, request, size, plan, last,
                     running, idle, ticked, succeeded>>
      /\ asked.probes < MaxProbes /\ asked' = [asked EXCEPT !.probes = @ + 1]
      /\ \/ Spawn("detect") /\ widgets' = [widgets EXCEPT !.nextCheck = FALSE]
         \/ Spawn("verify") /\ widgets' = [widgets EXCEPT !.verify = FALSE]
  BY DEF Refresh, StartVerify, StartDetect, pageVars, choiceVars
<1>2. asked' \in [probes : 0..MaxProbes, applies : 0..MaxApplies]
  BY <1>1, BoundAssumption DEF TypeOK
<1>3. Reported' = Reported
  BY <1>1 DEF Reported
<1>4. /\ idle' \in Seq(Callback) /\ \A i, k \in Reported' : i = k
      /\ \A i \in DOMAIN idle' : idle'[i].found # None => last # None
  BY <1>1, <1>3 DEF TypeOK, Flight, Probed
<1>5. CASE Spawn("detect") /\ widgets' = [widgets EXCEPT !.nextCheck = FALSE]
  BY <1>1, <1>2, <1>3, <1>4, <1>5, ProbeStarts
<1>6. CASE Spawn("verify") /\ widgets' = [widgets EXCEPT !.verify = FALSE]
  BY <1>1, <1>2, <1>3, <1>4, <1>6, ProbeStarts
<1> QED BY <1>1, <1>5, <1>6

LEMMA ApplyButtons ==
  ASSUME Inv, ToggleConfirm \/ ToggleDry \/ ExportReport PROVE Inv'
<1> USE DEF Inv
<1>1. /\ UNCHANGED <<page, built, info, profile, selected, request, size, plan, running,
                     threads, idle, asked, succeeded>>
      /\ ticked \in BOOLEAN /\ ticked' \in BOOLEAN /\ (ticked => ticked')
      /\ last' \in Maybe(Profiles) /\ (last # None => last' # None)
      /\ widgets' \in Widgets
      /\ widgets'.finish = widgets.finish /\ widgets'.nextPlan = widgets.nextPlan
      /\ widgets'.nextConfig = widgets.nextConfig /\ widgets'.nextCheck = widgets.nextCheck
      /\ widgets'.apply => widgets.apply \/ ("apply" \in built /\ ticked' /\ plan.ok)
  <2>1. CASE ToggleConfirm
    <3>1. /\ widgets.confirm \in BOOLEAN /\ plan.ok \in BOOLEAN
          /\ page = "apply" /\ page \in built
      BY <2>1 DEF TypeOK, Widgets, Plan, Order, ToggleConfirm, OnApply
    <3>2. widgets' = [widgets EXCEPT !.confirm = ~widgets.confirm,
                                     !.apply = ~widgets.confirm /\ plan.ok]
      BY <2>1 DEF ToggleConfirm
    <3>3. /\ widgets' \in Widgets
          /\ widgets'.finish = widgets.finish /\ widgets'.nextPlan = widgets.nextPlan
          /\ widgets'.nextConfig = widgets.nextConfig /\ widgets'.nextCheck = widgets.nextCheck
          /\ widgets'.apply => plan.ok
      BY <3>1, <3>2 DEF TypeOK, Widgets
    <3> QED BY <2>1, <3>1, <3>3 DEF ToggleConfirm, OnApply, pageVars, choiceVars, TypeOK
  <2>2. CASE ToggleDry
    <3>1. widgets.dry \in BOOLEAN
      BY DEF TypeOK, Widgets
    <3>2. widgets' = [widgets EXCEPT !.dry = ~widgets.dry]
      BY <2>2 DEF ToggleDry
    <3>3. /\ widgets' \in Widgets
          /\ widgets'.finish = widgets.finish /\ widgets'.nextPlan = widgets.nextPlan
          /\ widgets'.nextConfig = widgets.nextConfig /\ widgets'.nextCheck = widgets.nextCheck
          /\ widgets'.apply = widgets.apply
      BY <3>1, <3>2 DEF TypeOK, Widgets
    <3> QED BY <2>2, <3>3 DEF ToggleDry, OnApply, pageVars, choiceVars, TypeOK
  <2>3. CASE ExportReport
    BY <2>3, ProfileFacts DEF ExportReport, pageVars, choiceVars, askVars, TypeOK, Maybe
  <2> QED BY <2>1, <2>2, <2>3
<1>2. Selection' = Selection /\ Applying' = Applying /\ Reported' = Reported
  BY <1>1 DEF Selection, Applying, Reported
<1>3. TypeOK'
  BY <1>1 DEF TypeOK
<1>4. /\ Tasks' /\ Order' /\ Chosen' /\ Completed' /\ DetectedBeforeConfig' /\ Detected'
      /\ PlanPageHasPlan' /\ Probed'
  BY <1>1, <1>2 DEF Tasks, Order, Chosen, Completed, DetectedBeforeConfig, Detected, PlanPageHasPlan, Probed
<1>5. Reviewed' /\ Flight'
  BY <1>1, <1>2 DEF Reviewed, Engaged, Flight
<1> QED BY <1>3, <1>4, <1>5

LEMMA StartApplyStep ==
  ASSUME Inv, StartApply PROVE Inv'
<1> USE DEF Inv
<1>1. /\ UNCHANGED <<page, built, info, profile, selected, request, size, plan, last,
                     idle, ticked, succeeded>>
      /\ widgets.apply /\ ~running /\ running' = TRUE /\ Spawn("apply")
      /\ widgets' = [widgets EXCEPT !.apply = FALSE, !.finish = FALSE]
      /\ asked.applies < MaxApplies /\ asked' = [asked EXCEPT !.applies = @ + 1]
  BY DEF StartApply, OnApply, pageVars, choiceVars
<1>2. /\ threads' \in [Thread -> Task] /\ Tasks'
      /\ \A t \in Thread : threads'[t].found # None => last # None
      /\ \E t \in Thread : Applying' = Applying \cup {t}
  BY <1>1, SpawnFacts
<1>3. Applying = {} /\ Reported = {} /\ Reported' = Reported
  BY <1>1 DEF Flight, Reported
<1>4. asked' \in [probes : 0..MaxProbes, applies : 0..MaxApplies]
  BY <1>1, BoundAssumption DEF TypeOK
<1>5. /\ widgets' \in Widgets /\ ~widgets'.finish /\ ~widgets'.apply
      /\ widgets'.nextPlan = widgets.nextPlan
      /\ widgets'.nextConfig = widgets.nextConfig /\ widgets'.nextCheck = widgets.nextCheck
  BY <1>1 DEF TypeOK, Widgets
<1>6. TypeOK'
  BY <1>1, <1>2, <1>4, <1>5 DEF TypeOK
<1>7. Selection' = Selection
  BY <1>1 DEF Selection
<1>8. /\ Order' /\ Chosen' /\ Completed' /\ DetectedBeforeConfig' /\ Detected' /\ PlanPageHasPlan' /\ Probed'
  BY <1>1, <1>2, <1>5, <1>7
  DEF Order, Chosen, Completed, DetectedBeforeConfig, Detected, PlanPageHasPlan, Probed
<1>9. Reviewed'
  BY <1>1 DEF Reviewed, Engaged
<1>10. Flight'
  BY <1>1, <1>2, <1>3 DEF Flight
<1> QED BY <1>2, <1>6, <1>8, <1>9, <1>10

(* A thread goes on without reporting yet. *)
LEMMA ThreadMove ==
  ASSUME Inv, NEW t \in Thread, NEW j \in Task,
         threads' = [threads EXCEPT ![t] = j],
         j.kind = threads[t].kind, j.found # None => last' # None,
         j.at \in {"plan", "helper"} => j.kind = "apply",
         j.at = "post" => j.kind # "none",
         last' \in Maybe(Profiles), last # None => last' # None,
         UNCHANGED <<page, built, info, profile, selected, request, size, plan, running,
                     widgets, idle, asked, ticked, succeeded>>
  PROVE  Inv'
<1> USE DEF Inv
<1>1. Applying' = Applying /\ Reported' = Reported /\ Selection' = Selection
  BY DEF TypeOK, Applying, Reported, Selection
<1>2. TypeOK' /\ Tasks'
  BY DEF TypeOK, Tasks
<1>3. Probed'
  BY <1>1 DEF TypeOK, Probed
<1>4. /\ Order' /\ Chosen' /\ Completed' /\ DetectedBeforeConfig' /\ Detected' /\ PlanPageHasPlan'
  BY <1>1 DEF Order, Chosen, Completed, DetectedBeforeConfig, Detected, PlanPageHasPlan
<1>5. Reviewed' /\ Flight'
  BY <1>1 DEF Reviewed, Engaged, Flight
<1> QED BY <1>2, <1>3, <1>4, <1>5

LEMMA ThreadMoves ==
  ASSUME Inv, NEW t \in Thread, Probe(t) \/ ReadSelection(t) \/ PlanAgain(t) \/ HelperEnds(t)
  PROVE  Inv'
<1> USE DEF Inv
<1>1. /\ threads[t] \in Task /\ threads[t].kind # "none" /\ last \in Maybe(Profiles)
      /\ threads \in [Thread -> Task]
  BY DEF Probe, ReadSelection, PlanAgain, HelperEnds, Worker, TypeOK
<1>2. ASSUME Probe(t) PROVE Inv'
  <2>1. PICK p \in Maybe(Profiles) :
          /\ threads' = [threads EXCEPT ![t].found = p, ![t].at = "post"]
          /\ last' = IF p = None THEN last ELSE p
    BY <1>2 DEF Probe
  <2>2. UNCHANGED <<page, built, info, profile, selected, request, size, plan, running,
                    widgets, idle, asked, ticked, succeeded>>
    BY <1>2 DEF Probe, pageVars, choiceVars, askVars
  <2> DEFINE j == [threads[t] EXCEPT !.found = p, !.at = "post"]
  <2>3. j \in Task /\ j.kind = threads[t].kind /\ j.at = "post" /\ j.found = p
    BY <1>1 DEF Task
  <2>4. threads' = [threads EXCEPT ![t] = j]
    BY <2>1, <1>1
  <2>5. last' \in Maybe(Profiles) /\ (last # None => last' # None) /\ (p # None => last' # None)
    BY <2>1, <1>1
  <2>6. /\ j.found # None => last' # None
        /\ j.at \in {"plan", "helper"} => j.kind = "apply"
        /\ j.at = "post" => j.kind # "none"
    BY <1>1, <2>3, <2>5
  <2> HIDE DEF j
  <2> QED BY <2>2, <2>3, <2>4, <2>5, <2>6, ThreadMove
<1>3. ASSUME ReadSelection(t) PROVE Inv'
  <2>1. /\ threads' = [threads EXCEPT ![t].choice = Selection, ![t].dry = widgets.dry,
                                      ![t].at = "plan"]
        /\ threads[t].kind = "apply"
        /\ UNCHANGED <<page, built, info, profile, selected, request, size, plan, running,
                       last, widgets, idle, asked, ticked, succeeded>>
    BY <1>3 DEF ReadSelection, Worker, pageVars, choiceVars, askVars
  <2>2. Selection \in Maybe(Choice) /\ widgets.dry \in BOOLEAN
    BY DEF Selection, TypeOK, Maybe, Choice, Widgets
  <2> DEFINE j == [threads[t] EXCEPT !.choice = Selection, !.dry = widgets.dry, !.at = "plan"]
  <2>3. /\ j \in Task /\ j.kind = threads[t].kind /\ j.at = "plan" /\ j.found = threads[t].found
    BY <1>1, <2>2 DEF Task
  <2>4. threads' = [threads EXCEPT ![t] = j]
    BY <2>1, <1>1
  <2>5. j.found # None => last' # None
    BY <2>1, <2>3 DEF Probed
  <2> HIDE DEF j
  <2>6. /\ j.at \in {"plan", "helper"} => j.kind = "apply"
        /\ j.at = "post" => j.kind # "none"
        /\ last' \in Maybe(Profiles) /\ (last # None => last' # None)
    BY <1>1, <2>1, <2>3
  <2> QED BY <2>1, <2>3, <2>4, <2>5, <2>6, ThreadMove
<1>4. ASSUME NEW ok \in BOOLEAN, Finished(t, ok), threads[t].kind = "apply",
             UNCHANGED <<page, built, info, profile, selected, request, size, plan, running,
                         last, widgets, idle, asked, ticked, succeeded>>
      PROVE  Inv'
  <2> DEFINE j == [NoTask EXCEPT !.kind = "apply", !.at = "post", !.ok = ok]
  <2>1. j \in Task /\ j.kind = "apply" /\ j.at = "post" /\ j.found = None
    BY ChoiceFacts DEF Task, NoTask
  <2>2. threads' = [threads EXCEPT ![t] = j]
    BY <1>4 DEF Finished
  <2> HIDE DEF j
  <2>3. /\ j.found # None => last' # None
        /\ j.at \in {"plan", "helper"} => j.kind = "apply"
        /\ j.at = "post" => j.kind # "none"
        /\ j.kind = threads[t].kind
        /\ last' \in Maybe(Profiles) /\ (last # None => last' # None)
    BY <1>1, <1>4, <2>1
  <2> QED BY <1>4, <2>1, <2>2, <2>3, ThreadMove
<1>5. ASSUME PlanAgain(t) PROVE Inv'
  <2> DEFINE p == PlanFor(last, threads[t].choice)
  <2>1. /\ threads[t].kind = "apply" /\ threads[t].at = "plan"
        /\ UNCHANGED <<page, built, info, profile, selected, request, size, plan, running,
                       last, widgets, idle, asked, ticked, succeeded>>
        /\ \/ /\ p.choice # None /\ p.ok
              /\ threads' = [threads EXCEPT ![t].choice = p.choice, ![t].at = "helper"]
           \/ Finished(t, p.choice # None /\ p.ok)
    BY <1>5 DEF PlanAgain, Worker, pageVars, choiceVars, askVars
  <2>2. last \in Profiles
    <3>1. t \in Applying
      BY <2>1 DEF Applying
    <3>2. "plan" \in built
      BY <3>1 DEF Reviewed, Engaged, Order
    <3> QED BY <1>1, <3>2 DEF Probed, Maybe
  <2>3. p \in Plan
    BY <1>1, <2>2, PlanType DEF Task
  <2> HIDE DEF p
  <2>4. CASE threads' = [threads EXCEPT ![t].choice = p.choice, ![t].at = "helper"]
    <3> DEFINE j == [threads[t] EXCEPT !.choice = p.choice, !.at = "helper"]
    <3>1. /\ j \in Task /\ j.kind = threads[t].kind /\ j.at = "helper"
          /\ j.found = threads[t].found
      BY <1>1, <2>3 DEF Task, Plan
    <3>2. threads' = [threads EXCEPT ![t] = j]
      BY <2>4, <1>1
    <3>3. j.found # None => last' # None
      BY <2>1, <3>1 DEF Probed
    <3> HIDE DEF j
    <3> QED BY <1>1, <2>1, <3>1, <3>2, <3>3, ThreadMove
  <2>5. CASE Finished(t, p.choice # None /\ p.ok)
    <3>1. (p.choice # None /\ p.ok) \in BOOLEAN
      OBVIOUS
    <3> QED BY <1>4, <2>1, <2>5, <3>1
  <2> QED BY <2>1, <2>4, <2>5
<1>6. ASSUME HelperEnds(t) PROVE Inv'
  <2>1. PICK ok \in BOOLEAN : Finished(t, ok)
    BY <1>6 DEF HelperEnds
  <2>2. /\ threads[t].kind = "apply"
        /\ UNCHANGED <<page, built, info, profile, selected, request, size, plan, running,
                       last, widgets, idle, asked, ticked, succeeded>>
    BY <1>6 DEF HelperEnds, Worker, pageVars, choiceVars, askVars
  <2> QED BY <1>4, <2>1, <2>2
<1> QED BY <1>2, <1>3, <1>5, <1>6
(* A thread posts its result and ends. *)
LEMMA PostResultStep ==
  ASSUME Inv, NEW t \in Thread, PostResult(t) PROVE Inv'
<1> USE DEF Inv
<1>1. /\ threads[t] \in Task /\ threads[t].kind # "none" /\ threads[t].at = "post"
      /\ threads \in [Thread -> Task] /\ idle \in Seq(Callback)
      /\ threads' = [threads EXCEPT ![t] = NoTask]
      /\ UNCHANGED <<page, built, info, profile, selected, request, size, plan, last, running,
                     widgets, asked, ticked, succeeded>>
  BY DEF PostResult, TypeOK, Tasks, pageVars, choiceVars, askVars
<1> DEFINE c == [kind |-> threads[t].kind, found |-> threads[t].found, ok |-> threads[t].ok]
<1>2. c \in Callback /\ c.kind = threads[t].kind /\ c.found = threads[t].found
  BY <1>1 DEF Task, Callback
<1>3. idle' = Append(idle, c)
  BY DEF PostResult, Post
<1> HIDE DEF c
<1>4. PICK n \in DOMAIN idle' :
        /\ n \notin DOMAIN idle /\ idle'[n] = c
        /\ \A i \in DOMAIN idle' : i = n \/ (i \in DOMAIN idle /\ idle'[i] = idle[i])
        /\ \A i \in DOMAIN idle : i \in DOMAIN idle' /\ idle'[i] = idle[i]
        /\ idle' \in Seq(Callback)
  BY <1>1, <1>2, <1>3, AppendFacts
<1>5. Selection' = Selection /\ Applying' = Applying \ {t}
  BY <1>1, ChoiceFacts DEF Selection, Applying
<1>6. Reported' = IF threads[t].kind = "apply" THEN Reported \cup {n} ELSE Reported
  BY <1>2, <1>4 DEF Reported
<1>7. threads[t].kind = "apply" <=> t \in Applying
  BY DEF Applying
<1>8. TypeOK' /\ Tasks'
  BY <1>1, <1>4, ChoiceFacts DEF TypeOK, Tasks
<1>9. c.found # None => last' # None
  BY <1>1, <1>2 DEF Probed
<1>10. Probed'
  <2>1. \A u \in Thread : threads'[u].found # None => last' # None
    BY <1>1 DEF Probed, NoTask
  <2>2. \A i \in DOMAIN idle' : idle'[i].found # None => last' # None
    BY <1>1, <1>4, <1>9 DEF Probed
  <2> QED BY <1>1, <1>5, <2>1, <2>2 DEF Probed
<1>11. Order' /\ Chosen' /\ Completed' /\ DetectedBeforeConfig' /\ Detected' /\ PlanPageHasPlan'
  BY <1>1, <1>5 DEF Order, Chosen, Completed, DetectedBeforeConfig, Detected, PlanPageHasPlan
<1>12. Reviewed'
  BY <1>1, <1>5, <1>6, <1>7 DEF Reviewed, Engaged
<1>13. Flight'
  BY <1>1, <1>5, <1>6, <1>7 DEF Flight
<1> QED BY <1>8, <1>10, <1>11, <1>12, <1>13

-----------------------------------------------------------------------------
(* The idle queue *)

(* What taking the first callback leaves. *)
LEMMA QueueFacts ==
  ASSUME Inv, idle # <<>>, idle' = Tail(idle)
  PROVE  /\ idle' \in Seq(Callback) /\ Head(idle) \in Callback
         /\ Head(idle).found # None => last # None
         /\ \A i \in DOMAIN idle' : idle'[i].found # None => last # None
         /\ \A i, k \in Reported' : i = k
         /\ Head(idle).kind # "apply" => (Reported' = {} <=> Reported = {})
         /\ Head(idle).kind = "apply" => Reported # {} /\ Reported' = {}
<1> USE DEF Inv
<1>1. /\ idle' \in Seq(Callback) /\ Head(idle) \in Callback
      /\ 1 \in DOMAIN idle /\ Head(idle) = idle[1]
      /\ \A i \in DOMAIN idle' : i \in Nat /\ i # 0 /\ i + 1 \in DOMAIN idle /\ idle'[i] = idle[i + 1]
      /\ \A i \in DOMAIN idle : i = 1 \/ (i - 1 \in DOMAIN idle' /\ idle'[i - 1] = idle[i])
  BY TailFacts DEF TypeOK
<1>2. \A i \in Reported' : i \in Nat /\ i # 0 /\ i + 1 \in Reported
  BY <1>1 DEF Reported
<1>3. \A i \in Reported : i = 1 \/ i - 1 \in Reported'
  BY <1>1 DEF Reported
<1>4. 1 \in Reported <=> Head(idle).kind = "apply"
  BY <1>1 DEF Reported
<1>5. \A i, k \in Reported : i = k
  BY DEF Flight
<1>6. \A i, k \in Reported' : i = k
  BY <1>2, <1>5
<1>7. Head(idle).kind # "apply" => (Reported' = {} <=> Reported = {})
  BY <1>2, <1>3, <1>4
<1>8. Head(idle).kind = "apply" => Reported # {} /\ Reported' = {}
  BY <1>2, <1>4, <1>5
<1>9. /\ Head(idle).found # None => last # None
      /\ \A i \in DOMAIN idle' : idle'[i].found # None => last # None
  BY <1>1 DEF Probed
<1> QED BY <1>1, <1>6, <1>7, <1>8, <1>9
(* What every callback leaves to show, once its own part is known. *)
LEMMA CallbackStep ==
  ASSUME Inv, idle # <<>>, idle' = Tail(idle),
         UNCHANGED <<page, built, last, plan, threads, asked, ticked>>,
         info' \in Maybe(Profiles), info' # None => last # None, profile' \in Maybe(Profiles),
         selected' \in Maybe(Target), request' \in Maybe(Size), size' \in Size \cup {0},
         profile # None => profile' # None,
         info' # None \/ Selection' # None => profile' # None,
         Selection' # None => last # None, Selection # None => Selection' # None,
         running' \in BOOLEAN, succeeded' \in BOOLEAN, succeeded => succeeded',
         widgets' \in Widgets, widgets'.nextPlan = widgets.nextPlan,
         widgets'.nextConfig = widgets.nextConfig,
         widgets'.nextCheck => info' # None /\ info'.supported,
         widgets'.finish => widgets.finish \/ succeeded',
         widgets'.apply => Engaged,
         IF Head(idle).kind = "apply" THEN ~running' ELSE running' = running
  PROVE  Inv'
<1> USE DEF Inv
<1>1. /\ idle' \in Seq(Callback)
      /\ \A i \in DOMAIN idle' : idle'[i].found # None => last # None
      /\ \A i, k \in Reported' : i = k
      /\ Head(idle).kind # "apply" => (Reported' = {} <=> Reported = {})
      /\ Head(idle).kind = "apply" => Reported # {} /\ Reported' = {}
  BY QueueFacts
<1>2. Applying' = Applying
  BY DEF Applying
<1>3. TypeOK' /\ Tasks'
  BY <1>1 DEF TypeOK, Tasks
<1>4. Order' /\ PlanPageHasPlan' /\ DetectedBeforeConfig' /\ Detected'
  BY DEF Order, PlanPageHasPlan, DetectedBeforeConfig, Detected
<1>5. Completed'
  BY DEF Completed
<1>6. Chosen'
  BY DEF Chosen
<1>7. Probed'
  BY <1>1 DEF Probed
<1>8. Flight'
  BY <1>1, <1>2 DEF Flight
<1>9. Reviewed'
  BY <1>1, <1>2 DEF Reviewed, Engaged
<1> QED BY <1>3, <1>4, <1>5, <1>6, <1>7, <1>8, <1>9

LEMMA RunIdleStep ==
  ASSUME Inv, RunIdle PROVE Inv'
<1> USE DEF Inv
<1> DEFINE c == Head(idle)
<1>1. /\ idle # <<>> /\ idle' = Tail(idle)
      /\ UNCHANGED <<page, built, last, asked, ticked>>
  BY DEF RunIdle, pageVars
<1>2. /\ c \in Callback /\ c.found \in Maybe(Profiles) /\ (c.found # None => last # None)
      /\ c.ok \in BOOLEAN
  BY <1>1, QueueFacts DEF Callback
<1>3. /\ widgets \in Widgets /\ running \in BOOLEAN /\ succeeded \in BOOLEAN
      /\ info \in Maybe(Profiles) /\ profile \in Maybe(Profiles)
      /\ selected \in Maybe(Target) /\ request \in Maybe(Size) /\ size \in Size \cup {0}
  BY DEF TypeOK
<1>4. /\ widgets.finish => succeeded
      /\ widgets.nextCheck => info # None /\ info.supported
      /\ info # None \/ Selection # None => last # None
      /\ info # None \/ Selection # None => profile # None
      /\ widgets.apply => Engaged
  BY DEF Completed, DetectedBeforeConfig, Detected, Probed, Engaged
<1>5. ASSUME c.kind = "start-detect", StartDetect,
             UNCHANGED <<info, profile, choiceVars, plan, running, succeeded>>
      PROVE  Inv'
  <2>1. /\ Spawn("detect") /\ widgets' = [widgets EXCEPT !.nextCheck = FALSE]
        /\ UNCHANGED <<info, profile, selected, request, size, plan, running, succeeded>>
    BY <1>5 DEF StartDetect, choiceVars
  <2>2. /\ idle' \in Seq(Callback) /\ \A i, k \in Reported' : i = k
        /\ \A i \in DOMAIN idle' : idle'[i].found # None => last # None
        /\ Reported' = {} <=> Reported = {}
    BY <1>1, <1>5, QueueFacts
  <2>3. asked' \in [probes : 0..MaxProbes, applies : 0..MaxApplies]
    BY <1>1 DEF TypeOK
  <2> QED BY <1>1, <2>1, <2>2, <2>3, ProbeStarts
<1>6. ASSUME c.kind = "detect", DetectDone(c.found) PROVE Inv'
  <2> DEFINE p == c.found
  <2>1. /\ info' = p /\ UNCHANGED <<plan, running, threads, succeeded>>
    BY <1>6 DEF DetectDone
  <2>2. CASE p = None
    <3>1. /\ widgets' = [widgets EXCEPT !.nextCheck = FALSE]
          /\ UNCHANGED <<profile, selected, request, size>>
      BY <1>6, <2>2 DEF DetectDone, choiceVars
    <3>2. /\ widgets' \in Widgets /\ widgets'.nextPlan = widgets.nextPlan
          /\ widgets'.nextConfig = widgets.nextConfig /\ ~widgets'.nextCheck
          /\ widgets'.finish = widgets.finish /\ widgets'.apply = widgets.apply
      BY <1>3, <3>1 DEF Widgets
    <3>3. Selection' = Selection
      BY <3>1 DEF Selection
    <3> QED BY <1>1, <1>2, <1>3, <1>4, <1>6, <2>1, <2>2, <3>1, <3>2, <3>3, CallbackStep
  <2>3. CASE p # None
    <3>1. p \in Profiles /\ p.supported \in BOOLEAN /\ Recommended(p) \in Maybe(Target)
      BY <1>2, <2>3, ProfileFacts DEF Maybe
    <3>2. /\ profile' = p /\ selected' = Recommended(p)
          /\ request' = IF Recommended(p) = None THEN Suggested ELSE None
          /\ size' = IF Recommended(p) = None THEN Suggested ELSE size
          /\ widgets' = [widgets EXCEPT !.nextCheck = p.supported]
      BY <1>6, <2>3 DEF DetectDone
    <3>3. /\ widgets' \in Widgets /\ widgets'.nextPlan = widgets.nextPlan
          /\ widgets'.nextConfig = widgets.nextConfig /\ widgets'.nextCheck = p.supported
          /\ widgets'.finish = widgets.finish /\ widgets'.apply = widgets.apply
      BY <1>3, <3>1, <3>2 DEF Widgets
    <3>4. /\ request' \in Maybe(Size) /\ size' \in Size \cup {0} /\ Selection' # None
      BY <1>3, <3>1, <3>2, SizeAssumption, ChoiceFacts DEF Selection, Maybe
    <3>5. last # None /\ info' # None /\ info'.supported = p.supported /\ profile' # None
          /\ info' \in Maybe(Profiles) /\ profile' \in Maybe(Profiles)
          /\ selected' \in Maybe(Target)
      BY <1>2, <2>1, <2>3, <3>1, <3>2
    <3> QED BY <1>1, <1>3, <1>4, <1>6, <2>1, <3>3, <3>4, <3>5, CallbackStep
  <2> QED BY <2>2, <2>3
<1>7. ASSUME c.kind = "verify", widgets' = [widgets EXCEPT !.verify = TRUE],
             UNCHANGED <<info, profile, choiceVars, plan, running, threads, succeeded>>
      PROVE  Inv'
  <2>1. UNCHANGED <<info, profile, selected, request, size, plan, running, threads, succeeded>>
    BY <1>7 DEF choiceVars
  <2>2. /\ widgets' \in Widgets /\ widgets'.nextPlan = widgets.nextPlan
        /\ widgets'.nextConfig = widgets.nextConfig /\ widgets'.nextCheck = widgets.nextCheck
        /\ widgets'.finish = widgets.finish /\ widgets'.apply = widgets.apply
    BY <1>3, <1>7 DEF Widgets
  <2>3. Selection' = Selection
    BY <2>1 DEF Selection
  <2> QED BY <1>1, <1>3, <1>4, <1>7, <2>1, <2>2, <2>3, CallbackStep
<1>8. ASSUME c.kind = "apply", ApplyDone(c.ok) PROVE Inv'
  <2>1. /\ running' = FALSE /\ succeeded' = (succeeded \/ c.ok)
        /\ UNCHANGED <<info, profile, selected, request, size, plan, threads>>
        /\ widgets' = IF c.ok THEN [widgets EXCEPT !.finish = TRUE]
                      ELSE [widgets EXCEPT !.apply = TRUE, !.finish = FALSE]
    BY <1>8 DEF ApplyDone, choiceVars
  <2>2. /\ widgets' \in Widgets /\ widgets'.nextPlan = widgets.nextPlan
        /\ widgets'.nextConfig = widgets.nextConfig /\ widgets'.nextCheck = widgets.nextCheck
        /\ widgets'.finish => c.ok
    BY <1>2, <1>3, <2>1 DEF Widgets
  <2>3. Selection' = Selection /\ succeeded' \in BOOLEAN /\ (c.ok => succeeded')
    BY <1>2, <1>3, <2>1 DEF Selection
  <2>4. Engaged
    BY <1>1, <1>8, QueueFacts DEF Engaged
  <2> QED BY <1>1, <1>3, <1>4, <1>8, <2>1, <2>2, <2>3, <2>4, CallbackStep
<1> QED BY <1>5, <1>6, <1>7, <1>8 DEF RunIdle

-----------------------------------------------------------------------------
(* The invariant is inductive *)

LEMMA NextInv ==
  ASSUME Inv, [Next]_vars PROVE Inv'
<1>1. CASE \E k \in Page : Sidebar(k)
  BY <1>1, SidebarOpens, ShowPageStep DEF Sidebar
<1>2. CASE Continue \/ Back
  BY <1>2, ButtonsOpen, ShowPageStep
<1>3. CASE Refresh \/ StartVerify
  BY <1>3, ProbeButtons
<1>4. CASE \/ \E c \in Target : PickTarget(c)
           \/ UntickTarget \/ ToggleSwapFile
           \/ \E s \in Size : SetSize(s) \/ PickPreset(s)
  BY <1>4, ConfigActions
<1>5. CASE ToggleConfirm \/ ToggleDry \/ ExportReport
  BY <1>5, ApplyButtons
<1>6. CASE StartApply
  BY <1>6, StartApplyStep
<1>7. CASE RunIdle
  BY <1>7, RunIdleStep
<1>8. CASE \E t \in Thread : ThreadStep(t)
  BY <1>8, ThreadMoves, PostResultStep DEF ThreadStep
<1>9. CASE UNCHANGED vars
  <2>1. UNCHANGED <<page, built, info, profile, selected, request, size, plan, last,
                    running, widgets, threads, idle, asked, ticked, succeeded>>
    BY <1>9 DEF vars
  <2>2. Selection' = Selection /\ Applying' = Applying /\ Reported' = Reported
    BY <2>1 DEF Selection, Applying, Reported
  <2>3. TypeOK' /\ Tasks' /\ Order' /\ Probed' /\ Chosen' /\ Completed'
    BY <2>1, <2>2 DEF Inv, TypeOK, Tasks, Order, Probed, Chosen, Completed
  <2>4. Reviewed' /\ Flight' /\ DetectedBeforeConfig' /\ Detected' /\ PlanPageHasPlan'
    BY <2>1, <2>2 DEF Inv, Reviewed, Engaged, Flight, DetectedBeforeConfig, Detected, PlanPageHasPlan
  <2> QED BY <2>3, <2>4 DEF Inv
<1> QED BY <1>1, <1>2, <1>3, <1>4, <1>5, <1>6, <1>7, <1>8, <1>9 DEF Next, User

(* The inductive invariant holds for every set of targets, sizes and       *)
(* machines, however many threads run and however often the user clicks.   *)
THEOREM WizardInvariant == Spec => []Inv
<1>1. Init => Inv
  BY InitInv
<1>2. Inv /\ [Next]_vars => Inv'
  BY NextInv
<1> QED BY <1>1, <1>2, PTL DEF Spec

(* The helper starts only from a plan that can be applied, on a page the   *)
(* user opened, with a box the user ticked (_apply_page, _start_apply).    *)
THEOREM ReviewCorrect == Spec => []ReviewBeforeHelper
<1>1. Inv => ReviewBeforeHelper
  BY DEF Inv, Tasks, Reviewed, Engaged, Applying, ReviewBeforeHelper
<1> QED BY <1>1, WizardInvariant, PTL

(* The last page opens only after an apply or a dry run ended well         *)
(* (_maybe_open, _apply_done).                                             *)
THEOREM FinishCorrect == Spec => []FinishAfterSuccess
<1>1. Inv => FinishAfterSuccess
  BY DEF Inv, Completed, FinishAfterSuccess
<1> QED BY <1>1, WizardInvariant, PTL

(* Pages, plans, workers and the queue of callbacks stay in their ranges,  *)
(* however long the window lives (WizardWindow.__init__).                  *)
THEOREM TypeCorrect == Spec => []TypeOK
<1>1. Inv => TypeOK
  BY DEF Inv
<1> QED BY <1>1, WizardInvariant, PTL

(* No page behind the System Check without a detection that ended well, and *)
(* no Continue but on a result that is shown and allows it (_maybe_open,   *)
(* _detect_done).                                                          *)
THEOREM DetectedCorrect == Spec => []DetectedBeforeConfig
<1>1. Inv => DetectedBeforeConfig
  BY DEF Inv
<1> QED BY <1>1, WizardInvariant, PTL

(* The page of planned modifications is built only with a plan             *)
(* (_render_plan).                                                         *)
THEOREM PlanPageCorrect == Spec => []PlanPageHasPlan
<1>1. Inv => PlanPageHasPlan
  BY DEF Inv
<1> QED BY <1>1, WizardInvariant, PTL

(* At most one apply is in flight, and _apply_running says whether one is. *)
THEOREM ApplyCorrect == Spec => []OneApplyAtATime
<1>1. ASSUME Inv PROVE OneApplyAtATime
  <2>1. /\ \A t, u \in Applying : t = u
        /\ \A i, j \in Reported : i = j
        /\ Applying = {} \/ Reported = {}
        /\ running <=> (Applying # {} \/ Reported # {})
    BY <1>1 DEF Inv, Flight
  <2>2. Cardinality(Applying) = IF Applying = {} THEN 0 ELSE 1
    <3>1. CASE Applying = {}
      BY <3>1, FS_EmptySet
    <3>2. ASSUME Applying # {} PROVE Cardinality(Applying) = 1
      <4>1. PICK t : Applying = {t}
        BY <2>1, <3>2
      <4> QED BY <4>1, FS_Singleton
    <3> QED BY <3>1, <3>2
  <2>3. Cardinality(Reported) = IF Reported = {} THEN 0 ELSE 1
    <3>1. CASE Reported = {}
      BY <3>1, FS_EmptySet
    <3>2. ASSUME Reported # {} PROVE Cardinality(Reported) = 1
      <4>1. PICK i : Reported = {i}
        BY <2>1, <3>2
      <4> QED BY <4>1, FS_Singleton
    <3> QED BY <3>1, <3>2
  <2>4. (Applying # {} \/ Reported # {}) => running
    BY <2>1
  <2> HIDE DEF Applying, Reported
  <2> QED BY <2>1, <2>2, <2>3, <2>4 DEF OneApplyAtATime
<1> QED BY <1>1, WizardInvariant, PTL
=============================================================================
