# Ubuntu Hibernate Wizard: models, checks and proofs

The wizard configures hibernation on an Ubuntu machine. An unprivileged GTK
program finds a swap to resume from, or plans a swap file of its own, and shows
what it would change; a helper, started as root through `pkexec`, changes it,
keeping a manifest from which every change can be rolled back. The modules here
model that program as it is in `src/ubuntu_hibernate_wizard/`; paths below are
relative to it. TLC checks the configurations (`tlc -config X.cfg M`), TLAPS the
modules that end in `Proofs` (`tlapm M.tla`). `PROJECT.json` gives, for every
definition, the lines it models, and for every checked property a plausible bug
that violates it.

## 1. The system

| Component | State it keeps | Operations | Talks to |
|---|---|---|---|
| One-shot helper, `backend/privileged_helper.py` 657-1046, and `cmd_rollback` 334-562 | `/etc/fstab`, the initramfs resume file, the GRUB fragment, `/swap.img` and its retained siblings, the initramfs, `grub.cfg`, the operation lock | apply to an existing target, apply with a swap-file request, roll back | the system's commands; manifests |
| Manifests and rollback planner, `core/rollback.py` | one `manifest.json` and copies of the files per backup | begin, record before / after a write, mark a status, plan a rollback | the helper |
| Persistent helper, `serve` 565-610, `cmd_submit_plan` to `_invalidate_plan` 137-220 | the submitted plan, the commands used up, the lock, an idle timer | list, preview, submit a plan, roll back, verify | the session client by JSON lines |
| Session client, `backend/session.py` | last profile and plan, the helper process | detect, build a plan, apply, roll back, export | wizard, helper |
| Wizard window, `ui/wizard_window.py` | page, built pages, selection, plan, `_apply_running`, buttons | navigation, selection, detect / verify / apply workers and their callbacks | session client |
| Classification, `services/swap_detector.py`, `encryption_detector.py`, `swap_target_model.py` | none | class of each swap, recommendation, blockers | probe, planner |
| Probe, `services/system_probe.py` | none | facts about swaps, resume settings, room | the system's commands |
| Planner, `services/hibernate_planner.py` | none | size suggestions, room needed, both plans, conflicts, generated texts | session client, helper |
| Guard, `cli.py` 140-300, `state/state_manager.py` | `state.json`, a notification marker | check for drift, notify | verify |
| Configuration text and resize journal, `core/system.py`, `core/grub.py` | the journal file | edit fstab, recover an interrupted resize | legacy commands |
| Gates E and F, `services/gate_*.py` | release evidence | run and record gates | maintainers |
| Parsers, log exporter, entry points, packaging | none | text in, text out | all |

**How they interact.** The wizard's threads call the session client; detection
probes without privilege and ends in a profile; a plan is built from the profile;
apply sends the plan as one JSON request to a new helper process, which probes
again as root, writes, and reports by events. Results come back to the GTK main
loop with `GLib.idle_add`. Helper processes share nothing but the disk: the
manifests, the managed files and, for rollback, the lock.

**What is hard.** The helper may stop between any two durable effects and the
user may retry; applies take no lock; what a manifest says, what is on disk and
what grub.cfg and the initramfs were built from can part; backups stack and can
be rolled back in any order; the operator edits files in between. In the wizard,
pages are built once and cached while detections and applies report in any order.
Between wizard and helper the machine changes, and what an unprivileged process
cannot read it borrows from the current configuration. `hazards` in
`PROJECT.json` lists these at their lines.

**What makes each part correct.**

- *Helper and manifests*: whatever was changed is recorded before it is changed;
  a rollback that says it is done has restored everything; no operation destroys
  what was not the wizard's; nothing is left stuck; completed means bootable;
  two rollbacks never interleave; every operation ends.
- *Wizard*: one apply at a time, only for an applicable plan that was confirmed
  and that is the one shown; no page behind the System Check before a check has
  ended well; every apply reports.
- *Detection and planning*: exactly the safe swaps are offered, one is
  recommended; what the helper writes is true of the machine at that moment;
  what the planner promises the helper keeps.
- *Persistent helper*: only a submitted plan runs, once; previews agree with
  executions; every request is answered, and with its own answer.
- *Guard*: every new drift is notified, once; verification says yes of nothing
  that would not resume.

## 2. Modules

| Module | Models | Uses |
|---|---|---|
| `RollbackPlan` | manifest data and the planner, as pure operators | |
| `Helper` | helper processes on the machine they change | `RollbackPlan` |
| `HelperProperties` | what they promise | `Helper` |
| `HelperProofs`, `OneHelperProofs`, `RestoredProofs`, `QuietProofs` | proofs, each on top of the one before: any helpers and what an apply records; one helper at a time; what the final statuses promise; what holds until the first fault | `HelperProperties` |
| `Wizard` | window, session client, its threads | |
| `WizardProperties`, `WizardProofs` | promises and proofs | `Wizard` |
| `SwapTargets` | classification and size arithmetic, as pure operators | |
| `SystemCheck` | probe, plan and live validation on a machine that changes | `SwapTargets` |
| `SystemCheckProperties`, `SystemCheckProofs` | promises, with the decision table restated, and proofs | `SystemCheck` |
| `ApprovedRollback` | abstract specification: approved rollbacks, one at a time | |
| `Session` | persistent and one-shot helpers, their clients, pipes and lock | `RollbackPlan` |
| `SessionProperties`, `SessionProofs` | promises and proofs, among them that `Session` implements `ApprovedRollback` | `Session`, `ApprovedRollback` |
| `Guard`, `GuardProperties`, `GuardProofs` | drift check and notifier, promises and proofs | |
| `MCHelper`, `MCWizard`, `MCSystemCheck`, `MCSession` | instances for TLC | |

The machines meet at narrow places. `Wizard` sees a helper run as a thread
at `"helper"` that succeeds or fails. `SystemCheck` decides *which* target the
helper accepts and writes, with every command succeeding; `Helper` takes a
target that is live and not in conflict, refuses it whenever it likes, and
models each write and each failure. `Session` sees a rollback as the steps of
`cmd_rollback` that move the manifest's status and the lock, `Helper` sees all
that the middle one of them (`Run`) does; an apply in `Session` is a backup that
begins, a manifest held in memory that it saves again and again, and a last
status, without the lock. `Guard` knows of verification whether it finds all well or which
errors it finds; `SystemCheck` says when. Definitions marked "wrong variant" are
plausible bugs that no specification uses; the mutants put them in place of the
definition that follows.

### Helper

A process is one `pkexec` call. Each action is one durable effect: saving a
manifest, replacing a file, finishing a command, so that `Crash` can come between
any two. `pc` names the place in `run_one_shot` or `cmd_rollback`; `job` is the
local state, with `mem` the process's own copy of the manifest (`save` writes
that copy, whatever is on disk). Files hold contents from a small set: absent,
the operator's text, a setting for the partition, for a swap file, with or
without the fstab entry. `swapAt`, `old` and `cur` say which file (`inode`) is at
`/swap.img`, retained as `.uhw-backup-<id>` and parked as
`.uhw-rollback-current-<id>`. `initrd` and `grubcfg` are the texts the generated
files were last built from, `cmdline` what the kernel was booted with. `base`
(the machine when a backup began), `foreign` (what others changed since), `raced`
(the edits of a file that no comparison of hashes can see) and `blind` (the backups
whose process was last told that a swap file in use is not) are history, read by
properties only.

Choices made:
- There is one swap path and a swap partition that is always usable.
- Hashes are compared as contents; a backup copy is the manifest's `before`.
  Nobody deletes backups, so `BACKUP_FILE_MISSING` is unreachable. The directory
  and first manifest of `begin` are one step.
- `_is_active_swap` and `_is_swap_active` may misread: a `swapon` that fails, or
  prints what cannot be parsed, passes for "not in use". `Reading` counts that as a
  fault; `InUse` is the truth, by which the kernel refuses commands.
- The operator edits at any moment. `RecordAfter` takes the hash of what is on disk,
  be it the apply's own text or one that has replaced it; a rollback compares hashes
  when it plans and not again.
- `Crash` also stands for a timeout of a command and any exception the code lets
  through, among them a manifest that `build_plan` refuses. Crashes, reboots,
  failed commands and misreadings share the budget `MaxFaults`.
- `ValidateTarget` and `CheckSwap` may always refuse: other blockers of the
  machine are not modelled there. An exhausted set of backup ids stands for
  `begin` failing.
- The planner's side-file branch is dead (`side_file_name` is never set) and left
  out, as are dry runs and previews, which change nothing.
- The safety snapshot that a rollback begins with is what the code makes of it:
  an empty manifest that stays `in-progress`.
- Directories made by an apply are planned for removal while they still hold the
  file, so `RemoveDir` happens only in a retried rollback, as in the code.

### Wizard

Every handler that changes the window's state is an action; `threads` are the
detect, verify and apply workers and the report export, step by step where they
read or write shared fields, `idle` is the queue of callbacks. `built` is the set
of pages built so far: a page keeps its widgets (`widgets`), as `_show_page`
does. `SetSize(s)` is any move of slider or spin button; `UntickTarget` covers
the lone check box. Targets that cannot be selected are not modelled, nor are
Help and About, icons, progress lines and the fake-system mode. `Suggested` is
the default size, so RAM is at most 64 GiB here (above it the page is not built,
section 5). `ticked` and `succeeded` are history.

### SystemCheck

A machine is a list of swaps with the facts the probe's commands give of each,
the RAM, the room, the resume settings of kernel and initramfs, and the size of
`/swap.img`. A swap keeps its place in the list when another is switched off, and a
new swap file takes the place of the old one: the order decides ties only.
`ProfileOf(m, root)` is the probe with and without privilege. `Told` is what the
tools say to each: without privilege `blkid` has the UUID of its cache (`cached`: the
right one, an old one or none), `dmsetup` says nothing, and a crypttab that is
`closed` counts as an empty one; its entry is found by the UUID (`named`) the caller
was told. `Mapped` is the map of a file: the offset of one that cannot be read is
borrowed from the settings in use. Sizes are counted in pages, because `swapon` shows a swap file
without its header page while the helper compares the file's own size.
`Recreate`, `Reformat`, `SwapOff` and `FillDisk` are other programs. One behaviour is one
pass from check to outcome, with as many checks and plans as the user wants
before the helper is started. `asOf`
(the machine at the last detection) is history. Uuids and offsets are small
numbers, 0 for a missing one; `ByPath` is a resume device not named by UUID.
The `has_swap_option` branch of the encryption detector cannot be reached
(`uses_random_key` covers it) and is left out, as are titles, reasons and
PARTUUIDs, which matter only where crypttab
names one.

`Verified` is `verify_json`: the recommended target compared with what the
running kernel and the initramfs are set to. The initramfs setting is searched
for the expected text, so `Begins(a, b)` is "the digits of `b` begin with those
of `a`". It is a predicate on a machine and a privilege, asked in every state.

### Session

`Client` is a program with a `HelperSession`. `Serve(c)` is the helper `_ensure`
starts for it, `Once(c)` the one-shot helper that `rollback()` starts after a
preview. `user[c]` is where the client stands in `request` or `rollback_cli`,
`inbox` and `outbox` are the two pipes, `plan` and `consumed` are
`plan_commands["rollback"]` (the only command a plan may name) and
`consumed_commands`, `work[p]` is the place in `cmd_rollback`. Choices made:

- `Respond` is the tail of `serve`: nobody reading means that `print` raises
  outside every handler, and the process ends by the `finally` that frees the
  lock. Inside `cmd_rollback` the same makes a progress line raise (`Raises`),
  the `finally` there runs, and the answer fails in turn.
- `IdleTimeout` and `IdleExit` are apart: the line may be written in between.
  The client then meets the end of the stream or a broken pipe.
- An apply (`BeginApply`, `ApplySaves`, `EndApply`) holds its manifest in memory and
  saves it whole, with the status it had, over whatever a rollback has saved
  meanwhile; one that dies just ends. Nothing of it is ordered by the lock.
  `overwritten` and `reached` are history: backups whose `rolled-back` an apply
  saved over, and backups that a rollback restored at least in part.
- What `rollback()` returns is all its client learns (`Outcome`): exit status 0
  is "completed", be the backup `rolled-back` or `rolled-back-partial`.
- `Read` takes the next line, as the code does, without comparing ids; the ids
  are in the model so that `AnswersAreTrue` can say that it does not matter.
- A new process starts with pipes of its own; what a dead one wrote is still
  read by a client that waits.
- `"read"` stands for requests that change nothing, plans that are rejected
  included. A refused polkit dialog is `KillServe` or `KillOnce`.
- A client sends a new request, or a confirmation, only when the last one has
  ended, as `request` blocks.

### Guard

`status` is `guard-status.json`, `marker` the hash of the drift last told of.
`held` is what the notifier has read: `Read`, `Send` and `Mark` are apart, since
the session may end or the timer may write in between. `Stamp` distinguishes two
consecutive checks. The drifting machine, the administrator, logins and boots
are the environment. `told`, `last` and `cut` are history.

## 3. What is checked

Passing runs:

| Run | What varies | What it shows |
|---|---|---|
| `helper_quiet` | up to 4 backups (safety snapshots included), every initial configuration, missing directories, both sizes, no faults | `RestoredSwap`, `RestoredInitramfs`, `PreexistingSwapKept`: through stacked applies rolled back in any order |
| `helper_faults` | up to 3 backups and 2 faults anywhere, misreadings of `swapon` among them, so that the retry of a failed rollback fails too | `TypeOK`, `Reversible`, `RestoredFiles`, `Retryable`, `ActiveSwapNotMoved`, `RolledBackIsFinal`, `CompletedIsBootable` |
| `helper_edits` | an operator's edit or deletion at any moment, during applies and rollbacks too, one fault, fairness | `OnlyOwnContentOverwritten`, `OperationsEnd` |
| `helper_concurrent` | two processes in every interleaving, 2 backups | `RollbackExclusive` |
| `wizard` | two machines, two threads, one probe and two applies, fairness | all of `WizardProperties` but `ReviewedIsApplied` |
| `system_check` | every combination of the facts of one partition and of one file, of what a user is told less than root (old or no UUID, closed crypttab, no device mapper), all resume settings, sets of swaps, files a page longer than a size that can be asked for, free space around every boundary; one change by others at any time | `DecisionTable`, `OneRecommended`, `WrittenIsLive`, `RefusedForAReason`, `PlannedFileFits`, `NewFileRefused`, `VerifiedResumes`, `AcceptedVerifies`, `TypeOK` |
| `session` | a client that submits plans and rolls back, another that previews and confirms; a backup whose apply begins, saves and ends at any moment, with any status; one process killed or one exception; either client gone at any moment | `LockMatchesWork`, `AnswersAreTrue`, `PreviewHolds`, `NotReopened`, `TypeOK`, and the refinement `ApprovedRollbacks` |
| `session_live` | the same with fewer requests, fairness | `RequestsAnswered`, and `ApprovedRollbacksEnd`: the refinement with its liveness |
| `guard` | two drifts, repairs, boots, sessions that end early, a status file that vanishes, the guard switched on and off, fairness | `NotToldTwice`, `DriftIsReported`, `TypeOK` |

**Bounds.** A rollback makes a backup of its own, so 3 ids allow an apply, a
rollback and a retry, or two applies and a rollback; 4 allow two applies rolled
back in either order. Two sizes are enough for *same* and *different*; two
faults for a failure and a failure of its repair. One edit reaches each file
at each moment; edits are texts without a resume setting. In `helper_concurrent`
processes are interchangeable (the only symmetry used, with an invariant only).
The wizard's user may click for ever; the number of probes, applies and threads
is bounded, and TLC's deadlock check is off because the user may stop: a second
apply is enough for one to meet the leavings of another, two threads for two
detections that report in the other order. In `system_check` a page is 1, a MiB 2,
a GiB 4 and the largest file 8 GiB, so that sizes lie below, at and above RAM
with the page between shown and real size at each boundary, and files are a page
longer than a size that can be asked for or not; operations there end
with an outcome, so deadlock is off too. In `session` the first client sends up
to 3 requests (a plan, its use, and either a second plan or a second use), the
second one; one backup, since each request names one and the lock is the only
thing they share; one fault, since a second one meets a process that is as new.
Clients may leave, so deadlock is off. `session_live` has 2 and 1 requests.
`guard` has no bound: two drifts are enough for *the same* and *another*.

**Fairness.** `Helper!FairSpec`: each process's own steps are weakly fair. A
process is a sequential program; its commands have timeouts, after which it
fails, and the lock is taken without waiting. Nothing is assumed of the
operator, of crashes or of new requests. `Wizard!FairSpec`: the GTK main loop
runs queued callbacks and every thread goes on; nothing is assumed of the user.
`Session!FairSpec`: a client that waits reads what comes, a helper reads what is
written to it and finishes what it has begun; the idle timeout need not happen,
nobody need ask. `Guard!FairSpec` is about use, not code: the machine is started
again and again and users log in; often enough the machine stays up for the three minutes
of the timer and a session for the minute of the notifier and until it has
written (strong fairness, since a reboot or a logout disables the step).

**Depth of two results.** `RestoredFiles` excludes a file that somebody else
changed and one whose after-hash was never written because of a crash: the
planner skips both by design. `RolledBackIsFinal` is about one helper at a time,
since an apply takes no lock (section 5); `Retryable` holds for any number.

**What the properties concede.** Where the code cannot know better, a property
says so and no more. `ActiveSwapNotMoved`: a swap file in use is moved only by an
operation that was last told it is not. `OnlyOwnContentOverwritten`: the operator's
text is overwritten only if it was put there between a write and its hash or between
plan and action, which are short and which nothing in the code guards.
`RefusedForAReason`, `AcceptedVerifies` and `VerifiedResumes` name what root is told
and the user is not, and hold otherwise. `PlannedFileFits` names the one size at
which planner and helper differ. `AnswersAreTrue` and `PreviewHolds` exempt a backup
whose apply has saved over its status.

## 4. What is proved

The theorems hold for every value of the constants: any number of processes,
backups, sizes, edits, faults, targets and threads. Assumptions are the named
`ASSUME`s of the modules.

- `HelperProofs!TypeCorrect`, `LockCorrect`, `RetryableCorrect`. The type invariant alone is not
  inductive: a process past `begin` indexes the manifests by its backup id, so
  `TypeInv` adds `WorksOnBackup`. One lemma per group of actions; `Frame` and the
  `...Step` lemmas carry what an action leaves alone. `RollbackExclusive` is
  inductive over `TypeInv`: each action either leaves lock and position or moves
  both, and `Exit` frees the lock of the one who leaves. `Retryable` needs nothing
  else: the status that a stopped rollback leaves is one the planner accepts.
- `HelperProofs!ReversibleCorrect`: with one helper at a time
  (`Concurrent = FALSE`), `[]Reversible`. `Reversible` speaks of files on disk
  and manifests on disk, and needs three strengthenings: at most one process is
  at work (`OneAtATime`); ids are taken in order and what a manifest records of a
  file nobody else touched is what the backup found (`RecordInv`); and what
  the process at work holds in memory agrees with the disk where its next step
  relies on it (`Local`), above all that at `"write"` the file has been
  recorded. The steps that matter are in `WritingApplyReversible`; a rollback
  keeps the property since it only sets files its backup recorded, and marks
  them as changed by others for every other backup.
- `OneHelperProofs`, all for `Concurrent = FALSE`: `FinalCorrect`,
  `ActiveSwapCorrect`, `OwnContentCorrect`. Three invariants over `ReversibleInv`:
  `Current` (the backup a rollback works on was eligible and is not rolled back before
  the last step; each file it still has to restore holds what the manifest says the
  apply left there, because the plan was made from the same disk, or has been edited
  since, which `raced` tells); `Claimed` with `SealedOurs` (a text of the operator is
  in an after-hash, or in a file still to be restored, only if it is one of `raced`);
  and `SwapKnown` (what a process was told of the swap file is true from the check or
  the `swapoff` to the rename, or the process is `blind`).
- `RestoredProofs!RestoredCorrect`: with one helper at a time, `[]RestoredFiles`,
  the reason the rollback exists. `Traced`: a file nobody else changed, whose record
  says what the apply wrote, holds either that or what it held at first. It rests on
  an order of the code that is nowhere stated: no apply writes a file again once its
  after-hash is recorded (`Ahead`). Hence a file the planner leaves out because its
  hash differs is already back, and `Tracing` carries that through the plan: as long
  as no action has failed, what is off the list is back. Without
  `Current` (no status of a backup is overwritten after the last step) and the order
  of the swap actions' steps (what they take off the list is no file) it is not
  inductive.
- `RestoredProofs!BootableCorrect`: with one helper at a time,
  `CompletedIsBootable`, through any faults. `Ready`
  follows the apply while nobody else has written a managed file since its backup
  began (`Undisturbed`): the target it was given is in use; the fstab line is there
  before the swap file is made; from the choice of the target on (`Chosen`), what has
  been written and regenerated so far names it (`InLine`). A crash, a reboot or a
  failed command ends the process, so what it relied on need not outlive them.
- `QuietProofs`, all for `Concurrent = FALSE`: `InitramfsCorrect`, `SwapCorrect` and
  `SwapFileKept`, which say that `RestoredInitramfs`, `RestoredSwap` and
  `PreexistingSwapKept` hold **until the first fault** (`faults = 0 => ...`) for any
  number of backups, sizes and edits. The condition is the code's, not the
  proof's: after a fault all three can fail (section 5). `StepInv`: a backup's
  initramfs is built from the resume file except while its own process is still to
  rebuild it (`Behind`), and a plan that restores the file rebuilds. `SwapStory` is
  the life of the swap file: what a process relies on at each place, so that
  no command is refused (`Stage`); what it knows there of the found file, the
  retained one and the new one while nobody else changed them (`Knows`); and that
  between two moves every backup is `Untouched` (the file is as it was found),
  `Retained` (it lies in the sibling the manifest names) or `Made` (there was none).
  The actions that move the swap file or record it are listed in `StepKinds`; every
  other step leaves the story alone (`QuietStep`). `HadInv` adds where the file lies that was
  there before backup 1. `SwapFileKept` also assumes `MaxBackups # 0`, since
  without a backup there is no `base[1]`.
- `SystemCheckProofs`: `DecisionTableCorrect`, `OneRecommendedCorrect`,
  `WrittenIsLiveCorrect`, `VerifiedResumesCorrect`, `TypeCorrect`, for any machines.
  `RecommendedFacts` (the largest exists, by well-founded induction on finite sets,
  and is one of the valid ones) and `ProbedSafe` (with or without privilege, the
  detector calls a probed swap valid exactly when it is safe by what the tools told the
  caller) carry all of them. The
  invariant says that the profile is that of `asOf`, that a plan for a new file has
  a page at least, so that the machine stays a machine, and that what was accepted
  is live: every action needs a helper that has not decided.
- `SystemCheckProofs`, on what the unprivileged and the privileged side agree:
  `RefusedForAReasonCorrect`, `AcceptedVerifiesCorrect`, `PlannedFileFitsCorrect`,
  `NewFileRefusedCorrect`. They need machines as the kernel has them (`Sound`:
  `swapon` names a swap once; `/swap.img` is a file on the root filesystem, shown without
  its header page), which every action keeps (`NewFileSound`), and `LinkInv`: the plan
  is made from a swap of the last profile (`TracedPlan`), others change neither which
  swaps there are nor their kind, filesystem and permissions (`KinInv`), and a file
  only root can read is accepted only where fstab names it (`ListedInv`): otherwise
  no borrowed offset, no plan. `ProbesAgree` is the heart of the first (where `Told`
  says the same to both, so does the detector), `SafeWhenSet` of
  the second (what root accepts is safe for the user too, once the settings are its own
  and `blkid`'s cache is right). The other two hold for files of any number of pages:
  a file one page longer than the requested size is taken by the planner for one of that
  size, and by the helper not, which both properties name.
- `WizardProofs!ReviewCorrect`, `FinishCorrect`, `DetectedCorrect`,
  `PlanPageCorrect`, `ApplyCorrect`, `TypeCorrect`, all from `WizardInvariant`. The heart is `Flight`: `_apply_running` holds
  exactly while one apply thread or one unreported callback exists; `Tasks` and
  `Order` say which threads and pages can exist together; `DetectedBeforeConfig` is part
  of it, with `Detected` (a result, or a choice, only comes with a profile); `Reviewed` extends
  `ReviewBeforeHelper` to everything that can lead to the helper: an enabled Apply
  button, a thread on its way, a report that may enable the button again.
- `SessionProofs`: `SessionTypeCorrect`, `LockMatchesWorkCorrect`,
  `AnswersAreTrueCorrect`, `PreviewHoldsCorrect`, `NotReopenedCorrect` and
  `SessionRefines`, all from one invariant, with applies that save over a rollback's
  status at any step of it. It adds to the types and
  `LockMatchesWork` what the code keeps only implicitly: `Placed` (which process
  can be at which place, and that a dead helper is at none), `Working` (what the status of
  a backup is while a rollback of it is at each place, and what the code to be
  answered says of the status), `Talk` (at most one request or answer
  is on its way per client, and it is that of the request that waits: why ids
  need no comparison), and `OnBehalf` (a rollback that serves a request is of the backup named in
  it). Actions of like effect share a lemma: `BecomesIdle`, `Replies`, `Proceeds`,
  `Enters` and `Exits` say what a step of each kind leaves alone.
  `Begun` (an apply that runs has a backup) is there for the refinement.
  `SessionRefines` shows that the initial states map to initial states of
  `ApprovedRollback` and that each action maps to one of its actions or a stutter:
  submitting approves, the gate together with the lock takes, the step that marks the
  backup starts, the last status ends, a process that ends withdraws what it
  had not begun, and the saves of an apply are `Overwrite` or stutters. `Running` is chosen among the processes inside the block, and
  the lock makes the choice unique (`RunningIs`).
- `GuardProofs`: `GuardTypeCorrect`, `NotToldTwiceCorrect`. The invariant behind
  the second: unless a notifier was cut off, the marker is the hash of the drift last told
  of, or is about to be.

Only model-checked: liveness (`ApprovedRollbacksEnd`, `RequestsAnswered`,
`DriftIsReported`, `OperationsEnd`, `ApplyReports`), which TLAPS cannot prove. Every
invariant and every safety property of a step that a passing run checks has its
theorem.

## 5. Disagreements

Shown by a run that ends in a violation:

- `v_grubcfg`: rolling back the GRUB fragment never reruns `update-grub`
  (`core/rollback.py:618-627`), so `grub.cfg` keeps the removed parameters.
- `v_swapkept`: a crash between retaining the old swap file and making the new
  one, a second apply, and both backups rolled back delete the operator's file.
- `v_reviewed`: pages are cached, the worker reads the selection again: another
  plan than the one shown is applied.

### Disagreements without a run

- The hashes are compared when the rollback is planned
  (`privileged_helper.py:362`), not when the file is overwritten (458): an edit made
  in between is lost, against `docs/faq.md:67` ("If a file changed after the wizard
  wrote it, rollback skips that file"). So is one made between the apply's write and
  its after-hash (`core/rollback.py:491-498`), which takes it for the apply's own text.
  `helper_edits` reaches both; without the exception for `raced`,
  `OnlyOwnContentOverwritten` is violated.
- An apply reads fstab, or records a file, and replaces it later
  (`privileged_helper.py:790-816`): an edit in between is overwritten by the apply
  itself, and a rollback brings back only what was recorded before the write.
- When the new swap file cannot be allocated or formatted, the "immediate restore" (`privileged_helper.py:921`)
  is skipped since `_make_swap_file` has already created the file (855): the old
  swap stays under its backup name.
- A suggestion is validated before it is capped (`hibernate_planner.py:98`): above
  64 GiB of RAM `suggested_swap_sizes` raises instead of returning "the three GUI
  suggestion button sizes" (82), and the Configuration page is built from them.
- A retry of a rollback whose first attempt failed to rebuild the initramfs
  skips the file it has already restored, plans no rebuild and ends
  `rolled-back`: the warning `REGENERATION_FAILED_DO_NOT_REBOOT`
  (`privileged_helper.py:391`) is gone, its cause is not. `RestoredInitramfs` is
  violated as soon as `helper_quiet` is given a fault.
- A crash between the rename and saving its name (`privileged_helper.py:914-917`)
  leaves a retained swap file that rollback does not find.
- An apply with a swap-file request writes fstab and replaces the swap before
  the target is validated (987, 996), against `docs/legacy-code-audit.md:24` and
  `README.md:76`. On a machine already configured for the old file, the new
  offset always conflicts with the old setting, so the apply fails after the
  swap was replaced; `NewFileRefused` lists this among the reasons.
- Since apply takes no lock, one still running saves its manifest over that of its
  own backup already rolled back (`privileged_helper.py:984`, 600;
  `core/rollback.py:426-427`), which is then eligible again. `ApprovedRollback` has
  this as `Overwrite`.
- `rollback()` answers "rollback completed" for exit status 0 (`session.py:286-287`),
  which `_rollback_files` also gives for `rolled-back-partial`
  (`privileged_helper.py:780-782`): the user is not told that something was left.
- The window: a failed apply enables Apply with the box unticked
  (`wizard_window.py:1330`, against `spec/ubuntu_hibernate_wizard_task.md:672`);
  Back stays enabled during an apply (spec:1107); after success, toggling the box
  enables Apply again (spec:1108); a detection that ends after the user's choice
  replaces it unseen; switching the swap file off leaves a radio button shown
  active with nothing selected; the sidebar opens pages on a blocked plan
  (spec:191), and leads from a System Check that is blocked, or from a failed one
  after an earlier choice, to Configuration (226-229), where spec:1098 asks for "Checks
  completed and no blocking issue". `DetectedBeforeConfig` says what is left of that.
- The "Minimum" suggestion is RAM rounded to a GiB and may be below RAM, in which
  case the plan blocks it (`hibernate_planner.py:78`, 148).
- `swapon` shows a swap file without its header page, so the planner never recognises
  a file of exactly the requested size and asks for the room of a second one, against
  its own docstring (`hibernate_planner.py:139-143`); the test of that rule passes
  since its profile shows the full size. It does recognise a file one page longer: it
  asks for no room, and the helper, which goes by the file's own size, for all of it
  (the second disjunct of `PlannedFileFits`). And a new file of exactly the size of RAM
  is found too small after it was made (`privileged_helper.py:933-945`).
- Without root, `blkid` answers from a cache that is empty after a reboot
  (`system_probe.py:385`): a partition the wizard itself configured does not verify
  for the user until root has run `blkid`.
- Section 25.5 of the specification lets a partition with only a PARTUUID and a
  stable LUKS mapping be chosen and a btrfs file be no more than an option; the
  code blocks the first two and recommends the third.
- The documentation names two files an apply writes; with a swap-file request
  there is a third, `/etc/fstab`.
- The guard's marker holds the last drift only, so alternating drifts are
  notified again and again, against "only once per distinct drift state"
  (`state_manager.py:81`); and a drift that returns after a repair is not
  notified, since a repair does not clear the marker. `NotToldTwice` and
  `DriftIsReported` say what does hold.
- The exit status of `notify-send` is ignored (`cli.py:152-155`): a drift nobody
  was shown is marked as told.
- `data/ubuntu-hibernate-guard-notify.desktop:4` says "no-op while guard
  disabled"; `guard_notify` never looks at the file that enables the guard, only
  the systemd unit does, and an old status file is still told of.
- Verification compares with the swap recommended now, not with the one that was
  configured (`cli.py:31`), so a correct configuration of another swap does not
  verify: the last disjunct of `AcceptedVerifies`. It searches the initramfs
  setting for a text (`system.py:84-85`), so `resume_offset=5986304` is found in
  `resume_offset=59863040`; and without privilege it may go by an offset
  borrowed from the settings it checks, an old UUID, or nothing where crypttab is
  closed. `VerifiedResumes` names these limits.
- The "post-restart verification" of the Finish page says that it checks "active
  swap target, resume UUID, resume offset, GRUB and initramfs state"
  (`wizard_window.py:1276`), but runs the same detection as the System Check page
  (1284): it says that the machine *can* hibernate, also when nothing is configured.

## 6. Not modelled

- *Resize journal and legacy commands* (`core/system.py:92` on, `core/grub.py`,
  the commands of `DISABLED_LEGACY_MUTATING`): no process reaches them any more; only
  tests call them.
- *Gates E and F*: a maintainer's batch tool. Each call reads the evidence files
  of the one before and writes its own; nothing runs beside it and its rules
  compare fields of records.
- *Parsers, log exporter, entry points, packaging*, and the reading of `/proc`,
  `blkid`, `lsblk`, `findmnt` and `filefrag` output: text handling without state.
  The parsers appear only as far as a decision depends on how they read
  (`Listed`, `UuidOf`, `Begins`).
- The bytes of manifests and their validators appear only as a rollback that
  refuses; the argument validators of the persistent helper as requests that
  change nothing.
- `save_state` and `may_offer_swap_deletion`: called by tests only.

## 7. Order and what could follow

The modules were written in the order of importance: `RollbackPlan` and `Helper`,
`Wizard`, `SwapTargets` and `SystemCheck`, `Session` with `ApprovedRollback`,
`Guard`. Worth adding:

1. A composition of `SystemCheck` and `Helper` over one machine, and an abstract
   specification (a change is applied wholly, or can be undone wholly) that
   `Helper` implements.
2. Theorems about what still holds after a fault of what `QuietProofs` proves up to it.
