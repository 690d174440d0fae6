# Luft in TLA+

Models of the parts of Luft whose correctness depends on order, failure and restarts, checked with TLC on small instances and proved with TLAPS for every size. `src/...` paths are relative to the repository; `PROJECT.json` maps every definition to the lines it stands for.

## The system

Luft is a sealed, image-based desktop. A version of it is an immutable image with a digest; `/etc` and `/var` are the computer's own. Its desktop is Kestrel, one process that is compositor and shell. Around that the repository holds these parts.

| Part | State it keeps | Operations | What's hard about it | Correct when |
| --- | --- | --- | --- | --- |
| `services/packages` (luft-packages), activation | `footprint.json`, `builds/DIGEST{,.new,.old}`, the link in `/run/extensions`, what's merged, running units, the library cache | bring_in, take_away, link and settle at startup | each of a dozen steps may fail, the computer may stop between any two, and the undo may fail too | what packages made is tracked and taken away, nothing else is; the old build is put back |
| luft-packages, service and lock | `busy`, the lock file, requests under way, the idle timer | Install, InstallFile, Remove, RemoveRepository, Rebuild, AddRepository, List | requests that run side by side, a lock file that's deleted while it's held, state read before the lock is waited for | one change at a time; a request finds the list it acts on |
| luft-packages, sources and versions | the list, package files, repository files and keys, one build per deployed version with the origin of each package | the same requests, prepare_others, prune, deploying and starting another version | partial failures after the list was saved; builds of versions that don't run | every version gets a build of the list, from sources that are there |
| luft-packages, building | a build root, dnf's store | install, stage, accounts, SELinux, preset | mostly pure transformation of files | files outside the packages are untouched |
| `kestrel/ui`, extensions | folders, settings keys for what's off and what went wrong, the record of what runs, stored values, instances and their runs | find, start, stop, replace, remove, fail, store | enable is awaited, and its run may be stopped, replaced or failed meanwhile; crashes | exactly what was chosen runs; what it stored is kept; one that crashes Kestrel is turned off |
| `kestrel/ui`, notifications | each app's list, the tray's queue, its banner, timers | notify, update, close, show, hide, hover, swipe, do not disturb | handlers that destroy what another one is about to use; several reasons to keep or take down a banner | no banner of something gone; nothing that waits is dropped; every banner ends |
| `kestrel/ui`, workspaces | workspaces, windows on them, startup sequences, timers | open, close, move, switch, insert, look | looking is put off, and what was noted for a place is of another one by then | one workspace is free, after the last in use or the one the person is on; no other empty one stays |
| `kestrel/ui`, keyring prompts | calls, the queue, the dialog, the lock | ask, close, enter, allow, deny, lock | calls and their Close may arrive out of turn, and secrets are still being handed over when a dialog goes | each call is answered once; nothing asks on the lock screen |
| `kestrel/ui`, the rest | surfaces, taskbar, lock screen, search, effects | desktop | rendering, signals | – |
| `services/updater` | staged, rollback, channel, schedule, download under way | Check, Download, Cancel, Apply, Rollback, SwitchVariant, SetSchedule | a cancel or a new download racing check-then-act | only a finished, wanted download is applied |
| `sushi` (sushiboot, sushid, sushi-scene, sushictl) | boot entries with tries left, images, splash | count a try, choose, fall back | power cuts between renames | a version that doesn't start is tried a bounded number of times |
| `security/crates/trust` | seals, boot phases, disk layout journal, drive passwords | confirm a start, go back, enroll, resize with a journal | crash between journal and disk | a journalled layout is finished or undone |
| `security` usb and firewall | guarding, held and unclaimed devices | connect, lock, unlock, allow | events lost while the daemon starts | no device is accepted while guarding |
| `kestrel/session`, `kestrel/settings` | clients, inhibitors, end-session rounds | Query, End, cookies | late answers, cookie reuse | a session ends only after everyone answered or timed out |
| `kestrel/watchdog` | last answers of the compositor | ping, escalate | a late pong | a hung compositor is replaced |
| `kestrel/keyring`, `kestrel/passkeys` | vaults, unlock state | unlock, lock, store | crash during a save | a locked vault gives nothing away; a save is atomic |
| `kestrel` compositor, engine, greeter, openconnect, peek, portal, search | windows, sessions | desktop | patches to Mutter and GNOME Shell code, rendering | – |
| `apps/system` (barometer, disks, keys, rover, schelf, settings, setup, signin, tern) | files, disks, install progress | UI over services; setup's installer writes disks | an interrupted installation | – |
| `apps/store` (convertible, draft, magpie, mailman, meet, soundboard) | mail store and sync, conversion queue | UI, IMAP sync | reordering of sync and local edits | a local change isn't lost |
| `extensions`, `packages`, `web`, `docs`, `os` | UI, shared libraries, website, image recipes | – | – | – |
| `services` accounts, sleep, speech, thumbnailer, windows | small | D-Bus services | idle exit | – |

How they interact: Schelf and Settings call luft-packages and luft-updater over D-Bus. luft-packages builds in its own sandbox and asks `luft-system-packages-activate@.service`, one instance per request, to change the running system; it waits for the answer. luft-updater calls `Rebuild` when a download is finished. At startup `luft-packages link` and `settle` run around systemd-sysext, and a rebuild is queued if there's no build for the version that started.

In Kestrel everything runs on one thread, and a handler calls others through signals and settings keys before it returns; what may come in between are promises, idle handlers, timers and frames. Apps notify over D-Bus, and the notification daemon, its sources and the tray tell one another by signals. Schelf unpacks an extension's folder and calls Kestrel; Settings and the extension's own failures write the settings keys the manager follows; `kestrel-wrapper` starts Kestrel again after a crash and says so. The compositor owns workspaces and windows; the tracker only looks. The keyring daemon and GnuPG's pinentry call the prompter, which the lock screen closes.

## Modules

| Module | Models | Run by | Proved in |
| --- | --- | --- | --- |
| `SystemPackages` | activation, the footprint and the request around it, for the running version, step by step | `MCSystemPackages` | `SystemPackagesProofs` |
| `PackagesInUse` | what whoever asks is promised: an abstract specification of `SystemPackages` | `MCSystemPackages`, as `KeepsPromise` | `SystemPackagesProofs` |
| `PackagesService` | requests that run side by side, the busy flag, the lock file, the idle exit, crashes | `MCPackagesService` | `PackagesServiceProofs` |
| `PackageSources` | the list, package files, repositories, the builds of every version, deploying and starting versions | `MCPackageSources` | `PackageSourcesProofs` |
| `Extensions` | extensions, their instances and runs, what they store, crashes of Kestrel | `MCExtensions` | `ExtensionsProofs` |
| `MessageTray` | the notification daemon, its sources and the tray | `MCMessageTray` | `MessageTrayProofs` |
| `Workspaces` | workspaces, windows, apps that start, and the tracker | `MCWorkspaces` | `WorkspacesProofs` |
| `KeyringPrompts` | what asks for passwords and access, and the dialog | `MCKeyringPrompts` | `KeyringPromptsProofs` |
| `Filters` | `Array.prototype.filter`, with which the last three take members out of their lists | with them | `FiltersProofs` |

The first four look at luft-packages from one side each and take from the others what they show: `SystemPackages` has one request at a time and every step of activation; `PackagesService` has many requests and lets activation succeed or fail as one step; `PackageSources` has one request at a time, activation as one step, and all versions. The next four are parts of Kestrel that don't call one another. A handler there can't be interrupted, so it is one action: a chain of operators, named for the methods they stand for, on the record (`ext[id]`, `desk`, `box`) that holds the component's fields.

Definitions that begin with "As if" (`AddedOver`, `TakeAtOnce`, `HideDoneAlone` ...) aren't part of a specification: each is a definition with a plausible mistake in it, kept to show that a property notices.

### `SystemPackages`

| State | In the code |
| --- | --- |
| `requested`, `noted`, `libs` | `requested.json`, `footprint.json` and the copy of the library cache in `/var/lib/luft/system-packages` |
| `build`, `new`, `previous` | what the manifests in `builds/DIGEST`, `.new` and `.old` were made for |
| `here`, `made`, `grown`, `lost` | the paths in `/etc` and `/var`; those settling made, those the packages' services made, and those forget() lost the note of |
| `link`, `overlay`, `running`, `cache` | the link in `/run/extensions`, what systemd-sysext merged, whose services run, whose library cache is in place |
| `stage`, `step`, `mem` | where the request is: `bring_in`, `apply`, `restore`, `take_away`, the rest of `change_locked`, or startup; the footprint in memory |

Every call in `bring_in`, `apply`, `restore` and `take_away` is an action. Each may fail, as an action's second disjunct says; `Follow` and `FollowFailure` say what comes next, so they hold the `?`s of the code. `PowerCut` is enabled in every state, and keeps what is on disk. `Begin` also takes a list that stays the same: a repository may go that brought only what nobody asked for. `Settle` may fail when some entries are made and the folders of one more (`begun`); `BootLink`, the start of a version, may fail at linking or at queueing the rebuild; `ForgetOne` removes the parts of the state folder in any order, the builds one or more at a time. A path is an entry of a tree, given by its ancestors: users and groups are entries like any other. What services of packages make is `grown`: `Grown` says which noted folders they make it in.

`PackagesInUse` is what whoever asks sees of it, in the list, what is in use and the answer: a request's packages come into use together or not at all, only what is in use becomes the list, "done" means both, and after a start the system uses the list or nothing. `Promise` maps the steps to it: `use` is `overlay`, `phase` is `Phase`, and `fallback` is `bring_in`'s `old` while there is one, otherwise what is linked. Between swapping and undoing, nothing that's on disk says what the system falls back to, so mapping `fallback` to the link alone would be wrong. The promise is weakest in `GiveUp`: when the undo fails too, what is linked may be the old build, the new one or none, and the next request falls back to that. `KeepsPromise` says so; it is checked, and proved.

### `PackagesService`

A call is in one of two halves: on the runtime's single thread (authorizing, busy, the idle count, the answer), or on a blocking thread (checking, opening and waiting for the lock, working). `Held` are the calls the service has taken on. The lock file has an inode: `forget` deletes it, and the next call makes another. `jobs` are instances of the activation service; killing luft-packages (`Crash`) doesn't end them.

### `PackageSources`

A build is the list it was made for and, for every package in it, where it came from. `From` says where dnf may take a package from, `Resolve` which builds it may make, `Cover` whether everything in a build is still to be had. `Stage` is luft-updater: another version is deployed, an older one may leave, and Rebuild is called. `Restart` is a restart or power cut at any point, to any deployed version. `pc` is where the request is, and `Failing` and `MaxFaults` say what may fail.

### `Extensions`

`ext[id]` is everything kept for one extension: on disk its `folder`, the `file` with its stored values, the settings keys `disabled` and `problem` and the crash record (`recorded`, `crashes`); in memory the manager's `listed` and `current`, its `instances`, and their `runs`. A run is one call of `start`: it's `loading` until the module's import resolves, `enabling` until its enable does, and `on` after. `scope` is the run that is open. A run that was stopped stays in `runs` until it comes back; an instance that was replaced stays in `instances` while its timer is to write.

`Start`, `Stop`, `Set`, `Flush` are methods of an instance and its stored values, `Drop`, `Replace`, `Sync`, `Rescan`, `Failed` of the manager. A settings key calls `sync` before the write returns, so `SetProblem` and `SetDisabled` end in `Sync`, and `Failed` starts the module once more between the two. `Change` is a step that writes a key, after which every extension is synced. `Crash` keeps what is on disk; `StartUp(TRUE)` is `kestrel-wrapper` starting Kestrel after a crash, `StartUp(FALSE)` a new session. `last` and `streak` are history: what was stored last, and crashes in a row.

### `MessageTray`

`desk` holds the tray's fields under their names, shortened, the list of each source, and the desktop around them. `Update` is `updateState`, which everything calls in the end. `Destroy` tells the source, and the tray if it follows that source (`heard`), in the order the signals are connected. What takes time is an action: the animations' ends `ShowDone` and `HideDone`, the timers `NotificationTimeout` and `NotificationLeftTimeout`, and the idle handler `Discard`. An app that leaves the bus (`Leave`) takes all of its notifications with it, one that is opened (`Open`) those that aren't resident: `DestroyAll` is the loop that does, and the tray may show the next banner in the middle of it. A resident notification of the app that has the focus is marked as seen before it is listed (`known` in `Notify`), so it asks for no banner. `blocked` is the notification center, which is open. `muted` is history: what was in the tray when its source was turned off.

### `Workspaces`

`desk.workspaces` is a sequence, since a place is all a workspace is known by: an app's startup sequence names a place (`starting`), and the tracker writes its flags by place. `check` is `checkWorkspacesId`: a look is `queued`, or it threw and is `broken`. `Flags` are `emptyWorkspaces` with the last one settled, `Surplus` what is removed, `Check` the whole of `checkWorkspaces`. `last` is the kind of window that left a workspace a moment ago; the code keeps the window and a timer for each that leaves, and only the timer of the last one clears it, so one flag and one timer to come say the same. `gone` is such a timer of a workspace that was removed, which still queues a look. `prepended` is `isWorkspacePrepended`: after a window was moved before the first workspace, which only happens when there are several, none is again until the switcher goes. An app may name any place up to one after the limit (`Starts`), as a startup sequence may; the tracker leaves aside those that don't exist, except the one after the last.

### `KeyringPrompts`

`incoming` are the keyring's calls and Closes, taken one after another once their sender is known (`Incoming`); pinentry's are taken at once. `active` is the dialog with its `pending` call and the calls whose secret is still written to their descriptor (`entered`); `late` are those whose dialog is gone. `Respond` answers the pending call and closes the dialog; with animations (`animated`) it fades out and `Closed` comes later, without them `Finished` is part of the same step. `answers` counts, since a D-Bus call that is returned twice is an error.

## What the runs show

| Run | Result | Shows |
| --- | --- | --- |
| `activation` | holds | With two changes, two failures of any steps and two power cuts anywhere: `Tracked`, what settling made is noted until it's taken away; `OthersEntriesStay`, nothing else is removed; `NothingLeft`; `PutBack`, a failed change whose undo worked leaves what was in use before; `InStep`; `OnlyFailedFirstChangeLoses`, which names when a note may be lost; `KeepsPromise`, that all of it implements `PackagesInUse`; and `Converges`: when nothing fails, the system ends up with the list, also after power cuts |
| `service` | holds | Two calls of any kind with a crash: `OneChange`, `Exclusive`, `ReadIsTrue`, `OneJob`, `NeverCutOff`, and every call the service took on is `Answered` |
| `sources` | holds | `InUseHasSources`, what is in use keeps its sources; `DoneIsCurrent`; `NoStrayFiles` and `FilesStay`, package files are kept exactly while needed |
| `versions` | holds | When nothing fails, every version gets a build (`EveryVersionReady`), and the running one a current one (`RunningVersionReady`) |
| `extensions` | holds | With failures, late runs, replacements, removals and crashes in every order: `InStepWithChoices`, exactly the extensions that are chosen run and are on record; `StoredIsKept`; `LateRunsDoNothing`, a run that was stopped neither enables anything nor turns off a successor; `TwoCrashesTurnOff`, and only who was on record |
| `tray` | holds | Apps, a person, timers and animations: `NoGhosts`; `NothingSkipped`, what waits is shown, seen or gone; `WaitsOnlyBehindRemoved`, whatever makes room also looks at the queue, but for one case; `BannersEnd`, a banner nothing keeps up comes down |
| `workspaces` | holds | `OneFree`, after a look exactly one workspace is free, the one after the last in use or, when the person is on an empty one, that one in its stead; `NothingTakenAway`, looking removes none with windows, nor the one shown, nor does it change their order |
| `prompts` | holds | `ExactlyOnce`, each call is answered once; `InTurn`, nothing asks while locked and nothing waits for no reason; `ClosedIsOver`, what was closed isn't asked any more |
| `nothing_lost` | doesn't | a first installation that fails and can't be undone loses its notes |
| `service_rebuild` | doesn't | a rebuild that waited for a removal takes everything away |
| `tray_urgent` | doesn't | under do not disturb an update that makes a notification urgent brings no banner: one that wasn't seen asks for none, one that was asks before its urgency is set |
| `workspaces_jam` | doesn't | an app that names the place after the last workspace makes the tracker stop for good |

The last four each check a sentence of the docs or of a comment; `findings` in `PROJECT.json` quotes it and says what the code does. The other places where they disagree, or where a property had to be worded around the code, follow.

### Where properties make an exception

luft-packages:

- `Exclusive`, `ReadIsTrue` and `OneJob` hold while only one lock file was made (`inodes <= 1`): `forget()` deletes the file others have open, and whoever comes next makes and locks a new one. `OneJob` also needs that luft-packages wasn't killed.
- `PutBack` is about what is merged: `restore` links and merges the build before, but doesn't settle it (`activation/mod.rs:98`), so what it had in `/etc` and `/var` stays away; docs/system-packages.md:69 says the old build is put back. The library cache stays after the last package when nothing was linked (`system.rs:168`; docs/system-packages.md:73).
- `EveryVersionReady` excludes that a repository was removed without a build: then another version's build may be made from sources that are gone, and is only made again by the next change, or when that version starts. docs/system-packages.md:93 expects it to be built again.
- `RunningVersionReady` says that the current build is in use, or none. `rebuild` doesn't link a build that is already current, such as one whose repository was added again after the start; docs/system-packages.md:65 says it merges it.
- `InUseHasSources` excludes a list that couldn't be saved after its build came in use, when everything is forgotten, and a repository removed while a build is merged that isn't linked or was lost. Added repositories go with the last package (`changes/mod.rs:91`), though `repositories/mod.rs:16-17` and docs/system-packages.md:18 say they stay. Removing a repository takes the packages that came from it in the running version's build, not those of the list that are nowhere now (`third_party.rs:56`, against 47-48).
- `FilesStay` allows one deletion by name. When discarding, building for the other versions or pruning fails, the list was already saved, but `change_locked` returns an error and `install_file` deletes the file it kept (`third_party.rs:25`): the package is listed and in use, and the file that "every version builds it again" from (11-13) is gone. A change that is undone costs no listed package its file.

Extensions:

- `StoredIsKept` is about what is stored through the instance that is current. What a replaced instance's code stores late is written by its timer and takes the place of what its successor wrote.
- Removing an extension deletes its stored values before it is stopped (`manager.ts:130`), and what a cleanup stores when it stops is written after (`instance.ts:108-113`), so the file is back; docs/extensions.md:25 says removing deletes what it stored. An extension that has no instance, for its folder can't be read, leaves its file, too.
- A start that fails late counts for the instance it was made for: on the same instance, turned off and on again meanwhile, it turns off the new run (`manager.ts:184`). `LateRunsDoNothing` is therefore about replaced instances.
- `Failed` sets the problem first, whose key syncs and starts the module once more, and only then the key that turns it off.
- `RemoveFails` doesn't sync, so the record may name an extension that no longer runs, and count it in the next crash; `TwoCrashesTurnOff` goes by the record for that reason.

Notifications:

- `WaitsOnlyBehindRemoved`: a banner that goes without an animation is gone before `hideNotification` returns inside `updateState` (`messageTray.ts:361`, 526-530), which has looked at the queue already. What waits then is shown with the next event. With animations off every banner goes like that; the model has them on.
- Do not disturb doesn't empty the queue: what asked for its banner before still shows (`messageTray.ts:244-270` looks at the rules, 358-391 doesn't). notifications.mdx:33 says banners stop popping up while it's on. So `quiet` is nothing that keeps a banner back in `CouldShow`.
- `NoGhosts` excludes `muted`: turning a source off disconnects the tray, and nobody takes its notifications out of it.
- `BannersEnd` is about notifications that were seen: one that lowered its urgency in an update that was refused isn't, and stays until something else happens. An update that raises the urgency of one in the queue doesn't move it to the front.

Workspaces:

- `workspaces.md:8` says there's always an empty workspace after the last one in use. Two things differ, and `OneFree` says what the code does in both. When the active workspace is empty, the tracker keeps that one and removes every other empty one, so nothing empty may come after the last in use (`tracker.ts:74-85`). With windows on the first two of three workspaces, closing those of the first while on it takes the third away, and until the person leaves the first nothing empty comes after the last one in use; that is why `OneFree` doesn't say the doc's sentence but names the place. And there is none when the tracker found as many workspaces as there may be, the last of them in use: it removes an empty one in front in the same look and adds none after it, until something makes it look again (`full`).
- `broken`, the finding of `workspaces_jam`, is where `OneFree` says nothing any more.

Prompts:

- `ClosedIsOver` says with animations that none of what was closed is shown. Without them, `close` of a dialog shows the next call of the same handle at once, before it clears the queue (`queue.ts:61`, `modalDialog.ts:222-231`), and its dialog stays; docs/prompts.md:13 says that Close closes the prompt, 31-32 that what is closed is answered with 2 and the dialog stays open until then.
- A deny while no call is pending refuses the handle's next password until it is closed. A keyring that leaves the bus leaves its dialog open.

### Bounds

Every bound is a constant of its module: `MaxChanges` and `MaxAsks` requests, `MaxStages` staged versions, `MaxRestarts` restarts, `MaxCuts` power cuts, `MaxFaults` failing steps, `MaxInstances`, `MaxRuns` and `MaxCrashes` of extensions and Kestrel, `MaxMoves` of a person at the tray, `MaxBlocks` of windows to come.

- `activation`: two packages that share a folder, one of which names the folder and brings libraries, are the smallest where clearing the one must spare the other. Two changes are one to bring something in and one to change it; two faults are a failing step and a failing step of its undo; two power cuts are one in a change and one in the startup that follows. Every step may fail there; in `nothing_lost` only settling and clearing may, which is enough for what it shows.
- `service`: two calls meet at the lock and at the busy flag, and a crash comes between. The third call, which finds a new lock file while another waits for the old one, is in the run `service_rebuild`, and the theorems are about any number.
- `sources`, `versions`: two versions and a repository are the smallest where a build is current for one version and not for the other; one name is only in the repository or a file, one in Fedora, and one in both and brought along. Three requests, a staged version, a restart and two faults are a change that fails, one that builds on what it left, and one after another version started. To see a repository added again after a start takes four requests and two restarts, which `versions` has.
- `extensions`: extensions don't look at one another, except that a crash is counted for each, so one is enough for what happens to it. It has two versions, to be replaced, and a value or none to store. Two instances in memory and three runs are a stopped run that is still to come back, one that was stopped by the start of the next, and the one that goes on; the third crash is the one after it was turned off.
- `tray`: two apps, one that keeps its notifications in the list and one that doesn't; a queue of two and two of an app in the list, so that both overflow with four notifications. `MaxMoves` counts what a person begins (opening the list, do not disturb, going away), not what undoes it.
- `workspaces`: two windows, a dialog (what doesn't count when it leaves), at most three workspaces, so the limit is reached, an app that starts and one block.
- `prompts`: two passwords and an access under one handle, a password of GnuPG under another: a handle with a queue of its own behind its dialog, and two dialogs at once.

Two names of which nothing depends on which is which are symmetric: versions in `sources` and `extensions`, windows in `workspaces`, passwords under the same handle in `prompts`. No liveness is checked under symmetry, and the runs that don't hold have none, so that their traces read as they happened. No bound matters for what is proved: the theorems hold for every value of the constants, and every safety property of a run that passes has one. What rests on the bounds is liveness.

### Fairness

Liveness assumes that a step that stays possible is taken. In luft-packages that is `WF_vars(Work)`, or `Work(c)` for each call, since the code runs on its own, and threads and `flock` are fair; `Rebuild` is fair: systemd starts the queued unit and luft-updater calls it. Nothing says that people make requests, that polkit is answered, that a version is staged or that the computer restarts. `Converges`, `EveryVersionReady` and `RunningVersionReady` ask for a behaviour in which no step fails (`[](faults = 0)`, `MaxFaults = 0`): nobody retries a failed build before the next start.

In the tray, animations end and timers go off: `ShowDone`, `HideDone`, `NotificationTimeout` and `NotificationLeftTimeout` are fair. Nobody has to notify, to move, to come back or to close anything. The tray may idle for good, so deadlock isn't checked in its two runs; it is in all others.

### Abstractions

luft-packages:

- A package name, path, user or unit is a member of a small set; versions of packages, scriptlets, SELinux labels and which of a package's units are enabled are left out.
- Building (`build_into`) is one step that may fail; it works in a folder of its own that nothing else reads.
- `SomeoneMakes` lets other programs make paths only where none is noted: an entry somebody makes between note and settle can't be told from one the packages made, neither in the code nor in the model.
- `PackageSources` leaves out a power cut in the middle of `prune`, which only removes builds of versions that are gone.
- In `PackageSources` and `PackagesService`, an activation that fails leaves in use what was in use; undoing that fails too is only in `SystemPackages`.
- InstallFile and RemoveRepository are an install and a remove in `PackagesService`.

Kestrel:

- An extension's stored values are one value; that a record or a file can't be read or written is left out, as is what an extension makes after it was stopped, which nobody disposes of.
- A start that fails stops its instance and tells the manager a microtask later (`instance.ts:91`, `manager.ts:184`); `StartFails` is one step. Only other promises may come between the two: another extension may fail there, whose sync starts this one again, before its own failure stops that run as well. Until then `InStepWithChoices` doesn't hold in the code.
- Animations are on in the tray. Do not disturb stands for everything that quiets it. Sounds and the holds of extensions are left out. So is a computer without a monitor, on which `updateState` returns early (`messageTray.ts:358-360`) and nothing calls it when one is back.
- A window is on a workspace or nowhere; what it looks like, and monitors other than the primary, are left out.
- An answer to a call isn't told from another; `pushModal` works; the queue's `destroy()`, which only runs when the shell goes, is left out.

## What is proved

TLAPS proves the theorems in `PROJECT.json` for every value of the constants, from `PackagesAssumption`, `PathsAssumption`, `ServiceAssumption`, `SourcesAssumption`, `ExtensionsAssumption`, `TrayAssumption`, `WorkspacesAssumption` and `PromptsAssumption`, which say what the constants are (an entry is its own ancestor, calls are finite, a limit isn't zero, no name is `None`) and are evaluated in every run. Each invariant is made of named parts; a lemma for each action, or for each operator an action is made of, says that it keeps them.

- **`SystemPackages`, what is tracked.** `Tracked` isn't inductive: what settling makes must be noted before, on disk, and remembered in memory until it's saved again. `IInv` is `TypeOK`, `NotesInv` (`Closed`, `OthersUnnoted`, `Tracked`, `MemTracked`, `Planned`, `RecordedFirst`) and `ControlInv` (`TakingAway`, `Forgetting`, `Asked`, `NothingLeft`). `OthersUnnoted` is what makes `footprint.clear` safe: no path that was there is noted nor in a folder that is, since `first_missing` notes the topmost missing one.
- **`SystemPackages` implements `PackagesInUse`.** `PromiseKept` is the refinement: initial states map to initial states, and each of the code's calls, failures and power cuts to one step of the promise or to none. What a step maps to depends on which build is in place, linked and merged where the request is: `UseInv` says that, for bringing in (`Bringing`), undoing (`Undoing`), taking away (`Unlinking`), the end of a request (`Ending`), startup (`Dark`) and the list (`Listed`, `DoneIsInUse`); `UnitsInv` which services run then. `InStep` and `PutBack` follow from the same parts. So the single step that activation is in `PackagesService` and `PackageSources` rests on a theorem.
- **`PackagesService`.** `OneChange` needs `BusyWithChange`; `Exclusive` needs that each lock file has one holder (`Locked`); `NeverCutOff` needs that `active` counts the calls (`Counted`), a cardinality; `OneJob` needs `Awaited`. They're proved together as `ServiceInv`.
- **`PackageSources`.** `SourcesInv` follows a request: `Begun` and `Listed` are the order of its steps and the list meanwhile, `SourcesThere` what it may build from, `BuildIsCurrent` and `NoneInUse` that the running version is done with from activation on, whatever happens to the others, `FilesWereAsked` that discarding what was removed costs no build its file, `Filed` which files may be there, `Dropped` that a file `install_file` deletes is of a package that isn't listed, unless a step after the save failed. `InUseHasSources` and `FilesStay` are about steps: each is proved from `SourcesInv` for every action.
- **`Extensions`.** A handler runs `Stop`, `Start`, `Sync` and `Failed` one after another, and between them what is to hold of an extension doesn't: what holds in between is `Resting` (only a run that is open is on record) and `Known` (what runs is known to the manager), and syncing gets from there to `Settled`, which is `InStepWithChoices` and what it rests on. `CrashInv` relates crashes in a row to the record. For `StoredIsKept`, `Whole` says that what is stored last is in the file, or with the instance that will write it. `LateRunsDoNothing` and `TwoCrashesTurnOff` are about steps: every operator but those a property is about leaves the runs of other instances, or the keys, as they are, and that is what the lemmas in `ExtensionsProofs` say.
- **`KeyringPrompts`.** `ExactlyOnce` isn't inductive: a call that waited in two places would be answered in each. `Apart` says that the places have no call in common and none is twice in a queue, `Counted` is `ExactlyOnce` for a handler that has calls in hand, and `Fit`, `Woken` and `Past` are the parts of `InTurn` and `ClosedIsOver`.

- **`MessageTray`.** A handler runs several methods on the desk, each of which may call `updateState`, and a notification that goes tells its source and the tray, which may show or take down a banner before the first handler goes on. So there is a lemma for each method that relates the desk before and after it (`StruckOff`, `Down`, `Updated`, `Told`, `Gone`, `Joined`) and one that composes them: for `Destroy` in a loop, by induction over what is destroyed. `Order`, the inductive invariant, is `Sound` (the lists, the queue and the banner fit each other), `Past` (a banner that is marked removed is of something that's gone) and the types of the rest (`Counted`). `Sound` holds between any two methods; `Past` doesn't, since `Destroy` tells the tray before the notification leaves its list, which is why it isn't part of it. `NoGhosts` follows from `Order`. `WaitsOnlyBehindRemoved` and `NothingSkipped` are about steps: `Restful` and `Taken` say the same of two desks, so they can be composed along the methods of a handler, and each action has a lemma that its chain keeps both.
- **`Workspaces`.** `OneFree` doesn't follow from itself: whatever happens besides a look leaves the tracker something to look at (`Told`), so one look must establish it from any desk that is typed. `CheckFindsOne` does: it says which places are flagged, which of them go, and where the others come to be (`PickedRank`: a place moves down by as many as go before it). That what is in use keeps its order, and that the active place is still the same workspace, comes from the same lemma and `ExcludingPicked`, and is `NothingTakenAway`, also for the look that throws.
- **`Filters`.** What filtering a list leaves, in which order and at which places, for lists of any length: `PickedFacts`, `ExcludingFacts`, `ExcludingLength`, `ExcludingPicked`, `PickedRank`. `Picked` is a recursive function of its own because the library's `SelectSeq` can't be expanded by the provers; that it exists and what it returns is proved by induction over a set of naturals (`SetInduction`), from the well-foundedness of `<`, and over a set of lists (`ListInduction`) from that. The queue's sort by urgency is three such filters, since there are three urgencies and JavaScript's sort is stable.

Only model-checked: liveness under fairness (`Converges`, `Answered`, `EveryVersionReady`, `RunningVersionReady`, `BannersEnd`), which TLAPS can't prove. The four runs that don't hold are TLC's alone, too: a counterexample needs no proof.

## Not modelled

`components` in `PROJECT.json` lists every part with its reason. In luft-packages: parsing of repository files, the transformations that make the image, progress signals and the two methods that only describe. Of luft-updater there is only its call of Rebuild. In Kestrel: the surfaces, the taskbar, the lock screen and search; the patches to GNOME Shell and Mutter; GTK's notifications and media. The biggest files of the desktop and the applications are what they look like, and bindings that are generated.

## Plan

In this order, each with its `MC` module, a run for its safety and liveness, and an invariant to prove:

1. `Updater`: downloads, cancel, apply, rollback, switch_variant and the schedule, with every await between a check and its use; composed with `PackageSources` through Rebuild. Properties: one download is followed at a time and ends with `downloading` cleared; apply never runs under a download; a pid is only killed while it's the download's.
2. `BootCounting`: sushiboot's tries and trust's confirmation, with power cuts between renames: a version that doesn't start is tried a bounded number of times, a confirmed one isn't counted any more.
3. `DiskLayout`: trust's journal and its steps: after any power cut the layout is finished or as before.
4. `UsbProtection`: devices that arrive around locking, unlocking and the daemon's start: none is accepted while guarding.
5. `Session`: query and end rounds, inhibitors and their cookies; then the watchdog.
6. Kestrel: the lock screen with authentication, and the surfaces that exclude one another; the keyring's vault; Mailman's synchronisation.
