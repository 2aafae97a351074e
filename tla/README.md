# Veila in TLA+

A verification project for Veila, a Wayland screen locker: TLA+ modules for
the parts of the program in which order, failure and time matter, TLC
configurations that check them on small instances, and theorems checked by
TLAPS.  Paths below are relative to `src/`.

    tlc -config LockRefinement_live.cfg LockRefinement   # one run
    tlapm LockProofs.tla                                 # one module of proofs

`PROJECT.json` lists the runs, the source lines behind every definition, the
mutations each property is known to catch, the hazards and the theorems.

## 1. The system

Veila is two programs and two libraries.

| part | where | state | operations |
|---|---|---|---|
| **veilad**, the daemon: one tokio `select!` loop | `crates/daemon/src/app/` | `LockState`, the active curtain process and its sockets, `AuthState`, the fingerprint handle, suspend and reload timers | lock and unlock signals of logind, control socket, `CurtainExit`, auth connections and results, 250 ms tick, shutdown signals |
| daemon tasks | `app/runtime/auth.rs`, `app/fingerprint.rs`, `app/{mpris,weather,battery,prewarm,watch}.rs` | one PAM attempt, one fingerprint verification, one snapshot each | send a result into a channel the loop reads |
| **veila-curtain**, the lock client: one calloop loop and short-lived threads | `crates/curtain/src/` | `CurtainApp`: lock objects, surfaces, readiness, exit request, failure, shell | Wayland callbacks, control and auth events, signals, timers, the loop's `can_stop` |
| UI shell | `crates/ui/src/shell/` | input buffer, focus, caps lock, status texts, animation times | keys, pointer, status and widget updates, `render` |
| renderer | `crates/renderer/src/` | shm buffers, caches of decoded and rendered backgrounds | draw into a buffer, load or store a cached rendering |
| configuration, IPC | `crates/common/src/` | none | parse, validate, include; encode and decode messages |
| compositor, logind, PAM, fprintd, UPower | not in the repository | the session lock; `LockedHint`; | ext-session-lock-v1; D-Bus; PAM conversation |

How they meet.  `activate_lock` binds an auth socket, a control socket path and
a notify socket for one *generation* of the lock, spawns a curtain with their
paths and waits up to five seconds for the notification, the child's exit or
an error.  The curtain asks the compositor for the session lock, creates a
surface per output, and notifies once `locked` has arrived and every surface is
configured.  The password goes over the auth socket to a task that runs PAM; the
task answers the curtain on the same stream, then sends an `AuthResult` to the
loop, which unlocks: `deactivate_lock` sends Unlock over the control socket, waits five
seconds, then SIGTERM, two seconds, SIGKILL.  A curtain that dies by itself is replaced
(`handle_curtain_exit`), and the compositor keeps the session locked
meanwhile.  logind's Lock and Unlock signals, the fingerprint reader, the control socket
and SIGTERM enter at the same `select!`.

What is hard to get right here:

- **ordering**: verdicts of an earlier lock arriving during a later one; `locked` and
  the last `configure` in either order; the reply to the curtain before the result to the loop;
- **failure in the middle**: each wait of a handler can time out or fail, and the state at
  that moment decides what the next handler sees;
- **two clocks**: the daemon's five seconds for readiness, the curtain's own deadline for the
  lock, and the compositor, which may grant just after either;
- **what is left behind**: a curtain nobody waits for, a lock with a dead owner, a hint in
  logind that says otherwise;
- **numbers at their limits**: the failure counter and its back-off, timers compared on a
  250 ms tick, cached state of outputs and backgrounds.

What makes each part correct, in one sentence each:

- lock session of the daemon: the session is reported locked only when it is, opens
  only for who was let in at this lock, and every handler returns;
- lock protocol of the curtain: readiness means every surface of a granted lock is on
  screen, the lock is released only on request, and a submitted password is answered;
- throttling: the delay after the n-th failure is the capped exponential one, and nothing
  resets it but a success or a new lock;
- suspend timer: it suspends once per idle period, never during an attempt or on the
  wrong power source;
- reload: the configuration that is running is the one that was last valid;
- input and resume: a key typed into a dark or resuming screen is not part of a password;
- output power: whatever is switched off is switched on again before the user is back;
- buffers: whatever the compositor holds on to, the screen is whole, and no frame is drawn over
  the one it reads in vain;
- caches: an entry is complete, it is that of the image that is there now, and the helper stores those
  that a curtain will look up;
- backgrounds: every output shows its image, in the treatment configured last, with or without
  the prompt;
- prompt: text, status and spinner agree with each other, with the attempt at the daemon, and
  with the screen;
- layout: what is drawn again is all that changed, and a click hits what is drawn there;
- configuration: the file that is read last decides, in whatever spelling.

## 2. Modules

| module | models | source |
|---|---|---|
| `LockBase` | shared state, types, `Init` | `daemon/src/domain`, `app/state.rs`, `curtain/src/state/mod.rs` |
| `Daemon` | handlers and tasks of veilad | `daemon/src/app/{runtime,events}`, `adapters/process.rs`, `app/fingerprint.rs` |
| `Curtain` | one curtain process; the compositor (external) | `curtain/src/{app.rs,state,ipc,wayland}` |
| `LockSession` | their composition: `Next`, fairness, properties | `daemon/src/app/mod.rs` |
| `LockPromise` | abstract specification: what veilad promises about the session | |
| `LockRefinement` | LockSession implements LockPromise | |
| `LockProofs` | type correctness; who may open the session; what veilad says of it is so; LockSession implements LockPromise, for any number of locks | |
| `AuthThrottle` | failures, back-off, and everything that counts or forgets them | `daemon/src/domain/auth.rs`, `app/runtime/auth.rs` |
| `AuthThrottleProofs` | attempts are spaced, for every policy and counter limit | |
| `SuspendTimer` | the timer that suspends an idle locked machine, its tick, the countdown of the curtain | `daemon/src/app/{suspend.rs,mod.rs}` |
| `OutputPower` | which monitors are lit | `curtain/src/state/power.rs`, `curtain/src/reload.rs`, `curtain/src/wayland/handlers/session.rs` |
| `OutputPowerProofs` | a locked session can be lit, and is lit when it ends, for any number of monitors and every set of configurations | |
| `WakeInput` | which presses reach the shell around sleep and darkness | `curtain/src/{state/resume.rs,state/repeat.rs,wayland/handlers/input.rs}` |
| `SleepProofs` | WakeInput: the first press is taken, and the guard acts once for each of any number of sleeps; SuspendTimer: one request per period, no countdown after the answer | |
| `AutoReload` | how edits of the configuration files reach veilad and the curtain | `daemon/src/app/watch.rs`, `app/helpers.rs`, `curtain/src/reload.rs` |
| `AutoReloadProofs` | a quiet watcher means that veilad runs what is on disk, and so does a curtain that got the last request, for every set of configurations and any number of edits; the last file that names a setting decides it, for every text of every file | |
| `ConfigLayers` | how the layers of a configuration settle a setting | `common/src/config/{mod.rs,visuals}` |
| `ReloadedConfig` | AutoReload over ConfigLayers: what the files that were read say | |
| `ShellInput` | the prompt: keys, pointer, verdicts, ticks, reloads, and which layer each of them draws again | `ui/src/shell/{input,pointer,state}.rs`, `curtain/src/state/interaction` |
| `ShellInputProofs` | the prompt's safety properties, for every theme and length of text; the passes make one picture, for every configuration, output and scale | |
| `Layout` | where the widgets are drawn, where they take clicks, which rectangle a keystroke draws again | `ui/src/shell/render`, `ui/src/shell/emergency.rs` |
| `Theme` | the look of a configuration: `ShellTheme::from_config` | `ui/src/shell/theme/mod.rs` |
| `ShellPicture` | ShellInput over Layout and Theme | |
| `Scene` | what the curtain shows on each output: image, prompt, cached layers, loaders | `curtain/src/{background,wayland/scene}` |
| `SceneProofs` | every redraw finds the buffer it draws from and, once the loaders are done, leaves the right picture, for all outputs, sizes, images and configurations | |
| `RenderCache` | the picture caches on disk and everybody who writes, reads and prunes them | `renderer/src/background`, `daemon/src/app/cache.rs` |
| `Prewarm` | which entries veilad's helper stores, and which ones a curtain looks up | `daemon/src/app/{prewarm,output_probe}.rs`, `common/src/config/background.rs` |
| `BufferPool` | the two shm buffers of a surface and the compositor that reads them | `renderer/src/shm.rs` |
| `PictureProofs` | entries are whole and show the right image, for any number of jobs, versions and events; helpers store what curtains look up, for all configurations and outputs; the screen is whole, for frames of every length | |
| `MC...` | instances of the above for TLC | |

`LockSession` composes `Daemon` and `Curtain`, `ReloadedConfig` and `ShellPicture` the modules named above.  The others stand beside the
lock session: each takes from it only when locks begin and end, and gives it nothing but a delay or a signal that
`LockSession` leaves to chance (`throttled`, an attempt that is Busy, a reload).  Between the modules of the picture the borders are:
`ShellInput` says which layer a handler draws from what, `Layout` where on the screen that is, `Scene` which image lies under it, `RenderCache`
where the image comes from, `BufferPool` how a frame reaches the screen.

### The lock session

*Generations.*  `Gen == 1..MaxGen` numbers the activations.  Everything a generation owns is
a function of it: the curtain (`cur[g]`), its auth connection (`g \in conns`) and whether its line is written (`g \in lines`), the worker task
(`worker[g]`), the result channel (`results[g]`), the stream's answer (`reply[g]`), the
Unlock message and SIGTERM on their way (`unlockMsg`, `sigterm`), the events the compositor sent
(`wl[g]`).  `curtain`, `runtime` and `child` are the daemon's `active_curtain`, its installed
runtime (listener, channel, sockets) and the child a handler is waiting for.

*Granularity.*  The loop of veilad runs one handler at a time and awaits inside it, so a handler is
one action up to its first wait and one for each way the wait ends; `dpc` says where it waits
and `handler` which one it is.  While `dpc # "select"` only tasks, curtains and the compositor move.
Two of these waits have no timer: for the line of a connection that was accepted (`dpc = "reading"`, `handle_auth_connection`), and, if
`LatencyReport` is on, for the report of a curtain that is ready (`dpc = "reporting"`, `activate_lock`).  So the curtain connects in one step and
writes in another.
In the curtain each callback or drained event is one action and the test of `can_stop` at the
head of the loop another, so events may be handled between a request to exit and the exit.

*What fails.*  `Faults` is the set of failures the environment may produce: a process
dies (`crash`), a frame cannot be drawn (`render`), a timer expires first (`slow`), `spawn_curtain`,
`Child::wait`, a socket or logind fails (`spawn`, `wait`, `accept`, `hint`), the compositor refuses or
ends a lock (`deny`).  Every error path of the handlers is an action guarded by one of
them, and each run names the ones it allows.  A fault that leads to a new generation needs one
that is free (`SpareGen`), so that every behaviour ends in a state where the daemon can still act.

*History.*  `reported` holds the generations for which `activate_lock` returned success, and
`authorised` those at which somebody was let in: PAM accepted a password, the reader matched, logind
asked to unlock, or the daemon was told to stop.  No guard of an action reads them.

*LockPromise* is what a user relies on, with two booleans: the compositor keeps the session locked
(`secured`), and a report of that is owed (`owed`).  While it is owed nothing opens the session.
`LockRefinement` maps `secured` to "some process, dead or alive, holds the compositor's lock"
and `owed` to "the lock is held, reported, nobody was let in at it or a later one, and no replacement is being given up".

### The other components

*AuthThrottle.*  Instants are relative to now: `auth.retryLeft` is `next_retry_at` minus now.  The ghost `debt`
is what is left of the delays that all failures of this lock deserve by the definition (base, doubled, capped),
computed without the code's counter.  A lock and an unlock both begin a new `AuthState`, as `reset_runtime` does.  The u8 counter is `MaxFailed`, the limit of the shift `MaxShift`.

*SuspendTimer.*  `timer` is `LockedSuspendState` with `idle` for now minus `last_activity_at`.  A tick is one action if nothing is
due, and two around the call of logind otherwise (`calling`), during which the loop handles nothing else.
`status` is what the tick remembers of the countdown it sent, `curtain` what the curtain was sent.  A message may fail to be sent, which the tick
notices, or be lost behind its back, which the ghost `deaf` records until the next one arrives.

*OutputPower.*  `surfaces` is the list of lock surfaces in the order of the code, since indexes decide which one has the
prompt; `lit` is the compositor's view of each monitor.  `set_outputs_power_mode` and its callers are operators on a record of
what they change (`Wake`, `PowerOffSecondary`), so that a handler that calls several of them is still one action.

*WakeInput.*  A sleep signal passes from logind to veilad (`signals`), to the curtain's control thread
(`wire`) and to its loop (`events`); presses come on another connection, and `drain_control_events` at the head of a handler is
what orders the two.  While the machine sleeps nothing runs.  Keyboards and pointers may be unplugged under a held key or button (`Unplug`);
`repeat = "orphan"` is a Backspace that repeats though its keyboard has gone.  `Drained` says what a queue of messages makes of the guard; `MCWakeInput` compares
it, for every queue up to 6 messages, with the loop that takes them one by one.

*AutoReload.*  The content of a file is the number of the edit that wrote it, and `disk` what is there now.  A poll is two steps
(`SyncTargets`, then the comparison of the stamps) and the load that it may lead to a third; files are edited between any two.
`missed` is a ghost: it names the changes that the watcher is known not to see (below).  A request to reload may fail on its way to the curtain
(`Forward`), and the ghost `untold` says that the last one did.

*ConfigLayers, Theme, ReloadedConfig.*  A configuration is its sections and its old flat keys, and of the settings those that decide
where something is drawn, or that are read in a way of their own.  `Loaded` is the load: defaults, theme, includes and the user's file merged in the
order of the code, `normalize` and the defaults of serde in between; `Setting` is what the accessors of `visuals/` return.  `LastFileDecides` compares
both with a definition that knows no merge: the last layer that mentions the setting in either spelling.

*ShellInput.*  The text is its length; `retry` and `confirm.over` say whether a delay still runs.  A handler first computes the shell (`Typed`, `Pressed`,
`Served`, ...) and then draws it: `DrawAll`, `DrawPrompt` or `DrawNothing`, chosen as `render_auth_change` and `render_pointer_change` choose.  `base`, `pic.prompt` and
`pic.rest` are what the three parts of the picture were drawn from.  Drawing may fail, and then the shell is that of the emergency UI.
`hand` is a ghost: where the button went down, and whether the press found its target visible.

*Layout* has no state.  It follows the passes of the renderer for a theme, a frame and a scale, on integers: blocks of text are boxes of given sizes, everything else
is the arithmetic of the code.  `ShellPicture` takes the views it is evaluated on from the shells and themes of `ShellInput`.  Its first property,
`PicturePartsFit`, is about what holds of every configuration, and is proved; the second, `WidgetsKeepApart`, depends on where a theme puts its widgets, and is evaluated on eight configurations.

*Scene.*  A picture is the image and the treatment it was made from, a frame the picture and whether prompt and layers are on it.  `surf` is the list
of lock surfaces, each with its `bg` (background), `base` (scene_base) and what is `shown`; `jobs` are loader threads and `events` what they have sent.
Every handler that redraws takes a `plan`: at which surface the drawing fails, if at all.  `odd` is a ghost that names the histories after which an image may be wrong (below).

*RenderCache.*  A file is a header and two pieces; a job creates, writes, closes and renames in steps of its own, so any two may write through the same
temporary name.  A key is what is cached and the stamp of the image; inodes are recycled, and there are as many as names and writers can hold.  *Prewarm* computes the same entries twice: `Prewarmed` from a probe
of the outputs, as the helper does, and `LookUps` from the lock surfaces, as the curtain does.

*BufferPool.*  The picture has two regions, the prompt and the rest.  `memory` says which of them each slot holds as they should be now, `front` what the compositor was
given, still has to take, and reads.

## 3. Runs

| run | instance | shows |
|---|---|---|
| `lock_live` | 3 generations, 2 passwords each, reader, crash, slow, spawn, accept | LockSession implements LockPromise; state, processes and LockedHint agree between handlers; releases are authorised; an accepted credential ends its lock; every password is answered |
| `lock_errors` | 2 generations, 1 password each, every fault, latency report, no reader | what survives failing waits, sockets, logind and compositor; every handler returns, with fairness for the daemon's handlers only, unless the curtain hangs in one of two untimed reads |
| `curtain_self_unlock` | 2 generations, render | finding: a curtain ends its own lock |
| `throttle` | policies out of range included, counter limit 4, shift limit 2 | attempts are spaced by the whole back-off, delays do not shrink, one gets another attempt |
| `suspend` | 4 policies, delays up to 4 ticks, messages that are lost | logind is asked once, an idle machine is suspended, no countdown stays on a curtain that hears of its end |
| `power` | 3 monitors, 16 configurations, controls that may be lost | a locked session can always be lit, is lit when it ends, and a named prompt is never dark |
| `wake` | 2 sleeps, 1 darkening, 2 messages in a queue, keyboards and pointers that are unplugged | the press that wakes the machine is not typed, a sleep costs that press and those of the second after it, and the keyboard comes back |
| `reload` | 2 edits and any deletions of 3 files, 5 texts, themes that are bundled and not, requests that are lost | what is on disk is what veilad runs, and the curtain that got the last request, and the last file that names a setting decides it |
| `scene` | 2 outputs, 3 images of which one cannot be loaded, 2 treatments, 4 configurations, failing frames | every redraw has its buffers; once the loaders are done a redraw shows the right image and prompt |
| `scene_image` | the same with the 2 images that can be loaded | finding: an output without the prompt keeps its fallback |
| `shell` | 2 buttons, 2 themes, texts up to 2, failing frames; 8 configurations, 3 sizes, 2 scales | text, verdict, spinner and screen agree; what is submitted stays; clicks need their press; passes and clicks agree with the layout |
| `cache` | loader, preloader and helper, 2 versions of the image, 2 events; 2 changes and 2 sets of outputs; 2 lengths of frames | entries are complete and current, the helper's are those a curtain looks up, and the screen is whole |

*Bounds.*  Two generations are what it takes for a late verdict to meet another lock, for a
restart and for a lock after an unlock; three let a restart fail and be followed by another lock,
or a restarted curtain crash in its turn.  Two passwords at each curtain let the second meet the first in flight, which is answered Busy, or the delay of its rejection, which is answered with a
time to wait; what a longer series does is what `throttle` is about, with as many attempts as its horizon has room for.  The protocol has no other counters.
`lock_errors` is about failures and has one password, and two generations.  The reader is left out of `lock_errors` since `lock_live` has it, and `AuthUnlocksOwnLock` is proved with it and every fault.
The throttle's limits are reached within five failures; its horizon of six leaves room for one more.  Three monitors
are the fewest at which the prompt can move to one secondary while another stays one, with an index that
shifts.  Two sleeps let the messages of the first meet the second.  Two edits make a change during a
debounce, or one that breaks what a load would read and one that mends it; files begin with any content, so that
what an earlier edit would have set up is an initial state.  Two outputs let the prompt move, an index shift and a base be shared; a launch has one
reload or slide, or two on a single output, since a loader that is late meets the next configuration already.  A text of length two tells one erased character
from all.  Three writers are the fewest that can take a temporary name from under the other two, and they run undisturbed; with kills, edits, full
disks or the pruner, two writers and two events are checked.  Two lengths of frames are one change of size.

*Instances that share a run.*  `cache` explores three modules that share no variable, one of them in each behaviour (`explored`); `reload` and `shell` evaluate the operators
of `ConfigLayers` and `Layout` on the states their own variables reach.

*Fairness.*  In the lock session one formula is weakly fair, `SystemStep`: as long as the daemon, a delay of the throttle, a task, a curtain or the
compositor can move, one of them does.  Tokio polls ready branches, a timer that is armed fires (its expiry is one of the branches of the handler that waits), PAM
returns, a running process keeps dispatching its loop, and a compositor answers a lock request; which of them comes first is left
open, and none runs for ever by itself.  Requests, failures and the fingerprint reader are not fair.  `HandlersReturn` relies on the
handlers alone (`HandlerStep`), since it is about curtains and compositors that never do anything again; the expiry of a timer is
then the only way out, which is why it needs `slow`, and the two reads without a timer are its exception (`AwaitsCurtain`).
The three properties say that something is the case again and again, and two of them end with `run()`: a daemon that has failed leaves its
curtain to the service manager.
In the other modules: `TriesAgain` assumes a user who submits as soon as it is allowed, and PAM and loop as above;
`IdleMachineSuspends` the interval of the loop, the clock, and a bus that answers or times out, and a user who one day does nothing more;
`KeyboardComesBack` somebody who keeps hitting and releasing keys with the focus on the curtain (strongly fair, as presses are ignored during the
grace period; on another keyboard if one was unplugged), a compositor that gives the focus back, and a machine that wakes up; `EditsArrive` the interval and the clock; `RejectionEnds` and
`RestCatchesUp` the clock and the tick of the curtain, at which the clock on screen turns now and then, and nobody who types.

*What the runs say of the code.*

The lock session:

- `ReleaseIsAuthorised` is about locks that were reported.  A curtain that was started to replace a
  crashed one, is granted the lock, and misses the five seconds of readiness, gets SIGTERM; it
  has seen `locked`, so `shutdown()` unlocks a session at which nobody was let in since the first curtain
  reported it.  This is the one exception in `LockPromise`'s mapping: nothing is owed while a replacement is given up.
- A second crash during a restart leaves veilad Unlocked while the compositor keeps the session
  locked by a dead client.
- A curtain's exit after an unlock request counts as unlocked whatever its status.
- Two reads block veilad's loop for as long as the curtain likes: `handle_auth_connection` awaits the line of a connection
  (`events/auth.rs:29`), and `activate_lock` awaits the latency report after readiness (`runtime/lock.rs:92`).  A curtain that stops, alive, between
  connecting and writing holds up logind's signals, the tick and SIGTERM; `HandlersReturn` excepts just that.
  A curtain that dies there closes the stream, and the handler returns.
- A failing `Child::wait` leaves the state at Locking or Unlocking; `SettledBetweenHandlers` is checked without `wait` and `hint`.  An error at a
  `select!` arm, be it a failing `accept` or a malformed line on the auth socket (`app/mod.rs:269`), ends `run()` and
  leaves a curtain that holds the lock with nobody to unlock it, until the service manager starts another veilad or stops the curtain too.
- *Finding* (`curtain_self_unlock`).  The man page says that a curtain does not authorise an
  unlock by itself.  When a frame cannot be drawn the curtain sets `failure_reason`, leaves its
  loop and runs `shutdown()`, which releases the session; veilad locks again when it sees the exit.

Suspend, power, wake-up and reload:

- The suspend request is marked before logind answers, so a suspend that fails is not tried again until somebody is active, and a
  reload forgets the mark, so that the machine is suspended again at the next tick.  A curtain that was started by a forwarded lock,
  or in place of another, may see its countdown up to a second late.
- A reload, an unplugged monitor or the emergency UI while everything is dark lights monitors while
  `outputs_powered_off` stays true: `NeverStuckDark` claims only that darkness is known, not that light is.  Without a named
  output a change of focus moves the prompt to a secondary monitor that is dark.  A curtain that
  replaces one that died while monitors were dark believes that they are lit.
- A press that reaches the curtain before veilad's message about the wake-up is typed, and the next one is
  swallowed in its stead; `FirstPressIsSwallowed` therefore starts when both messages have arrived at the curtain.
- Three kinds of change go unnoticed until the next one, and `missed` names them: an edit between veilad's first load and the
  first stamps, with the connection to logind in between; a theme file that appears or disappears, whether or not a theme of its name is bundled, since
  a path that is new to the watcher is stamped and not reported (an editor that deletes and creates the file can do
  that); and a file that is created, read by somebody, and deleted between two polls.  If `auto_reload_config` is switched on
  while an include cannot be loaded, mending the include is not noticed: the properties are about a veilad that has it switched on.
- A configuration that was loaded is stored and the watcher is content with it before the curtain is asked to reload (`app/helpers.rs:224`); if that
  request fails, the error is recorded and nothing repeats it, so that the curtain keeps the old configuration until the next request or the next lock.
  `QuietMeansCurrent` speaks of veilad always, and of the curtain unless it is `untold`.  `EditsArrive` is about veilad.
- A power status that could not be sent is sent again at the next tick; one that was sent and that nobody reads is not, so that a countdown may stay on a curtain
  that the message about its end did not reach (`deaf`).
- The guard of a press after a sleep also ignores the presses of the second that follows (`input.rs:135`, `285`), so that a sleep may cost more than one:
  `OneSecondPerSleep` counts how often the guard acts, not the presses.
- Unplugging a keyboard under a held Backspace does not stop its repeating, since `remove_capability` drops the keyboard and neither its repeat nor the focus: it
  deletes until the focus is lost or Backspace is used on another keyboard.
- Settings (`Exempt` in `ConfigLayers`).  A flat `input_width`, `input_height` and the like has no effect over a section `[input]` of a lower layer, because
  `#[serde(default)]` of `InputVisualConfig` refills the key that was removed; and `avatar_radius` is missing from `LEGACY_VISUAL_MAPPINGS`.
  A section `[input]` counts until a later layer makes `input` a colour; then a file that has both is read by its flat keys.

The prompt and its layout:

- Escape and Enter leave a rejection without `clear_rejected_state`: the static layer then lacks the box of the input, and an external status text stays on screen,
  until the next full redraw.  `PictureCurrent` compares all but the box, and `RestCatchesUp` says that the rest is drawn again at last.
- The rectangle of a partial redraw reaches beyond the input by a margin that its signs leave if it is higher than wide, which a theme may ask for on a high
  screen: `DirtyCovers` is claimed of inputs that are `Wide`.  A cached layer serves a later state as long as the column has room (`HasRoom`): without, the message moves
  the input, and the old layer is wrong until the next full redraw.
- A partial redraw erases other widgets that reach into its rectangle until the next full one: on tight frames, and if the status has
  a place of its own.  `DirtyKeeps` is claimed for roomy frames (720 high) without such a status.  Bounds and unset sizes of the input are not scaled with
  the output, so that on a narrow frame at scale 2 the input is drawn narrower than its hit box (`Grows`); the gaps around the status and
  the padding of chips are not scaled either.
- In emergency mode the hit boxes of the power buttons stay active though nothing is drawn there.  A click on the sign for caps lock, which replaces the eye, still
  toggles it.  The helper centres a backdrop by another rounding than the curtain: one pixel on odd sizes, to either side if the backdrop is larger than the frame.
- The clamp in `anchors.rs` would panic for a large offset, but `from_config` produces none.

The picture behind it:

- *Finding* (`scene_image`).  With `ui_mode = "single"` an output without the prompt whose image was not cached at its first frame never shows it.
- A prompt that goes A, B, A, B leaves A with the prompt on screen, where one output was to have it: `RightPrompt` asks a surface that loses the prompt to give it
  up only if it has dropped its bare picture, which is what drawing the prompt on a new frame does.
- `odd` names the histories that may end with a wrong image: a cached result that is skipped as redundant though a frame shows another picture (`Mistaken`); a loader from
  before a reload that is matched by path and size, be it for a frame (`Mistaken`) or for the asset; a frame made for want of the right one when no loader will
  send that any more (`Lasts`); a surface that is resized while its frames wait for their picture, which is then installed for nobody (`LeftBehind`), and one that is
  resized when the loaders have been started, to a size that none of them has (`Unserved`).  A new source of backgrounds, which a reload or the next slide is, clears it, as does the emergency UI.  The proof settled what
  belongs here: two of these need three changes in one history, more than the run has, and a base borrowed from another surface, which was on the list before, does no harm.
- A slide show that wraps shows its last image twice and preloads the wrong one.  Unplugging an output that was never configured can leave readiness unreported
  until something else redraws.  Rescaling has no emergency fallback.
- Caches: a damaged source entry fails every later load of that image and is never pruned; a damaged rendered entry is a miss to
  the curtain and an error to the helper; a third writer can have an incomplete file renamed under the final name (`contended`);
  a job that decoded before an edit stores under the new stamp (`spoiled`); the key lacks the fallback colour.
- Prewarm: a theme that changes alone is not prepared again (`restyled`), nor is an output plugged later; overrides of the path are not home-expanded; a
  fractional scale is probed otherwise than the curtain computes it.  `Foreseeable` excludes slide shows that nobody can foresee.
- Buffers: a partial frame that overtakes a full one before the compositor took it leaves old pixels around the prompt until the next full frame, since the damage of
  the full one is then read from a slot that does not hold it (`overtaken`).  A frame of another length clears the pool and draws over what is still held.

## 4. Proofs

For every `MaxGen`, `MaxAttempts`, `Fingerprint`, `LatencyReport` and `Faults` that satisfy `BoundsAssumption` and
`OptionsAssumption`:

- `TypesHold`: `Spec => []TypeOK`.
- `AuthorityHolds`: `Spec => []AuthorityInv`.  `AuthUnlocksOwnLock` is not inductive: that the curtain being stopped
  is authorised depends on where the result came from.  `AuthorityInv` follows the verdict
  back: an accepted verdict in the worker (`AcceptedAreAuthorised`) and a success in a channel
  (`SuccessesAreAuthorised`) belong to a generation that is authorised, and the runtime whose channel is
  read is that of the curtain in the slot (`StopsAreAuthorised`).
- `SuccessUnlocksItsOwnLock`: `Spec => []AuthUnlocksOwnLock`, from the above.
- `ReleasesAreAuthorised`: `Spec => ReleaseIsAuthorised` if `Faults` has neither `render` nor `deny`.  By
  `OnlyStopReleases` the only step that releases is the curtain's own `shutdown()`; `ReleaseInv` says that a
  reported curtain that was told to exit is authorised (`ToldAreAuthorised`), for which one
  needs that a curtain is untold as long as it is starting (`StartingIsUntold`), that generations are used
  in order (`GenerationsAreUsed`) and that a failure without a `render` fault means the compositor
  has ended the lock (`FailuresAreFinished`).  `AuthorityInv` is used where `deactivate_lock` tells the curtain.
- `LockedIsSecured`: `Spec => []LockedMeansSecured`, whatever fails.  `SecureInv` says that a curtain which received `locked`, or is
  about to, owns the compositor's lock or is told that it is over (`LockedAreOwners`), that readiness is announced only by such a
  curtain (`AnnouncedAreLocked`), and that a generation not yet spawned has asked for nothing (`UnspawnedAreSilent`).
- `NothingIsHalfDone`: `Spec => []SettledBetweenHandlers` if `Faults` has neither `wait` nor `hint` (with them the code does leave
  `Locking`, `Unlocking` or an old hint behind).  `SettledInv` adds what a waiting handler will find when it returns.
- `InFlightIsTrue`: `Spec => []InFlightAccountedFor` if `Faults` has no `wait`.  It is not inductive: consuming a rejection clears the flag, which is
  right only if nothing else is pending.  `OneAttempt` says that an attempt is in one place, the worker or one entry of the channel, and `LocksStartFresh`
  that a lock starts with neither, so that no result of an earlier one is taken for its own.
- `PromiseIsKept`: `Spec => KeepsLockPromise`, the refinement, if `Faults` has none of `render`, `deny`, `wait`.  Only `Release` of `LockPromise` has a guard that the
  protocol could break.  By `OnlyStopReleases` a release is the `shutdown()` of a curtain that was told to exit, and `OrderInv` says that nothing is
  owed then: the daemon deals with one curtain, the last (`OneCurtain`), no other is alive (`NoOtherIsAlive`), and one that was told is
  being given up or comes after nothing unsettled (`ToldAreSettled`).
- `NoCurtainIsOrphaned`: `Spec => []NoOrphanCurtain` from `OrderInv`, under the same assumption; after `run()` has failed nothing is claimed.

For `AuthThrottle`, with every set of policies and every `MaxFailed`, `MaxShift` (up to 16, as in the code) and `Elapses` that satisfy its assumptions:

- `AttemptsAreSpaced`: `Spec => NoEarlyAttempt`.  `ThrottleInv` says that what is owed is never more than `retryLeft`, that no
  delay runs while an attempt is in flight (`AttemptInv`), and that the last delay is the one the counter gives (`DebtInv`), so
  that doubling it gives the next, at the limit of the counter included.
- `CountsAreTrue`: `Spec => []CountsAgree`, the count the user reads is the one the throttle works with; and `DelaysGrow`: `Spec => DelaysNeverShrink`, from the
  same invariant.

For `SuspendTimer`, with every set of policies and every longest delay:

- `LogindIsAskedOnce`: `Spec => AskedOnce`.  The invariant says that the mark of a request outlives the
  ghost (`AskedIsMarked`), and a marked timer is never ready.
- `CountdownsEnd`: `Spec => []CountdownEnds`.  It is not inductive without `ShownIsKnown`: a countdown that is shown is the last that was
  sent, so that the end of it differs from what the tick remembers and is sent.  It is about curtains that the last message reached.

For `OutputPower`, with any number of monitors and every set of configurations:

- `PowerInvHolds`: `Spec => []PowerInv`.  The properties are about what is left when a handler returns, the code about what each call in it does, so
  `Safe` is a predicate on the pair of the monitors and the state of the curtain that a handler works on, and there is one lemma for each operator
  that a handler is made of.  It says that what is dark has a power control (`DarkIsControlled`) and is known to be dark
  (`DarkIsKnown`), that everything is dark only at a lock with `screen_off` (`BlankIsWanted`), and that otherwise some monitor is lit
  (`SomeIsLit`), the named one for sure (`NamedIsLit`).
- `NobodyIsStuckInTheDark`: `Spec => []NeverStuckDark`, and `ReleasedSessionIsLit`: `Spec => []LitAfterUnlock`, from it.

For `WakeInput`, with any number of sleeps and darkenings and queues of every length:

- `WakeInvHolds`: `Spec => []WakeInv`.  `PressesOwed` charges every press that the guard took, waits for, or will wait for when a message
  under way arrives, to a sleep of its own.  `GuardIsComing` follows the wake-up through the three queues: until somebody presses a key, the last
  word on its way is that the machine woke up, and the guard is armed or about to be.
- `GuardActsOnce`: `Spec => []OneSecondPerSleep`; `FirstPressNeverReaches`: `Spec => FirstPressIsSwallowed`; and `BackspaceIsHeld`: `Spec => []RepeatWhileHeld`,
  which is inductive by itself.

For `AutoReload`, with every set of configurations and any number of edits:

- `ReloadInvHolds`: `Spec => []ReloadInv`.  `QuietMeansCurrent` is about a watcher between two polls, and a poll takes its stamps in two
  steps; `MatchedMeansCurrent` says the same of every moment at which the stamps match the disk and nothing is pending.  An edit makes
  them differ, as no stamp is younger than the last one (`StampsArePast`), unless the file is not read at all; and once the paths are
  taken over they match only if none of them moved, for which the watched include has to be that of the configuration the watcher has
  seen (`ListFollowsConfig`).
  Of the curtain both say it only if the last request reached it.
- `QuietWatcherIsCurrent`: `Spec => []QuietMeansCurrent`.
- `LastNamedFileDecides`: `Spec => []LastFileDecides`, for every text of every file.  What a state adds is only which files there are, so that the proof is about
  `ConfigLayers`: merging is a recursive function over the layers, of which `MergesExist` shows that it is defined (by well-founded induction, as
  `FromTo`), and `MergedSection` and `MergedFlat` say what one layer laid over another keeps.  From the last layer that names a setting on, its
  flat key is kept (`LastFlat`), so is its key in a section unless `input` becomes a colour (`LastNested`), and if it has the flat key alone no section has the
  setting (`LastUnnested`).

For `ShellInput`, with every set of buttons, themes and launches, every length of a text, and frames that fail or not:

- `ShellInvHolds`: `Spec => []ShellInv`.  A handler computes a shell and draws it, so the invariant has two halves.  The shell is
  coherent (`PromptCoherent`, and that a theme which does not hide the prompt has it revealed), and waits exactly while an attempt is in flight.  The picture follows it:
  the layer kept in `base` serves the shell (`Serves`), the prompt on screen is the shell's, and the flags of a pressed button or eye follow the hand (`Follows`).
  The lemmas say what each function of the shell preserves, and what each way of drawing leaves behind if the
  revision was bumped when it had to be; there is one step per handler.
- `SpinnerAgrees`, `PromptStaysCoherent`, `PictureStaysCurrent`, `SubmittedTextStays`, `ReleasesAreAimed`: the five safety properties of `ShellInput`, from it.

For `ShellPicture`, with every set of configurations whose settings have the types that serde gives them (`IsVisual`), of text sizes, of outputs of at
least 260 by 184 logical pixels (`FramesAssumption`), and of whole scales:

- `PicturesFit`: `Spec => []PicturePartsFit`.  A state says only which theme there is and what the shell shows, so that the proof is about `Layout`.  `Once` says that draws
  have each widget of a set once; it is kept by unions of draws that want different widgets (`OnceEach`, `OnceAll`), which brings it from a section to a role and to a
  pass (`StaticOnce`, `DirtyOnce`, `DynamicOnce`), and `TogetherTheyDraw` compares what the passes want with what a user is to see.  Then what is drawn has a place: the prompt
  the same in all passes (`PromptIsDrawn`, `PromptRectIs`), so that the rectangle of a redraw is that of two at most, the box and the message (`DirtyPartsAre`), and
  the signs in the box are near enough to it (`ToggleIsNear`, `ContentIsNear`, `CopyCovers`).  The layer is the same for two shells that agree in what it
  shows (`SameLayerWithRoom`), because the column starts where it would without the message unless there is no room (`AuthAnchored`, `SameAnchor`).
  `PreparedWhereDrawn` and `EmergencyHasRoom` are the arithmetic of the rest, and `ScaledIsLook` takes all of it to outputs of other scales.
  All this is about looks that have the types of `ShellTheme` (`IsLook`).  `ConfigMakesALook` says that `FromConfig` makes nothing else, from whatever sections and flat keys
  are there, and `LowestExists` that a name always means one backdrop.

For `Scene`, with every set of outputs, sizes, images, looks and configurations, and frames that fail or not:

- `SceneInvHolds`: `Spec => []SceneInv`.  A handler works on a state that it passes through a dozen operators, so `Fits` says of such a state what each of them keeps:
  the surfaces have the outputs and sizes that the handler began with, and neither error path was taken.  There is one lemma for each
  operator; the one that matters, `PrepareSceneBaseFits`, needs that a surface with a size has its bare picture in that size, which is what
  `PrepareBackgroundFits` concludes.  A redraw of all surfaces is a recursive function over the list; `DrawingsExist` and `RunsFit` are the inductions over it.
- `RedrawsFindTheirBuffers`: `Spec => []BuffersAreThere`, from it.
- `ImageInvHolds`: `Spec => []ImageInv`.  `odd` apart, every surface is `Safe`: each of its `Frames`, which a redraw may use again, shows the picture wanted, or its
  size is among those that loaders still send for its image (`FrameOK`); whoever waits for an image is `Served` by a loader, the cache or the asset, unless loading is yet to start
  or the image is unreadable; and a base has the layers of the configuration once the curtain is ready (`LayersOK`).  `AssetOK` says the same of the picture at hand,
  `JobsOK` and `EventsOK` what loaders are for.  Within a handler that redraws, `Good` says it of all surfaces, but lets the one that was just given a new size keep
  frames of the `old` size; drawing a surface makes that one `Sound`, and `Draws` says that it leaves the others alone.
- `RedrawsAreRight`: `Spec => []RedrawIsRight`, from both.  Without jobs and events a state is `Settled`, so that what a frame shows is right (`SettledFrames`) and drawing
  takes part in no race (`SettledIsEven`); `RedrawDone` goes through the surfaces in order, for those drawn and those not yet drawn.  It needs that the images are
  finitely many (`PathsAssumption`), for a slide show goes through all of them.

For `RenderCache`, with any finite sets of loaders, preloaders and helpers, and any number of versions of the image and of kills, full disks, edits and prunings:

- `CacheInvHolds`: `Spec => []CacheInv`, in one inductive invariant for both properties.  A file has one name at most (`NamesAreApart`), and whoever
  writes it knows it by that name, even if the name has gone (`HeldByName`).  Of the writers of a file the last that opened it has filled all of it so far, unless it was
  stopped (`NamedAreSettled`); a sole writer has written copies of one picture, in a file that still has the temporary name (`SoleWriters`, `SoleEntries`).  And as long as a stamp is trusted, the
  jobs hold no image but the one it stands for, so that what they store under it is that image (`PicturesAreCurrent`, `WritersAreCurrent`, `EntriesAreCurrent`).
  Seven of the ten actions open, write and rename nothing (`Calm`) and are disposed of together; `Create` needs that there is a free inode, by counting.
- `OnlySharedEntriesAreDamaged`: `Spec => []DamagedOnlyWhileShared`, and `HitsShowTheImage`: `Spec => []HitIsCurrent`, from it.

For `Prewarm`, with all backgrounds, layers, themes, outputs and files, and any number of changes (`NoPath` is no file, and scales are numbers):

- `PrewarmInvHolds`: `PrewarmSpec => []PrewarmInv`.  Unless an output was plugged or an edit was crossed, a helper is starting, or one has read a configuration that
  will do (`Like`), or what it would store is stored (`Prepared`).
- `CurtainsFindTheirPictures`: `PrewarmSpec => []PrewarmCovers`, by `StoredIsLookedFor`: of two configurations that differ in the theme at most, the entries of the helper are
  those of the curtain but for the scene, by cases of what the background is.

For `BufferPool`, with frames of every length:

- `PictureStaysWhole`: `PoolSpec => []PictureIsWhole`.  `PoolInv` says that what is not current on the screen is damage that waits, in a slot that holds it;
  that the slot being read is busy; and that the slot next in turn is never the one committed last.

Each invariant's preservation has one lemma per group of actions and one step per action; frame lemmas
(`FrameAuthority`, `QuietDaemon`, `QuietCurtain`) dispose of the parts an action does not touch.

Seven models were changed so that they could be reasoned about.  `RenderCache` had fewer inodes than may be in use when all entries and temporary
names exist and writers hold others, so that `FreeInode` was undefined there; `Inode` now has enough, and the kinds of jobs are assumed to be apart.  The
candidates of a slideshow in `Prewarm` are their places in its list, instead of a sequence that was selected by an operator, and an image that is named twice counts once, as in the
code.  `AutoReload` names its predicate `AutoReloadOn`, and `SuspendTimer` its formulas `TimerInit` to `TimerSpec`, to share a module with others.  `Scene` draws its surfaces
by a recursive function instead of a fold, and `odd` was made exact (above).  In
`ConfigLayers` the proof found `Exempt` incomplete: a file with both `input_width` and a section `[input]`, below one that makes `input` a colour, is read by its
flat key.  The texts of the run had no such file; they do now, and TLC finds the old exemption violated.  `Layout` has its sections as sets, with an `Offset` for each
widget, instead of sequences, and its backdrops keep the places where they are written, so that `Container` looks for the lowest instead of sorting them.  There the proof found three things that no theme of the run shows: the cases of `SectionDraws` overlapped, the rounding of the helper may be off
to either side, and the rectangle of a redraw is too small for an input that is higher than wide.  What was one property for all of it is now two, one that is
proved and one about collisions.

Only model-checked:

- the liveness properties, which depend on fairness and are beyond this prover;
- `WidgetsKeepApart` of `ShellPicture`: whether widgets collide, and whether a click finds what is drawn at its place, depends on the positions a theme gives
  them.  The run evaluates it for every shape of a picture, on the themes of the instance.

## 5. Not modelled

The software renderer is arithmetic on pixels; colours, fonts, glyphs, text wrapping and the preview's grid only decide what a widget looks
like.  The diagnostic commands (`doctor`, `logs`, `theme`, `init`, `config`) read files and print, `idle` writes command lines for swayidle, and the preview
renders pictures without the lock protocol.  The workers for what is playing, weather and battery each publish a latest
value in a watch channel, which keeps the newest: their order cannot go wrong, and the rest of them is D-Bus, HTTP and `/sys`.  What can
is that an update which cannot be sent to the curtain (`app/events/lifecycle.rs:223`) is dropped until the next change.

Within the lock session: SIGTERM sent to a curtain by anybody but
veilad, outputs that come and go while locked (surfaces are one `configured` flag; `Scene` and `OutputPower` have them), and the control messages
other than Unlock.  The other requests on the auth socket (activity, power actions) are read as a password is, and the daemon's own control socket is
read the same way without a timeout (`handle_control_connection`, `events/control.rs:61`), by clients that are no part of the session; neither is modelled.
A line of the auth socket that is cut off or malformed is an error that ends `run()` (`accept`, above); on the curtain's sockets and the control socket it is
logged and the message is lost.  `WakeInput` has neither the key repeats that a compositor sends nor an output that is
unplugged under a held key.  `AutoReload` has no wallpaper (watched like an include that is always listed, with an arm of its own in the loop,
`app/mod.rs:579`) and lets no one delete the configuration file itself.  `ShellInput` leaves out the blink of the caret and the animations of other widgets.  `Scene` leaves out the avatar's
loader, whose ready event is one of the changes of the shell (`ShellChanges`), and takes a loader's failure from a set of unreadable images.  `RenderCache` follows one wallpaper at one size; `Prewarm` has one treatment of it.
`BufferPool` has neither an empty damage nor a failing draw, which no caller produces after the pool has handed out a slot.
