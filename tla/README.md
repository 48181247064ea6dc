# Formal models of Herald

Herald (`custom_components/herald/`) is a Home Assistant integration that
takes notification requests, decides whether, to whom and over which channels
they go, and delivers them.  This directory holds TLA+ models of the parts in
which order and timing decide whether that works, the TLC configurations that
check them on small instances, and TLAPS proofs of what holds for every number
of notifications, callers, channels, rooms and set-ups.

Everything in Herald runs on one asyncio event loop.  There is no parallelism,
but every `await` that suspends is a place where any other task may run; the
models make each stretch between two such places one action.  Herald requires
Home Assistant 2026.3 or later (`hacs.json`), which starts tasks eagerly:
`async_create_task` runs the new coroutine up to its first suspension before it
returns.  Executor jobs (`async_add_executor_job`) are suspensions of the task
that awaits them.

## 1. Inventory

| component | source | state | operations | modelled in |
|---|---|---|---|---|
| Delivery queue | `queue.py` | `_items`, `_lock`, `_flush_task`, `_flush_timer`, `_closed` | `async_enqueue`, `async_flush_now`, `async_shutdown`, timer callback, worker `_async_flush` | `NotificationQueue` |
| Admission | `coordinator.py` (`async_handle_service_notify`, `_async_routing_prechecks`, `_drop_for_*`, `_prune_dedup_cache`) | `RuntimeState.dedup_cache`, `last_delivery_by_flow`, `snoozed_flows` | notify, preview, snooze | `Admission` |
| Persistence | `coordinator.py` (`_async_setup`, `_async_persist_and_publish`, `async_shutdown`), Home Assistant's `Store` | `RuntimeState` in memory and in `.storage` | load, save, final save | `Admission`, `Controls`, `Feedback` |
| Delivery of one notification | `coordinator.py` (`async_process_notifications`, `_check_notification_rule`), `policy_rules.py`, `router.py` (`async_route`, `_async_send_channel`, `_async_send_tts`) | the `NotificationContext`, one route's results | check, route, send, fall back | `Delivery` |
| Channel selection and preview | `router.py` (`_resolve_channel_names` and its strategies, `_policy_channel_rejection`, targets, `build_route_preview`) | none, reads `hass.states` | select, order, reject, resolve targets, preview | `ChannelSelection` |
| Presence | `presence.py` | none, reads `hass.states` | resolve a snapshot | as the worlds of `Delivery` |
| Feedback and feed | `coordinator.py` (acknowledge, clear, record, counters), `actions.py` | `last_notification`, `recent_notifications`, `dashboard_feed`, `acknowledged_notifications`, daily counters | record, acknowledge, snooze, dismiss, announce | `Feedback` |
| Controls and configuration | `controls.py`, `effective_config.py`, `__init__.py` `_async_update_options` | runtime values, options of the entry | set, announce, apply option edits | `Controls` |
| Notification policies | `notification_policies.py`, `policy_editor.py`, registry part of `coordinator.py` | registry, saved rules, scan timer | scan, adopt, set, reset, resolve | `RuleRegistry` |
| Lifecycle | `__init__.py`, `services.py` | coordinators, registered services, frontend registration | set up, unload, cleanup after a failed set-up | `Lifecycle` |
| Frontend registration | `frontend_registry.py` | `_closed`, `_retry_unsub`, Lovelace's registry file | register, retry, shut down | `Lifecycle` |
| Hume audio cache | `channel_tts_hume.py` | files, `_cleanup_unsub`, `_cache_lock` | store, prune, schedule | `Lifecycle` |
| AI and characters | `ai.py`, `characters.py` | none | rewrite, with a text fallback | no |
| Request and context | `request.py`, `context_builder.py`, `flows.py`, `models.py` | none | normalise one request | no |
| Plugins, discovery | `plugins.py`, `discovery.py` | channel definitions | load, discover | no |
| Rule options | `rule_options.py` | none | list choices for the editor | no |
| Entities, diagnostics, card | `sensor.py`, `decisions.py`, `frontend/` ... | none of their own | show the coordinator's snapshot | no |

How they interact: `services.py` calls the coordinator's
`async_handle_service_notify`; it runs the prechecks against `RuntimeState`,
reserves the dedup fingerprint and awaits `NotificationQueueManager.async_enqueue`.
The queue's worker calls back `async_process_notifications`, which checks the
captured rule again and calls `HeraldRouter.async_route`; the router calls back
`_check_notification_rule` before each channel and, through the `before_send`
guard, before each transport; the outcome goes through `_record_delivery` into
`RuntimeState` and from there, through `Store`, to disk.  An edit of the
options unloads and sets up the entry again, which replaces coordinator, queue,
router and store, but does not stop handlers that are already suspended.

What is hard, and what makes each part correct:

- *Queue.*  Callers, the timer, the worker and the shutdown share a lock and
  two fields; an eagerly started worker runs inside the function that starts
  it.  Correct means: one worker; no lost wake-up; each accepted notification
  processed once, again only after a failure; a shutdown that leaves nothing
  behind; nobody waits for ever.
- *Admission and persistence.*  Checks are separated from what they lead to by
  suspensions, restarts and saves.  Correct means: equal requests stay a window
  apart; nothing is suppressed for the sake of something never let through;
  cooldowns and snoozes survive what they should survive.
- *Delivery.*  Presence, quiet hours and silence change while the delivery
  waits for AI, synthesis and service calls.  Correct means: the captured rule
  holds at the very transport call; a removed recipient stays removed; nothing
  is spoken twice; every channel gets a true result; the delivery ends.
- *Channel selection.*  Rooms have several spellings, devices stand under
  several channels and mappings, and the same request is resolved by the
  preview, on routing, before each channel and before each call, by different
  code in a home that changes.  Correct means: a rule's room is never left; one
  device speaks in a room; sound is heard only where it may be at that moment;
  the preview tells the truth.
- *Rule registry.*  Scans overlap in threads while files are edited, each is
  followed by a save, and they outlive their coordinator.  Correct means: the
  registry contains only what was there, names what it could not read, shows
  what an event will do, keeps the saved rules and catches up with the files.
- *Lifecycle.*  Set-up and unload can fail at each step while what they
  started is running in callbacks, threads and tasks.  Correct means: nothing
  is left behind, nothing of the user's is overwritten, what should be
  registered comes to be.
- *Feedback.*  Answers arrive before the delivery they answer is recorded,
  midnight, reloads and crashes between any two steps, and handlers that wait
  outlive their coordinator.  Correct means: an acknowledgement shows wherever
  its notification does; the counters are those of their day.

The hazards are listed one by one, with their lines and the properties that
answer them, in `PROJECT.json`.

## 2. Modules

| module | what it is |
|---|---|
| `NotificationQueue` | `queue.py`, one action per locked section, suspension or callback |
| `ReliableQueue` | what the queue promises, without lock, timer and worker |
| `NotificationQueueProofs` | TLAPS: the inductive invariant, the safety theorems, the shutdown, and that `NotificationQueue` implements `ReliableQueue` |
| `Admission` | prechecks, reservation, stamps, snooze, `Store`, reload, crash |
| `AdmissionProofs` | TLAPS: types, duplicates, cooldowns, snoozes and what the file keeps |
| `Delivery` | one notification from the queue to its channels, while the home changes |
| `DeliveryProofs` | TLAPS: the rule at the transport call, removed recipients, results |
| `ChannelSelection` | which channels, rooms and devices one request reaches, and the preview of that |
| `ChannelSelectionProofs` | TLAPS: types, a rule's room, one speaker in a room, the place of every call, the preview |
| `RuleRegistry` | the scan for `herald.notify` calls, the registry, the saved rules |
| `RuleRegistryProofs` | TLAPS: types, what registries and issues say, the entry of a key, the saved rules |
| `Lifecycle` | set-up and unload with services, listeners, the Lovelace registration and the audio cache |
| `LifecycleProofs` | TLAPS: nothing is left behind, nothing of the user's is overwritten |
| `Feedback` | records of deliveries, counters, acknowledgements, snoozes, dismissals |
| `FeedbackProofs` | TLAPS: types, acknowledgements, and the sums that are the counters |
| `Controls` | controls with their sources and revisions, configuration layers, the options form, set-up and unload |
| `ControlsProofs` | TLAPS: types, and that the latest edit wins |
| `MC...` | the instances that TLC checks |

An operator whose comment begins with "Mistaken variant" is no part of a
specification.  It is a plausible bug in the definition that follows it;
substituting it has to break a property, which shows that the property depends
on that piece of code.

### 2.1 NotificationQueue

`pending` with `arrival` is `_items`; `dueIn` is `due_at` relative to now;
`timer` is `_flush_timer`; `flushTask` and `closed` are the fields of the same
name; `waiters` is the queue of the FIFO `asyncio.Lock`; `loop` is the task
that runs and has not suspended yet.  No code of the queue awaits while it
holds the lock, so a locked section is one action and the lock needs no owner.

| action | code |
|---|---|
| `Enqueue` | `async_enqueue` 137-152, refusal of a closed queue included |
| `FlushNow` | `async_flush_now` 154-164, from a caller or from the shutdown |
| `CloseQueue` | first section of `async_shutdown` 166-171 |
| `TimerFires` | the timer's callback, `_start_flush` 179-192 |
| `Pick`, `RemoveBatch`, `RetryBatch` | the locked sections of `_async_flush` |
| `Suspend`, `Complete`, `Fail` | the delivery callback suspends, returns, raises |
| `ExitFlush` | the `finally` clause, and `_start_flush`'s `task.done()` branch |
| `Block` | waiting for the lock; control returns to `_start_flush`, which records the worker |
| `CancelCaller` | a cancelled `async_flush_now`; `asyncio.shield` keeps the worker |

Two details decide much.  An eager worker runs while `_flush_task` is still
`None`, and may even end before `_start_flush` assigns it (`loop`,
`TaskOnSuspend`).  And asyncio runs a timer up to one clock resolution early
(`EarlyFire`), when nothing is due yet: the worker then finds nothing and has
to set the timer again.

### 2.2 Admission

`mem[g]` is the `RuntimeState` of the coordinator of the `g`-th set-up, `toSave[g]`
the snapshot its `Store` has not written yet (a set of one, or none), `disk`
the file.  `Arrive`,
`Precheck`, `Enqueue`, `Deliver` are the stretches of
`async_handle_service_notify` and of the delivery's end; `Precheck` keeps the
order of `_async_routing_prechecks`, with the answers of rules, levels,
conditions and the global mute left open.  `Preview` is `async_preview_route`,
which runs the checks without reserving.  `Snooze`, `SnoozeSave`,
`SnoozeReturn` are `async_snooze_flow`.  `Close`, `FinalSave`, `WriteStore`,
`Reload` and `Crash` are unload, set-up and the death of the process.
`Store.async_save` keeps only the newest snapshot and returns when it is
written; a stop of Home Assistant is treated like a crash; the wall clock does
not run backwards.

A handler that was suspended when its entry was reloaded continues with the
replaced coordinator, and its save overwrites the file of the new one.  The
model counts such writes in `late`, and the properties say which promises they
void: the era of a check or delivery is its number of crashes and late writes.
`RuleRegistry` and `Feedback` have such writes, too; `Controls` leaves them out.

The coordinator keeps a stamp for each flow, and of those of single
notifications only the newest 2048 (`coordinator.py` 1126-1137).
`NotificationKeys` are the histories that fall under that limit, `StampLimit`
is the limit, and `Newest` picks what is kept: among stamps of one tick, those
of the delivery that is being recorded first, then any.  The code compares ISO
strings, which is taken as the order in time.

### 2.3 Delivery

`case` is the request with its captured rule and the configuration;
`world` is what Home Assistant shows at present: who is home, whether nobody is
(an entity of its own may say so), whether absence is confirmed, which rooms
are occupied, quiet hours, silent users.  `seen` is the snapshot the router
works with, `ctx` the audience and the text-only mark.  `CheckQueued`,
`StartRoute`, `NextChannel`, `Rendered`, `SendChannel`, `GuardedCall` and the
three outcomes of a call are the stretches of `async_process_notifications`,
`async_route`, `_async_send_channel` and `_async_send_tts`.  The world may
change at every suspension; between the check of a channel and a call without
preparation there is none (`Uninterrupted`).  Which of the admissible channels
the static preferences (device, room, severity, one local device per room)
keep is left open (`planned`, `routeKept`), and so is their order: what is
shown of `Delivery` holds for whatever `ChannelSelection` chooses.  A request
whose audience could not be resolved has no persons, and its worlds have nobody
silent.

### 2.4 Controls

`mem[s]` is the pair `control_values[s]`, `control_metadata[s]` of the
coordinator's `RuntimeState`: value, source, and the revision of the options
update it has consumed.  `disk` and `toSave` are the storage file and the
snapshot that waits, as in `Admission`.  `options[s]` is the setting's value in
the options with the revision in `_herald_control_updates`; the number of the
edit stands for its UUID.  `form[s]` is what an open form displays.  `expected`
and `unsaved` only serve the properties: they say what the latest edit was and
whether a crash would lose it.

| action | code |
|---|---|
| `Start`, `LoadState`, `SyncSetup`, `Ready`, `SetupFails` | `async_setup_entry` and `HeraldCoordinator._async_setup`, split where they suspend; the cleanup of a set-up that failed |
| `Refresh` | `_async_update_data`, and the synchronisation at the start of notify and preview, which does not save |
| `Unload`, `FinalSave`, `Unloaded` | `async_unload_entry` and `async_shutdown` |
| `OpenForm`, `Submit` | `_async_section` with `async_options_config` and `edited_options`; the update listener |
| `SetRuntime` | `async_set_control_value` with `set_value`, and its save |
| `WriteStore`, `Crash` | `Store`, the death of the process and a start with another YAML file |

`Synced` is `_sync_controls`: `apply_option_updates`, then `ensure_defaults`.
`OfflineView` is the second half of `async_options_config`, which computes the
effective values from the file when no coordinator is there.  For a channel
that only discovery defines it knows neither the channel nor its stored value
and shows the discovered definition; `OfflineAgrees` therefore leaves such
channels out.  The late writes of `Admission` are left out here.

### 2.5 ChannelSelection

`Delivery` asks whether a channel may be used; this module asks which ones are,
and where they are heard.  The configuration is constant: each channel's kind,
owner, room, device and service and its three mappings from *spellings* of
rooms (`Keys`, `Canon`) to devices, ordered audio devices and notify services.
`At` says where a device is really heard, and `TruthfulAssumption` that the
configuration does not lie about it.  `case` is a request with the part of its
rule that names a room or `text_only`; what audience, levels and restrictions
forbid is `barred`.  `world` is the home, `start` and `seen` are the home as
`async_route` selected its channels and as the last check saw it.

| definition | code |
|---|---|
| `Named`, `Expanded`, `Eligible`, `Suitable`, `LocalTargets`, `Selected` | `_resolve_channel_names` and its strategies |
| `PolicyRejects`, `RoomRejects` | `_policy_channel_rejection` |
| `TargetEntity`, `RoomAudio`, `TvService`, `ExplicitAudio`, `RoomAudioTarget` | the resolution of devices and services |
| `Score`, `Wins`, `SortKey`, `Before` | scores, ties and the order of delivery, as tuples compared like Python's |
| `PreviewRoute` | `build_route_preview`, `_preview_channel_delivery` |
| `StartRoute`, `NextChannel`, `Rendered`, `Prepare`, `GuardedCall`, `CallSucceeds`, `CallFails`, `EndRoute` | `async_route`, `_async_send_channel`, `_async_send_tts` and the TV and Hume calls |
| `WorldChanges` | players, occupancy, quiet hours and phones, at every suspension |

### 2.6 RuleRegistry

`files` is the configuration on disk, as texts with what they include, call and
route.  An operation in `ops` is a scan with its task: the set-up's, the
timer's, a service's refresh, or the look for an unknown key before a rule is
saved.  `Read` reads one file, so that edits (`EditFile`) fall between two of
them; `ScanEnds` reads the texts with routes again, as the code does; `Adopt`,
`Save`, `SaveRules` are the stretches on the event loop and of the stores.
An included file that is not allowed is passed over when its turn comes, and is
an issue of the file that includes it; a scan that reaches `FileLimit` ends
with an issue about the rest.
`since` in a scan and in a registry collects the texts each file has had since
the scan took its time, which is what the properties compare with.  `Entry`
with `MergeEntry` is `_merge_registry_entry` over all calls of a key, in the
order of the scan and then of the routes, from `NoEntry` on;
`Effective` is `resolve_channels` with `effective_policy`.  Registry and rules
are kept per generation: a scan of a replaced coordinator goes on.

### 2.7 Lifecycle

`op` is where the set-up or unload in progress stands, `entry` what Home
Assistant makes of the entry, `gen` the newest coordinator.  `runs` are the
runs of `_async_register_lovelace_artifacts` in progress, the one that the
set-up awaits (`Main`) and those that timers started; `closed` and `retry` are
`_closed` and `_retry_unsub` of each generation's registration.  `home`,
`lovelace`, `boards`, `resource`, `disk` are Lovelace: how it is used, whether
it is up, what it shows and what it stores.  `hushed`, `upkeep`, `tidy`,
`speech`, `cache` are the audio cache with its timer, its lock and its threads.

| action | code |
|---|---|
| `SetUp`, `AudioReady`, `Refreshed`, `ServicesUp`, `PlatformsUp` | `async_setup_entry` |
| `SetUpFails`, `Cleanup` | its `except` branch, at each await; then `Drained` |
| `Unload`, `Drained`, `Unloaded` | `async_unload_entry`; platforms may refuse, the final save may fail |
| `Begin`, `Look`, `Put`, `Check`, `List`, `SaveLayout` | one run of the registration, between its awaits |
| `RetryFires`, `UpkeepFires` | the timers |
| `Speak`, `TakeLock`, `Tidied`, `Stored` | deliveries that store audio, upkeep, their lock and threads |
| `LovelaceStarts`, `UserEdits`, `Crash` | the environment |

An exception in a run is not a retry: it ends the registration (`Raises`).

### 2.8 Feedback

`mem[g]` is the part of the `RuntimeState` of the coordinator of the `g`-th
set-up that is shown and counted, `pending[g]` what its `Store` has not written
yet, `disk` the file; with `happened`, which only serves the properties: what
was really counted on which day.  `gen` is the coordinator in charge and `phase` where its
life stands.  A delivery (`sends`) goes through its channels one by one
(`Send`), and is recorded at once after the last (`Record`); phones show it
(`shows`) from the moment its channel is done, so that `Press` may come before
`Record`.  An identifier that is acknowledged again moves to the front of the
acknowledged ones.

| action | code |
|---|---|
| `Arrive`, `Checked` | a request before it is queued, and its drop (`async_handle_service_notify`, `_record_drop_metric`) |
| `Start`, `Summarise`, `Test`, `Announce`, `Send`, `Record` | `async_process_notifications`, the test buttons, announcements, `_record_dashboard_delivery`, `_record_delivery` |
| `Press`, `Call` with `Acknowledge` or `Snooze`, then `ClearPhones`, `AskWritten`, `Answered` | the stretches of `async_acknowledge` and `async_snooze_flow`, with `_async_emit_action_feedback` between them |
| `Dismiss` | `_mark_notification_cleared` |
| `SendSaves`, `SendWritten` | the task that saves after a record, a request's save |
| `Close`, `FinalSave`, `FinalWritten`, `SetUp` | a reload: `async_shutdown`, `async_unload_entry`, `_async_setup` |
| `Restart`, `Midnight` | a crash and a start with what is stored; the date |

Whatever is suspended belongs to the coordinator that it began with, `gen` in
its record: it changes that one's memory and saves through that one's store
(`_async_persist_and_publish` 1283-1286), also when a reload has replaced it
meanwhile.  When such a store writes, the file is older than what the
coordinator in charge has saved, and `late` says so until that one writes
again.  `AckVisible` then promises the memory only, and nothing any more
(`Missed`) if the next set-up or restart loads such a file.  A call that comes
after the final state was taken is answered, and missing in the file
(`AckKind`); it is promised nothing either.  `Kept` forgets the memory of a
replaced coordinator that nobody will change or save any more.

## 3. Runs

| run | checks | shows |
|---|---|---|
| `MCQueue` | `TypeOK`, `SingleWorker`, `Wakeup`, `Retained`, `WiredShutdownFinishes`, `ImplementsReliableQueue`, `EventuallyProcessed`, `CallsReturn` | the queue with a concurrent, cancellable `async_flush_now`, early timers and a failing delivery; the shutdown leaves nothing as long as it alone flushes, which is how the integration uses it (`coordinator.py` 1046) |
| `MCAdmission` | `TypeOK`, `DuplicatesApart`, `CooldownHeld`, `SnoozeKept`, `FileAdvances` | deduplication, cooldowns, snoozes and stamps over requests in flight, previews, reloads and crashes |
| `MCAdmissionRepeats` | `RepeatsApart` (violated) | a repetition is let through inside its window when an equal request with a shorter window came between |
| `MCDelivery` | `TypeOK`, `SpokenOnce`, `ResultsHonest`, `GuardedPermitted`, `NoResurrection`, `TextPermittedUnrendered`, `Ends` | the captured rule holds at the transport, results are true, every delivery ends |
| `MCDeliveryRendered` | `TextPermitted` (violated) | with occupied-room routing, AI rendering lies between the check and an unguarded text channel |
| `MCControls` | `TypeOK`, `LastEditWins`, `InheritedFollows`, `OfflineAgrees`, `EditTakesEffect` | the latest edit wins, the rest follows the configuration, every options edit takes effect |
| `MCControlsReplay` | `NoStaleForm` (violated) | after a set-up that could not read the file an old options update comes back |
| `MCChannelSelection` | `TypeOK`, `WithinRule`, `CalledInPlace`, `OneSpeaker`, `PreviewAgrees` | where a request is heard, by how many devices of a room, and whether the preview told the truth |
| `MCChannelSelectionRule` | `SoundWhereOccupied` (violated) | under occupied-room routing a rule's room is reached although nobody is in it |
| `MCRuleRegistry` | `TypeOK`, `Honest`, `ShownIsUsed`, `PolicySaved`, `EventuallyCurrent` | overlapping scans of two coordinators give an honest registry that catches up, and rules are kept |
| `MCLifecycle` | `NothingLeft`, `UserLayoutKept`, `EventuallyRegistered` | failed set-ups, unloads and restarts leave nothing behind, overwrite nothing of the user's, and the registration is made |
| `MCFeedback` | `AckVisible`, `CountsAgree` | acknowledgements show everywhere and outlive reloads and crashes, counters are those of their day |

The properties are stated, each with the promise it is about, at the end of
the module they belong to.

### 3.1 Bounds

- Queue: three notifications, two of one group with a summary window of two
  ticks and one immediate of another group; one flush caller; one failure; two
  worker names, so that a second worker would show.  Two members of a group are
  what it takes for a late arrival to join a batch that is being delivered,
  retried or removed; the third lets another group overtake.
  `WiredShutdownFinishes` is `ShutdownFinishes` as long as the flush caller has
  not called.
- Admission: two casts.  In one, three requests, two of them equal with windows
  of 2 and 3 ticks and one with a window of 1 that prunes in between; in the
  other, a request with a cooldown, a forced one and a snooze of their flow;
  times 0 to 3, which is beyond the longest window; two generations: the first
  crash or reload is where things get lost, and the second generation still
  receives late writes of the first.  One stamp of a notification is kept, so
  that a delivery of either fingerprint drops that of the other, and one
  request's cooldown is that of its notification (7.8 million states).  `MCAdmissionRepeats` has four requests, three of them equal with
  windows of 3, 1 and 3 ticks and one of another fingerprint, whose check prunes;
  one generation, nobody who snoozes, times 0 to 2.
- Delivery: a user's phone, a speaker with a fallback target, a text channel;
  two users, one room; four requests: text-only quiet hours with and without an
  entity that says nobody is home, one selected user, occupied-room routing;
  two changes of the world during the delivery: one that
  invalidates a check and one that makes it look valid again.

- Controls: the level of a discovered channel, the cooldown of a flow and the
  switch of AI, which are the three kinds of controls that share a setting with
  the configuration; two values; two YAML files, with and without the settings;
  options and files of an older release, or none.  Two edits are enough for an
  older update to come after a later edit, and for one edit to follow another
  during a reload; one crash or failed set-up, because the state it leaves
  depends on the file, the options and what was unsaved only.  The same instance with three edits was checked once for the invariants.
- Channel selection: two rooms, one with two spellings; nine channels that
  cover the kinds with a device and the ways to name a room: by the channel, by
  a mapping, under two spellings at once, not at all, and a TV without a
  service; twelve requests, one for
  each strategy and each way to overrule it; homes in which all, some or none of
  the players and rooms count, and one change between any two of them at any
  suspension.
- Rule registry: an automation file, a package it includes and a file it may
  not, a file of scripts; three texts: literal calls, another call of the same
  key, a selected-event route; two layouts that differ in a file, one edit, one
  failure, two coordinators, one service call beside the timer.  A scan reads at
  most two files, so that an edit falls between them; with the package there
  are three, and the scan stops at the limit (1.5 million states).
- Lifecycle: two set-ups, two failures or crashes, one edit of the dashboard,
  one delivery, a cache that keeps one file and may start with two; one retry
  run beside the one the set-up awaits; all four ways to use Lovelace.  The
  second failure lets an unload fail after a run of the registration has, or a
  crash follow either.  More of each is covered by the proof.
- Feedback: two notifications, one with a separator in its identifier; a phone
  before the feed; one delivery at a time, two answers, lists and
  acknowledgements of length one, so that each is dropped for another; and
  three of these: a request, a delivery, a midnight, a reload, a crash.  With
  three, a delivery and its answers lie on both sides of a reload, and a second
  reload or a crash loads what the first coordinator wrote late; two deliveries
  lie around a midnight, or around a reload (3.7 million states, behaviours up
  to 27 steps long).  More events are covered by the proof.

### 3.2 Fairness

- Queue (`FairSpec`): weak fairness of the event loop's steps, which resume a
  task whose lock is free, run a timer that is due and end a delivery; and of
  the clock.  No fairness for anybody's call, for a cancellation or for a
  failure.  Weak fairness of the disjunction is enough because the lock is FIFO
  and only one task can go on at a time.
- Delivery (`FairSpec`): every awaited call ends.  `_async_call_service` has a
  timeout (`router.py` 2107-2114).  For the calls of persistent_notification,
  logbook and system_log (`router.py` 1430-1462), `play_media`
  (`channel_tts_hume.py` 137), and `turn_on` and `volume_set` (`router.py`
  1801-1817) nothing in the code enforces it: a hanging one would stall the
  single delivery worker.
- Controls (`FairSpec`): Home Assistant sets up an entry that is neither
  disabled nor removed (`Start`), and goes on with each set-up, unload and save
  that it has begun.  A set-up fails at most `MaxStops` times: Home Assistant
  retries one that is not ready.  Nobody has to edit, refresh or reload.
- Rule registry (`FairSpec`): timers fire, threads end, writes are done.
  Nobody has to call, edit or set up; `EventuallyCurrent` rests on the timer
  alone, and on finitely many edits and failures.
- Lifecycle (`FairSpec`): the event loop goes on with a set-up, unload or run
  it has begun, timers fire, threads end, Lovelace comes up.  No fairness for
  deliveries, unloads, edits or failures.
- Admission, channel selection and feedback have safety properties only.

`CHECK_DEADLOCK FALSE` is set where the system may stop: all calls have
returned and the queue is empty or closed, the clock has reached its bound, the
one delivery is over.

### 3.3 What the violated runs show

- `MCAdmissionRepeats`: the dedup cache keeps one reservation for a fingerprint,
  and each reservation replaces the last (`coordinator.py` 1877).  An equal
  request with a shorter window that has come when nothing suppressed it leaves
  its own, shorter one; when that is over, `_prune_dedup_cache` forgets it,
  and a repetition of the first request is let through although the first's
  window is not over.  `DuplicatesApart` states what is left of the promise.
- `MCChannelSelectionRule`: `docs/options.md` 82 says of occupied-room routing
  that an explicitly chosen room requires confirmed occupancy as well.  The code
  asks whether the room of the channel is occupied (`router.py` 807-810).  Under
  a rule with a room, the device is the one that the channel's `room_targets`
  name for that room (1626-1630), and the occupancy of that room is never asked
  for: a TV channel of the occupied kitchen plays on the device it has for the
  empty bedroom.
- `MCDeliveryRendered`: `async_route` renders after the last check, and only
  remote and local transports have the `before_send` guard.
- `MCControlsReplay`: the coordinator is registered before its state is read.
  When reading raises, the cleanup shuts it down like any other, which saves a
  blank state; the consumed revisions are lost with the file, and the options
  update that is still in the options overrules the later edit of the entity.
  `MCControls` assumes that the file can be read (`LoadMayFail = FALSE`).

The same early registration lets a form that is opened during the set-up read a
coordinator that has no state yet: it shows inherited values instead of stored
ones.  `MCControls` assumes that nobody uses a form during the set-up
(`FormsInSetup = FALSE`); with `FormsInSetup = TRUE` and a readable file TLC
finds `NoStaleForm` violated as well, since an update that is submitted in that
window has no listener and waits for the next refresh.

Some properties of passing runs state an exception, because the code has it.

- `WiredShutdownFinishes` assumes that nobody but `async_shutdown` flushes.
  Without that it is false: a worker that another `async_flush_now` or an early
  timer started and that has found nothing waits for the lock in its `finally`
  clause, still counted as `_flush_task` (`queue.py` 246); a notification is
  accepted; `async_shutdown` closes the queue (167), sees a worker and awaits
  it (171); the worker ends without another look, and the closed queue
  schedules nothing.  Inside the integration nobody else flushes.
- `DuplicatesApart` excepts the shorter window of `MCAdmissionRepeats`, and is,
  like `CooldownHeld`, void across a crash or a late write; `SnoozeKept` is void
  across a late write.
  `FileAdvances` speaks of the time until the first late write: a handler that
  outlives its coordinator writes that one's stamps over newer ones.
- `PolicySaved` holds while no save of a replaced coordinator came last: a
  service call that outlives a reload writes its rules over newer ones.
- `UserLayoutKept` excepts a run that had looked for the dashboard before the
  user's edit and saves after it.
- `EventuallyRegistered` excepts a registration that an exception has ended,
  after which nobody retries.
- `CooldownHeld` is about deliveries that came before the check: the cooldown is
  looked at on admission only, so that two requests that are admitted before
  either is delivered are delivered closer together.  And it lasts as long as
  the stamp: one of a notification gives way when 2048 others have been
  delivered since.  `FileAdvances` has the same exception.
- `AckVisible` promises nothing across the loading of a file that a replaced
  coordinator wrote last, nor to a call that came after the final state of a
  reload was taken; each of the three exceptions (`late`, `Promised`,
  `AckKind`) is needed, TLC finds a counterexample without it.
- `CalledInPlace` asks, for every request under occupied-room routing, that the
  room of the channel is occupied, which is what the code checks; that the
  device is in an occupied room is asked when no rule, device or group turns
  the sound elsewhere (`MCChannelSelectionRule` shows what a rule can do).  A
  forced call of a service that takes no device is heard wherever that service
  is.
- `PreviewAgrees` excepts a TV for which there is no service: the preview plans
  it (`router.py` 1274), the delivery reports an error (1579-1581).
- `OneSpeaker` excepts forced requests, those that name a device, those of a
  rule or a group under occupied-room routing, and homes in which no device of
  the room could be heard when channels were selected.

## 4. Proofs

Every invariant and every action property of the passing runs is the statement
of a theorem.

`NotificationQueueProofs` proves, for every finite set of notifications, all
sets of callers and workers, all groups, windows and retry delays, for eager
and lazy task start alike, with the assumptions of `NotificationQueue`:

| theorem | statement |
|---|---|
| `TypeCorrect` | `Spec => []TypeOK` |
| `SingleWorkerAlways` | `Spec => []SingleWorker` |
| `NoLostWakeup` | `Spec => []Wakeup` |
| `NothingLostNothingTwice` | `Spec => []Retained` |
| `ShutdownEmptiesTheQueue` | `Spec => []WiredShutdownFinishes` |
| `Refinement` | `Spec => ImplementsReliableQueue` |

`AdmissionProofs` proves, for all requests, fingerprints, windows, cooldowns,
histories and snoozes and every number of reloads and crashes:

| theorem | statement |
|---|---|
| `TypeCorrect` | `Spec => []TypeOK` |
| `DuplicatesStayApart` | `Spec => []DuplicatesApart` |
| `CooldownsHold` | `Spec => []CooldownHeld` |
| `SnoozesAreKept` | `Spec => []SnoozeKept` |
| `TheFileAdvances` | `Spec => FileAdvances` |

`ControlsProofs` proves, for all settings, values, layers, files and every
number of edits and crashes, with the assumptions of `Controls`:

| theorem | statement |
|---|---|
| `TypeCorrect` | `Spec => []TypeOK` |
| `LatestEditWins` | `Spec => []LastEditWins` |
| `InheritedAlwaysFollows` | `Spec => []InheritedFollows` |
| `OfflineAlwaysAgrees` | `Spec => []OfflineAgrees` |

The last three assume `~FormsInSetup` and `~LoadMayFail`, without which the
violated runs show the first of them to be false.

`ChannelSelectionProofs` proves, for all channels, rooms, spellings, mappings,
requests and courses of the home, with the assumptions of `ChannelSelection`:

| theorem | statement |
|---|---|
| `TypeCorrect` | `Spec => []TypeOK` |
| `RuleRoomHolds` | `Spec => []WithinRule` |
| `CallsAreInPlace` | `Spec => CalledInPlace` |
| `OneSpeaks` | `Spec => []OneSpeaker` |
| `PreviewTellsTheTruth` | `Spec => []PreviewAgrees` |

`DeliveryProofs` proves, for all users, channels, targets, rules and courses of
the world:

| theorem | statement |
|---|---|
| `TypeCorrect` | `Spec => []TypeOK` |
| `SpokenOnceAlways` | `Spec => []SpokenOnce` |
| `ResultsAlwaysHonest` | `Spec => []ResultsHonest` |
| `GuardedAlwaysPermitted` | `Spec => GuardedPermitted` |
| `TextAlwaysPermitted` | `Spec => TextPermittedUnrendered` |
| `NobodyResurrected` | `Spec => NoResurrection` |

`LifecycleProofs` proves, for every number of set-ups, failures, retry runs and
deliveries and every use of Lovelace:

| theorem | statement |
|---|---|
| `TypeCorrect` | `Spec => []TypeOK` |
| `NothingLeftEver` | `Spec => []NothingLeft` |
| `UserLayoutAlwaysKept` | `Spec => UserLayoutKept` |

`RuleRegistryProofs` proves, for all files, texts, includes, calls, keys and
rules and every number of set-ups, overlapping scans, edits and failures:

| theorem | statement |
|---|---|
| `TypeCorrect` | `Spec => []TypeOK` |
| `RegistryIsHonest` | `Spec => []Honest` |
| `RulesAreSaved` | `Spec => []PolicySaved` |
| `ShownIsWhatIsUsed` | `Spec => []ShownIsUsed` |

`FeedbackProofs` proves, for all channels, notifications, deliveries and
answers, every length of the lists and every number of midnights, reloads and
crashes:

| theorem | statement |
|---|---|
| `TypeCorrect` | `Spec => []TypeOK` |
| `AcknowledgedIsShown` | `Spec => []AckVisible` |
| `CountersAgree` | `Spec => []CountsAgree` |

None of these invariants is inductive alone.  That of the queue is the conjunction of
`TypeOK`; `WaitsMatch`, that only a waiting call awaits a worker and that a
notification's call is new, queued or rejected; `SingleWorker`; `BatchPending`,
that a worker's batch is still in the queue; `Retained`; and `Wakeup`.  `Wakeup`
needs `SingleWorker`, since a timer is set exactly when no worker lives;
`Retained` needs `BatchPending` and `SingleWorker`, or a second worker might
remove what the first is delivering.  The refinement adds `ArrivalOrder`, that
accepted notifications have distinct arrival numbers, so that the oldest due
notification, and with it the group of a batch, is unique.  The shutdown has
an invariant of its own, `Ending`: as long as nobody else flushes, no task waits
for the lock before the shutdown makes everything due, so no worker is between
its last batch and its end at that moment, and the one that the shutdown awaits
has all that is pending before it (`SeesAll`).

For `Admission` the promises are about requests, and what keeps them is what
each copy of the state remembers: the memory of the coordinator in charge
(`InMemory`), and, while the entry is being unloaded, the snapshot and the file
that the next coordinator will load (`OnTheWay`).  To remember a request is to
hold its reservation, a later one, or to have let a shorter one run out in the
meantime, and a stamp no older than its delivery.  `Honest` says that every
dedup entry of every copy was made by a request that was let through without
force; `Apart` and `Held` state the two promises for what is reserved and not
yet enqueued, too; `Snoozes` follows a snooze from the memory to the file;
`Recorded` says that every stamp is that of a delivery, so that what has taken
the place of a dropped one was really delivered; `Advancing` puts file,
snapshot and memory in order.  To have a stamp is `HasStamp`: that or a later
one, or as many as are kept that are as late.  Crashes and late writes
begin a new era, in which nothing is owed to the one before.

For `Controls` the invariant is about copies: the coordinator's state, the
waiting snapshot and the file each hold the latest edit of every control, or
have an update pending that will make it (`Current`, `EditsKept`); what is not
in the file is in a snapshot (`Snapshots`); a synchronised control has nothing
pending (`Consumed`), which is what keeps an old update from overruling the
entity; revisions are numbers of edits, so that a new one is pending in every
copy (`Revisions`); and what follows the configuration is up to date
(`Inheriting`).

In `ChannelSelection` the target of a call is resolved by `Prepare` in one
stretch from constant mappings, and with it everything that is left to fall
back to; so the invariant is `TypeOK` with `WithinRule`, and the work is in the
operators: each of `TargetEntity`, `RoomAudio`, `TvService` yields, under a rule
with a room, a device that the configuration names for that room alone, or
nothing, and `RoomRejects` refuses the channel in the second case.
`TruthfulAssumption` turns "named for" into "heard in".

`OneSpeaker` and `PreviewAgrees` compare what is done with what was selected at
the start, and both need `Course`: only selected channels have results, one is
served at a time, and none is left at the end.  `AsPreviewed` says that in a home
that has not changed the preview is what the home gives, and that each result so
far is as told there.  For one speaker per room, the sort keys of two channels
never tie, because names differ; of two devices of one room the selection
therefore keeps the one before the other; and `OwnRoom` carries the room for
which a channel was kept to the target it is called with.  That the first of a
set of ordered targets exists is the well-foundedness of the natural numbers.
`CalledInPlace` follows from `OwnRoom` and the guard's own check, since nothing
is awaited between that and the call.

In `Delivery` the action properties need an invariant about what lies between
check and call: nothing runs between them, or the text is being rendered
(`ReadyPermitted`); who was removed is in no audience and nothing under way is
theirs (`RemovedAreOut`); a channel without a result has not been heard
(`Outcomes`).

In `Lifecycle`, `NothingLeft` speaks of the moments between set-ups and unloads
only.  `Phases` says what there is at each of their steps; `Registered`, that
timers are set by, and runs belong to, the one registration that is `Live`, or
one that is closed and will set no timer; `Tended` the same of the audio caches
with `Alive` and `hushed`, and that the cache of a listening coordinator is
looked after.  Every step of a run is first shown to be an `Advances`, which
says what any run may do to the rest.  For the user's layout, `Warned`: it
is in the stored list, where every later look for the dashboard finds it, and
every run that is past that look is marked late.

In `RuleRegistry` each scan is `InOrder`: it has read nothing but what was there
since it took its time (`Current`), and what it should read it has read, named
as an issue, or has still to do (`Covers`); `Listed` says the former of every
registry.  `SetUps` says that a set-up in progress is the one of the coordinator
in charge, whose listeners are not there, and `Saved` that from its first moment
on its rules are those of the file, but for a save under way, failed or
overtaken.  `ShownIsUsed` needs no invariant beyond the types, but what the
recursion over all calls of a registry computes: an entry `Claims`, for each
call of its key merged so far, the same channels and request, or is ambiguous.

In `Feedback` each copy of the state, in every memory, every store and the file,
is `Sound` by itself: acknowledged identifiers are marked wherever they are
listed (`Shown`), each is kept once and no more than the limit (`Bounded`), and the counters are
those of the day of the copy (`Tallied`).  `Remembered` says how far on its way
each acknowledgement is: the memory in charge has it; once it is `Given`, so has
what the store in charge is to write; and the file has it when that is written,
or at once if it is `Settled`: the call has returned, belongs to a coordinator
that a reload has replaced, or the final state is written.  A reload needs no
more than that: the final save gives everything, and what is left to do for the
old coordinator is settled.  A late write takes the promise of the file back,
and loading such a file all of it, so that `SetUp` and `Restart` have to show
nothing for these.  `TypeOK` says that nobody acts for a coordinator that is yet
to come, so that the store of the next one is empty.

What recursive functions compute (the sums and tallies of `Feedback`, the
flattened calls and merged entries of `RuleRegistry`) is proved by induction
over a set of numbers (`Induction`), a consequence of the well-foundedness of
the natural numbers, once the function is shown to exist.  For the same reason
`Acked` and the registry's operators are written with functions, index sets and
recursive functions where a library operator would hide the recursion.

Each action's preservation is a lemma with one step per conjunct it can
disturb; the theorems combine them with `PTL`.

Only model-checked: liveness, that is `EventuallyProcessed` and `CallsReturn` of
the queue, `Ends` of `Delivery`, `EditTakesEffect` of `Controls`,
`EventuallyCurrent` of the registry and `EventuallyRegistered` of the lifecycle
(fairness and ENABLED are outside the prover).

## 5. What is not modelled

- The queue's model leaves out a caller that is cancelled while it waits for
  the lock, and a delivery that itself calls `async_flush_now` (a deadlock that
  no code of the integration can reach).  A notification's group is constant,
  although `_group_key` is computed from a context whose audience a check may
  have narrowed between two attempts.  Delivery inside a batch is one step:
  a batch whose second notification raises is repeated as a whole.
- Admission leaves out metrics, traces and history lists, and the set-up that
  fails.
- Delivery leaves out rules that name unknown users or rooms (they block), the
  summary of several notifications, and the wording.  A call that raises is
  taken not to have played.
- Channel selection leaves out payload texts; families, levels, audience and
  remote restrictions are a set of barred channels (what the audience and the
  restrictions do over time is in `Delivery`).
- Controls leaves out the coercion of values to a control's type, buttons, the
  flow overrides of old stores, announcements, the two controls whose edit is
  also passed on to another entity before it is saved, and settings of the form
  that are no controls.
- Rule registry leaves out YAML and template parsing (constants of each text)
  and the sizes of files.
- Lifecycle leaves out the sidebar's visibility, other dashboards in the same
  store, age and size in bytes of cached audio, and Hume's HTTP call.
- Feedback leaves out decisions, traces and latency figures, a save or an unload
  that fails, and the set-up that fails.  Which
  notification a user meant by a button whose token was cut short is no state
  of the program; `Cut` models that another one is acknowledged.
- Request normalisation (`request.py`, `context_builder.py`, `flows.py`) is a
  pure function whose result is the constant context of the other models.
  Plugins and discovery produce the channel definitions, which are constants.
  AI and characters are suspensions.  Rule options, schemas, entities,
  diagnostics, translations and the card are presentation.

## 6. Plan

1. *Delivery by ChannelSelection.*  A refinement: the route of
   `ChannelSelection`, with a rule of room and quiet hours, implements
   `Delivery` with its open choice.  It needs the audience in
   `ChannelSelection`, and a world that shows both.
2. *Batches.*  A batch of the queue whose second notification raises is
   repeated as a whole; the queue composed with two deliveries would show what
   is delivered twice.
3. *Flows that vanish.*  Flows are constants of `Admission`; a reload or a
   discovery may take one away while its notifications wait.
