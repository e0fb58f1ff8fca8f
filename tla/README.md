# Santroller: a TLA+ verification project

Santroller is firmware for guitar, drum and dance controllers on RP2040/RP2350
boards. It emulates many consoles' controllers from one configuration, which a
tool uploads over USB or Bluetooth and the firmware keeps in flash. These
modules specify the part of it whose mistakes are the hardest to see and the
most expensive to make: how that configuration, and the Bluetooth pairings that
live in it, get from the tool and the radio through a cache in RAM to flash,
while the device goes on running, reloading, losing power and losing its tool;
how a second board that reads inputs for the first is kept in step with it
over a bus that fails; how two tools share one device across reloads that drop
their connection; how firmware is updated through a lossy stream; how a console's
authentication follows the controllers that provide it; how Bluetooth controllers are found,
paired, connected, woken and forgotten; and which USB devices a load of the config takes over from the one before.

Paths below are relative to the repository.

## The system

| Component | State | Operations | Talks to |
|---|---|---|---|
| `FlashPROM` (`src/config/FlashPROM.cpp`) | the last sectors of flash, `writeCache`, when the waiting commit is due and what it commits, the flags two cores share | `start`, `commit`, `commit_now`, `tick`, `flush`, `write_range`, core 1's loop | `ConfigStorage` above, both cores' USB below |
| `ConfigStorage` (`src/config/config_storage.cpp`) | `m_upload_active`, `m_previous_footer`, `m_preserve_flash`, the cache itself | `write_info`, `write_chunk`, `abort_write`, `update_auxiliary`, `commit_auxiliary`, `save` | `FlashPROM`, the encoders of `config.cpp` |
| Config coordination (`src/config/config.cpp`) | `aux_pending`, `aux_commit_pending`, `config_commit_pending`, `save_after_upload` | `write_config_info`, `write_config`, `save_config`, `abort_config_write`, `save_bluetooth_aux`, `flush_pending_aux`, `update_aux_*`, `load` | `ConfigStorage`, `ConfigManager`, the loader |
| Main loop and `ConfigManager` (`src/main.cpp`, `src/managers/config_manager.cpp`) | working, reinit time, reloading, requested and current mode | `reload_config`, `hid_task`, `update`, presence and gates | everything, in a fixed order |
| Config tool session (`src/emulation/usb/hid_config_device.cpp`, `src/emulation/bt/bt_config_service.cpp`) | which transport owns the device, keepalive, read and write position, event queue | feature reports, events | config coordination, firmware update |
| Firmware update (same file) | block, chunk and firmware offsets, target, stall time | begin, chunk, finish, give up | the bootloader's download slot, the secondary Pico |
| Secondary Pico (`src/devices/secondary_pico.cpp`, `lib/secondary_pico`) | transfer in flight, configuration to send, update stage; the slave's event queue | poll, send, update, reconnect | a second board over I2C |
| Device gates, USB host presence (`src/config/device_gate.cpp`, `include/emulation/usb/usb_host_presence.hpp`) | debounced pins and host state | poll, update | ask for reloads |
| Loader, profile and device managers (`src/config/config_loader.cpp`, `src/config/instance_factory.cpp`, `src/managers`) | devices and profiles built from a config, the USB interfaces and what identifies them, the mode | apply, create, reuse, tick | everything that has inputs and outputs |
| Classic Bluetooth (`src/devices/bluetooth.cpp`, `bt/bt_classic_rx.cpp`, `bt/bt_host.cpp`, `bt/bt_tlv_storage.cpp`) | devices found, pending connections, slots, hosts that wait or can be picked, keys | discover, pair, connect, reconnect, forget, `btc_tick` | BTstack, `save_bluetooth_aux`, reloads |
| Bluetooth LE (`bt/ble_rx.cpp`), the protocols of each controller | links, bonds | pair, connect | as above |
| Xbox One authentication (`src/emulation/usb/xone_device.cpp`, `src/usb/auth_broker.cpp`, `src/devices/xbox_one_auth.cpp`, `src/devices/usb/host/xone_host.cpp`) | the provider that is registered, who gets its responses, how far the console's authentication is | open, start, authenticate, reset, register and unregister | the console, controllers on the USB host, auth chips, reloads |
| Other USB emulation, inputs, mappings, triggers, LEDs, peripheral libraries | reports and pin state | conversions | hosts and peripherals |

What is hard here, and no unit test of one component reaches:

- **Three copies of one thing.** Flash, the cache and what is running each hold a
  config; the cache's changes in place, is committed 50 ms after the change
  that asked for it, and can be half overwritten by an upload at the time.
- **Two writers of one image.** The tool uploads the main config together with
  its own, perhaps older, copy of the pairings; the device changes the pairings
  whenever a controller pairs, also from an interrupt (CYW43).
- **Requests held back.** A save during an upload waits for the upload, then for
  the reload, then for the pairings; an abort, another upload or power going may
  come at any point of that chain.
- **A loop that calls itself.** `send_reload_event` services USB between the
  decision to reload and the reload; uploads and saves may be handled there.
- **Failure.** Power is cut between erase and program, the tool goes away, the
  last chunk's CRC doesn't match, a block doesn't fit, the stored config doesn't
  decode.
- **Two boards.** The second one's inputs are registered, sent, changed and read
  over I2C while either board restarts, a transfer fails before or after being
  acted on, and two updates of its firmware, the master's and the tool's, meet.
- **Two tools.** One over USB and one over Bluetooth share a read and write
  position and a queue of four events; a reload drops a connection whose tool may come
  back, may be asleep, or may be gone.
- **A callback and a loop.** BTstack hands requests over from an interrupt, asks again
  for their answers, and cuts connections anywhere in between.
- **Controllers that act by themselves.** They connect, drop links, are found and forget keys while the device does the same
  to them; connections are told of by one event after the other, and btc_tick creates and destroys hosts in between.
- **Clocks.** Debounced pins, hosts that come and go and reloads that are due are
  compared with a millisecond counter that wraps.
- **Two loads.** A load builds its USB devices interface by interface, takes over those that would come out the
  same, and must know in the end whether the host noticed.
- **Two cores.** Core 1 keeps USB devices alive with start of frame packets
  while core 0 writes flash, and has to start and stop at the right time.

What makes the modelled components correct:

- `FlashPROM`: what a commit wrote is what it was to write; only one core drives
  the bus; every write ends.
- `ConfigStorage`: cache and flash hold readable images, except the cache during
  an upload; the replaced footer lives as long as its upload.
- Secondary Pico: it has the inputs registered last, under the ids they were
  given; the master has its inputs as they are; an update is finished only whole,
  and one that doesn't take is given up.
- Tool session: a tool's place in the config is its own; nothing changes the mode under a tool; every tool
  hears of reloads, and what waits for a tool to go comes about.
- Bluetooth service: answers belong to their requests; writes are done once and in order; nobody waits for ever.
- Firmware update: a block is written whole or not at all; an update that stalls ends.
- Gates and presence: only what has settled causes a reload, and what was plugged in is loaded in the end, though it
  changes in the middle of a load.
- Classic Bluetooth: each connection has its own slot and host, nothing is left of an attempt that failed, keys agree, and a Switch controller
  that dropped its link is paged.
- Authentication: each end of the broker has one owner; authentication that was skipped is restarted.
- Loads: devices never share an endpoint; a host that stays connected has what it enumerated, and one that is dropped
  was dropped for a reason.
- Coordination: no commit over an upload; no pairing lost; nothing unsaved in
  flash; a config that couldn't be loaded isn't written over; uploads, saves and
  pairings come to an end.

`PROJECT.json` has the full list of components and, under `hazards`, each place
the code is exposed, with the properties that cover it or why none does yet.

## Modules

| Module | Models |
|---|---|
| `FlashProm` | `FlashPROM`: flash and the cache as sectors, the waiting commit, a write as a job that goes sector by sector, erase then program |
| `ConfigStorage` | `ConfigStorage` on top of it, each operation as the values it leaves |
| `ConfigSystem` | `config.cpp` and the main loop, composed with `ConfigStorage` (EXTENDS), the tool, Bluetooth and power |
| `ConfigStore` | what the firmware promises of its stored config, without cache, delays and sectors: the abstract specification of `ConfigSystem` |
| `MCConfigSystem` | sizes of the configs and aux blocks for TLC, and the refinement mapping to `ConfigStore` |
| `UsbInstances`, `UsbInstancesProofs` | the USB devices of a load: made, taken over, and when the stack restarts for them; and its theorems, with the types of all of `MCLoads` |
| `MCLoads` | `ConfigSystem` from any flash or `UsbInstances`, one at a time, for TLC |
| `MCSettles` | `ConfigSystem` or `SecondaryPico` under fairness, one at a time, for TLC |
| `ConfigSystemProofs` | lemmas about storage, and the theorems on readable images and commits |
| `ConfigFlashProofs` | the theorems on types, on preserved and saved configs, on what is pending and on pairings, for a device with any flash |
| `ConfigStoreProofs` | the refinement of `ConfigStore`, step for step |
| `FlashSof` | the two cores around a flash write |
| `SecondaryPico` | the I2C master, the second Pico and the link between them, with the tool's update passed on to it |
| `MCSecondaryPico`, `SecondaryPicoProofs` | its inputs for TLC, and its theorems |
| `ToolSession`, `ToolSessionProofs` | the tools' session with the device, the reloads they are told of, the modes that wait for them, and its theorems |
| `BtConfigService` | requests over Bluetooth between BTstack's interrupt and the main loop |
| `FirmwareUpdate` | a streamed update of the device itself |
| `DeviceWatch` | a gated device's pin, the USB host's presence, and the reloads they schedule |
| `ConsoleAuth` | Xbox One authentication and its providers |
| `BtClassic` | classic Bluetooth controllers from discovery to reconnection |
| `MCControllers`, `ControllersProofs` | `ConsoleAuth` or `BtClassic`, one at a time, for TLC, and the theorems of both |
| `MCComponents`, `ComponentsProofs` | `FlashSof`, `BtConfigService`, `FirmwareUpdate` and `DeviceWatch`, one at a time, for TLC, and the theorems of the four |

`FlashProm` is extended by `ConfigStorage` and that by `ConfigSystem`: these compose. `ToolSession` has
the config's state as `working` and the update's as `updating`, what the other modules leave of them
to the session; `FirmwareUpdate` gets from the session's `Accepted` and from `BtConfigService` a tool that is
alone and chunks that may be lost; `DeviceWatch` and `ConsoleAuth` have an upload or a reload as an environment that
begins and ends one; `BtClassic`'s pairings are those whose storage `ConfigSystem` has, and the reload its hosts
ask for is `ToolSession`'s. Composed in full their products are out of TLC's reach.

### FlashProm: how images are represented

A config image is a record `[main, aux]`: the block the tool uploads and the
block the device rewrites (pairings and input states, for which the pairings stand).
`MainSize` and `AuxSize` give their sizes in units; an area (flash or the cache)
has `NSectors` sectors of `UnitsPerSector` units, and the last sector ends with
the footer, which takes no units. A sector is a record `[data, foot]`: `data` is an image when the
sector has that image's bytes wherever the image covers it, laid out against
the footer; or `Torn` (other bytes), `Zero`, `Erased`. `Readable(area)` is
`read_image`: a footer, and every sector the image covers holding that image.
The CRC is exact in this representation: data matches a footer if and only if it
is that footer's data. `AuxSize` and `MainSize` decide which sectors an upload
or an old block reaches, which is what the code's overlaps depend on.

`commit` is `should_commit_at` with `m_writer`: none, the whole cache, or
`commit_auxiliary`. `job` is a `write_range` in progress: `EraseSector` and
`ProgramSector` alternate over the sectors that differ, so that `PowerCut` finds
every intermediate flash.

### ConfigStorage and ConfigSystem: actions and code

| Action | Code |
|---|---|
| `WriteConfigInfo`, `EndInfoFlush` | `write_config_info` → `write_info`, with its flush of a waiting commit |
| `WriteChunkInProgress`, `WriteChunkDone`, `WriteChunkInvalid` | `write_config` by the three results of `write_chunk` |
| `SaveConfig`, `EndSave` | `save_config`, and `save` |
| `ChangePairings` | `save_bluetooth_aux` (pairings, BTstack's bonds) |
| `UpdateInputState` | `update_aux_cycle`, `update_aux_toggle`, `update_aux_arcade_side` |
| `Serviced`, `ReloadDue`, `ModeChanged`, `NoReload`, `BeginReinit`, `LoadConfig` | `main`, `reload_config`, `load` |
| `WaitForUpload`, `UploadStalled` | `hid_task` while working |
| `NothingToFlush`, `FlushSave`, `EndFlushSave`, `FlushAux` | `flush_pending_aux` |
| `Updated`, `CommitDue`, `EndCommit`, `NoCommit` | `update`, `FlashPROM::tick`, `flush` |
| `WriteStep` | `write_range` |
| `RequestReload`, `PowerCut` | gates, host presence and the tool asking for a reload; power |

`pc` is where the main loop is, and `after` what it goes on with once a
synchronous flash write ends. Requests of the tool are handled where the code
services USB: in `tud_task` (`"usb"`), in `send_reload_event` (`"reloadEvent"`)
and while updating devices (`"update"`). With `BtInIrq` a Bluetooth callback may
come between any two steps, flash writes included.

Two variables are not in the code: `asked`, the main configs a save has been asked
for since the last one was done (the footer in the cache when Save is pressed; flash's own once it is written), and
`left`, what the environment may still do.

**The refinement.** `ConfigStore` has the stored image, the main config that runs, the device's pairings, the
pairings the next image is to have and the mains asked for; its steps are a preview, a change of the pairings, a
request to save, a save, the pairings stored on their own, and a restart. `MCConfigSystem` maps to
it: the stored image is flash's, or while flash is being written the one the write
began from or, from its last step on, the one it leaves. Every step of `ConfigSystem` then is one of `ConfigStore`'s
or none (`ImplementsConfigStore`), so that erases, programs, moves in the cache, uploads and aborts
show nowhere in what is stored: it changes as a whole, to a config that was asked for or runs already, with the
device's pairings.

### FlashSof

`ready`, `requested` and `running` are the three flags; `pc0` and `pc1` step
through `flash_write_begin`, `write_range`, `flash_write_end` and
`flash_core1_loop` one access at a time. `frame0` is the PIO USB frame timer on
core 0, an external library: `sof_only` stops it from starting another frame.

### SecondaryPico

| Action | Code |
|---|---|
| `RegisterInput`, `UnregisterInput` | `register_input`, `unregister_input` |
| `FullPoll`, `NothingInFlight`, `InFlight`, `Complete`, `NotNow` | `update` up to what it sends, `complete_transfer` |
| `Reconnected`, `HandleReconnected` | `transfer_succeeded` on either side of the event that tells the tool |
| `OtaStep`, `SendConfig`, `Poll` | what `update` sends |
| `Restart` | `end` and `begin` |
| `HostCall`, `HostWait`, `HostSend`, `HostSent`, `HostRetry`, `HostFailed` | `send_ota_begin`, `send_ota_chunk`, `send_ota_finish` over `host_transfer`, from the tool's metadata and chunks |
| `Retarget`, `HostGone` | metadata for another target, or this one again; `finish_firmware_update`, which cancels what the target has begun |
| `Arrive`, `Miss` | `i2c_slave_handler` on one side, `process_data` on the other |
| `TakeConfig`, `BuildInputs`, `TickInput` | `secondary_pico_coprocessor_loop` |
| `Silence`, `Toggle`, `Reboot`, `Booted` | time, pins, and power of the second Pico |

`transfer` and `phase` are `m_transfer` with its pending, done and ok flags: in
flight, then `ok` or `failed`. `Arrive` may end as `failed`, a transfer that
was acted on and whose end the master didn't see. `silence` is how long ago
`m_last_recv` is against the two timeouts. `pc` is where the master's loop is:
between calls, in `update` after a full poll, in `transfer_succeeded` telling the
tool of a reconnection (`"connected"`), before it sends (`"next"`), or waiting in
`wait_idle` and `host_transfer` (`"hostIdle"`, `"hostBusy"`) with `back` the place the tool's
request was serviced from: it is serviced in `tud_task` and wherever an event is sent. `target` is whose firmware the tool is
sending, `m_updating_firmware` with `m_target_secondary_pico`: nobody's, this second Pico's, or another's, the device's own included.
`hostOta` is this one's `m_host_ota`, which stays as it is when the target changes (`hid_config_device.cpp:871-879`).
Firmware is `ours` or `theirs`; the download slot holds an image's chunks,
erased ones, or what the update replaced. The second Pico decodes a config from
a buffer that the next one may overwrite meanwhile, so `BuildInputs` may leave any mixture of the two.

`left` counts the moves the environment has left. Three variables are history: `owners`, the registrations under each slot; `lost`, the
inputs with an event that was lost or outlived its config; `dropped`, that an update of the
master's ended while the version still counts as checked.

### ToolSession

| Action | Code |
|---|---|
| `Keepalive`, `BeginRead`, `ReadChunk`, `BeginUpload`, `UploadChunk`, `BeginUpdate`, `Disconnect` | the reports of `set_report_from` and `get_report_from`, through `in_use_elsewhere` and `switch_transport` |
| `GiveUp` | a tool that is refused, or whose chunk is |
| `Rpcs3Detected`, `RequestReload`, `EndUpdate` | `rpcs3_detected`, `reload`, `finish_firmware_update` |
| `DeviceEvent`, `Pump`, `ReloadSent`, `LoadedSent`, `Flushed`, `TakeEvents` | `send_event`, `process_events`, `flush_events`, `interrupt_xfer` |
| `BeginReload`, `NoReload`, `Load`, `LoadUnreadable`, `Reattach` | `reload_config`, `load_profile`'s forced mode, `restart_keepalive`, `reattach_device_stack` |
| `UploadGoesOn`, `TaskSkipped`, `ProcessClosed`, `ProcessOpen` | `hid_task`, `process` |
| `OpenTool`, `Silence`, `Vanish`, `KeepaliveLapses`, `GraceEnds` | tools, and time |

A deadline is whether it has passed: `fresh` for the keepalive's second, `grace` for the time a tool is awaited
after the device restarted. `knows` is what the tool that has the device knows of the config that runs, `doing` where a tool
thinks it is in the config, against the device's `start`. A load may restart the stack or not, force a
mode or not.

### BtConfigService

BTstack's side are `Write`, `Stream`, `Prepare`, `Execute`, `Cancel`, `Read` and `AskAgain` (`att_write_callback`,
`att_read_callback`), with `Connect` and `Disconnect`; the main loop's are `TakeWrite` to `Publish`, the stretches of
`bt_config_service_handle_requests` between its locks. `request` and `asked` are BTstack's: the
one request it lets a client have, and whether its response is held back or ready to be asked for again. A write is a
number, and a read returns the last one handled. `clean` is history: a client that comes while the main loop has a
write of the last client's in hand may get that one's answer (478-487 look only at whether some response
is held back); `AnswersTrue` leaves that connection out.

### FirmwareUpdate

`Metadata` (and `InitializeFailed`, `InvalidMetadata`, `MetadataRefused`) is `ReportIdUpdateFirmware`, `SendChunk` with
`Upload`, `WriteBlock`, `WriteFailed` and `Complete` is `ReportIdUploadFirmware`, `ChunkLost` a streamed write that found the queue
full; `Timeout` and `Tick` are the main loop's. The tool is any that sends a block's chunks in order and once for each
accepted metadata, as `bt_config.gatt:55-57` and `config.proto:410-412` ask; it may lose the answer and start any block
over.

### DeviceWatch

`Pass` reads the clock once and is `update_usb_host_presence`; `Poll` is `update_device_gates`; `NotDue`, `BeginLoad`,
`LoadUnreadable` and `Build` are the parts of `reload_config` that look at the pin: `BeginLoad` lists the devices
that stay, `Build` builds them, and `Check` is what the second pass over the config is told. `now` wraps at `Wrap` and differences are taken as unsigned. `dropped` is history: a
reload that was due was lost (see the remarks below).

### ConsoleAuth

`Plug`, `Identify`, `Unplug` and `ChipReady` are the providers; `Claim` and `Release` what they do to the broker; `Open`,
`Start`, `Auth` and `Reset` the console; `Load` a reload, which keeps, replaces or removes the emulated
gamepad, whose new one registers for responses before the old one unregisters (`Replies`); `Process` the gamepad's own turn, with
`NoticeProvider`. `pc` orders the device stack, the host stack, the reload and the updates as the main loop does.

### BtClassic

| Action | Code |
|---|---|
| `StartDiscovery`, `ScanTimeout` | `start_discovery`, `scan_timer_callback` |
| `InquiryResult`, `InquiryComplete`, `NameComplete`, `SdpComplete` | the packet handler's cases, with `connect_to_discovered_device` and `bt_classic_on_inquiry_complete_empty` |
| `SyncReconnect` | `btc_sync_reconnect` from its timer |
| `LinkUp`, `LinkDown`, `LinkLost` | `HCI_EVENT_CONNECTION_COMPLETE`, `HCI_EVENT_DISCONNECTION_COMPLETE`, with `track_switch_link` and `untrack_switch_link` |
| `IncomingConnection`, `Opened`, `OpenFailed`, `Closed` | the HID connection's cases |
| `Authenticates`, `KeyStored`, `AuthFails` | BTstack authenticates a link with the key it has, pairs (`BtTlvStorage::store_tag`), or has its key refused |
| `DescriptorAvailable`, `Report`, `SetProtocolResponse`, `FeatureReport` | what comes over a connection |
| `Tick` | `btc_tick`, all slots of a pass, with `upgrade_to_ps4` and `upgrade_to_ps5` |
| `UpdateHosts` | `bt_host_update_interfaces`, hosts that are ready or have waited long enough |
| `PowerOff`, `Forget`, `EnterPairing` | `bt_host_power_off`, `bt_forget_pairing`, the button on a controller |

BTstack is external: `conn` is its HID connections by cid, each opening, failing (a key was refused), open or
closing, `up` the links and `authenticated` those among them that are. HID connections are let in on an authenticated link, and on
any link of a DS3 that is known (`Keyless`, `hid_incoming_security_level`); a link stays let in when its key is dropped, and
`CONNECTION_OPENED` doesn't look at keys (`Opened`). BTstack gives the first cid that is free to the next connection, and has one connection for a controller. A key is
none, good or stale against the one the controller has. `found` is the state of `devices`. A host is a slot and 1
or 2, what was created for the connection or what that was upgraded to. `bonded` is the controllers' side: those that know the
device, forgotten or not, and connect to it by themselves. `forgotten` is history: those whose key or pairing was dropped while
they had a link that was let in, until that link goes.

### UsbInstances

| Action | Code |
|---|---|
| `Begin` | `ConfigLoader::apply` up to `prepare_for_config_reload` |
| `AssignElsewhere`, `AssignUsb` | a profile that matches: `load_profile`, `create_instance`, `reuse_usb_instance`, `create_usb_instance`, `register_instance` |
| `KeepAdapter`, `AddConfig`, `AddSecurity` | the devices `apply` adds after the profiles |
| `EndLoad`, `EndXboxOneLoad`, `Undefined` | `update_xinput_receiver` and `update_xbox_one_identity` to `sync_requested_mode_to_current` |
| `Reattach`, `Enumerate`, `BusReset`, `SeeWindows` | the device stack and the host |
| `HostDetected`, `RestartStack`, `RequestReinit`, `MicProcess` | what runs between loads and changes what the next one does |

A device is a record of what it is, its `UsbReloadIdentity` and whether the host opened it; `slot` has it once for each
of its interfaces. The devices of the load before are `prev`, and `alloc` is the three static counters. `read` is what the host
enumerated, against `Descriptors`, what it would find now. Which profiles match, in which order, what they force and whether their
player is held are inputs; they may be others at each load.

## Runs

Every run but `components`, `controllers`, `loads`, `mic_as_controller` and `stale_key_offered` checks deadlock: neither main loop ever stops. An update that succeeds ends in a
reboot, and with it `FirmwareUpdate` does; `BtClassic` rests when no controller or person acts any more.

| Run | Instance | Shows |
|---|---|---|
| `config_polled` | 2 uploads, 1 save, 1 reload, 1 power cut (not during a write), any starting config | type invariant, readable flash and cache, commits and pairings, and that `ConfigStore` is implemented |
| `loads` | `ConfigSystem`: blank flash as well, `large` not loadable, empty uploads, power cut during writes, 1 of each. `UsbInstances`: 3 loads of up to 2 profiles of 3 subtypes in 4 modes, 2 moves | preserved and unsaved configs under power loss; disjoint endpoints, a host that is served, restarts for a reason |
| `settles` | `ConfigSystem`: 1 upload, save and reload. `SecondaryPico`: 1 slot, 1 chunk, any 2 failures, restarts and updates of the tool's. Fairness | liveness |
| `pico_link` | 2 slots, a queue of 2, reads of 1, 2 chunks with 2 tries; any 3 moves | ids, the config, events, both updates |
| `tool_session` | 2 tools, a queue of 1, a config of 1 chunk, any 2 moves, fairness | positions, modes, what tools hear, reloads and deferrals |
| `components` | each of `FlashSof` (8 flash operations), `BtConfigService` (2 reports, a queue of 2, 3 writes, 2 connections), `FirmwareUpdate` (4 blocks of 3 chunks, the last of 2, 7 metadata reports), `DeviceWatch` (a clock of 5, any 3 moves) by itself, fairness | the safety, action and liveness properties of the four |
| `controllers` | each of `ConsoleAuth` (2 controllers, 1 chip, any 4 moves) and `BtClassic` (a paired Switch controller, another and a paired DS3, 2 connections and slots, any 3 moves) by itself, fairness | owners of the broker's ends, restarted authentication; slots, pending attempts, hosts, keys, waking |
| `bt_in_irq`, `fallback_commits_upload` | one flag away from the passing runs | findings 1 and 2 below |
| `update_dropped` | `LatestConfig`, the property without its exception | finding 3 |
| `stale_key_offered` | `BtClassic` with 4 moves | finding 4 |
| `mic_as_controller` | `UsbInstances` with gamepads and microphones | finding 5 |

The models in `components`, and the two in each of `controllers`, `loads` and `settles`, share no state. `part` says which one a behaviour is of; the others stay as they are, and
each fairness condition is guarded by its part, so that it asks nothing of them. What is checked is what a run of each would.

**Bounds.** Two sectors of two units: an image covers none, one or both sectors,
so a write has none, one or both to erase and program, and an upload of size 1 or 2 overlaps
the image against the footer or doesn't. Main blocks have sizes 0, 1, 2 and aux
blocks 0, 1, 1 (two different ones of the same size, to tell pairings apart where sizes can't);
every pair but the largest two fits. In `fallback_commits_upload` one aux block has size 2,
so that it doesn't fit beside another. `MaxUploads = 2` is what an upload over
an unsaved upload needs; one save, one reload and one power cut beside them
meet each other in every order. Pairing and input state changes are not
bounded. `MaxOps = 8` in `components` only bounds the operations of one write
so that it ends, as `write_range`'s loop over sectors does; the handshake doesn't depend on it.

In the runs of `SecondaryPico` all inputs start released, and the environment makes at most
`MaxMoves` moves in all, of the kinds in `Moves`: an input registered or unregistered, a pin toggled,
a full poll, a restart of either board, a failed transfer, an update of the tool's begun or given another target. Three
moves are enough for a press, a config sent again and the release in any order, for a slot
to be emptied and handed out again beside a failure, for both tries of a transfer
of the tool's to fail, and for a mismatch that the tool's first update leaves to be met by a second.
The queue of two (`QueueMax` is one more) that is read one at a time overflows with the events of two inputs
and their repetition after a config. One automatic update
(`MaxUpdates = 1`, three in the code) is enough to give updating up. `SlowReboot` says that a
restart takes longer than `disconnect_timeout_ms`. A faster one goes unnoticed, as
`transfer_failed` only then takes the second Pico for gone; a slow one lasts until the master has noticed, also where an update of
another target's pauses polling. With `SlowReboot = FALSE` and a single restart
`LatestConfigUnlessDropped` fails, until the next full poll.

`tool_session`: with `QueueMax = 1` (4 in the code) the queue is full as soon as an event waits, and with one chunk a read or an
upload has a begin and an end for the other tool to come between. A move is an upload or an update begun, a
tool opened or fallen silent, a mode detected or a reload asked for; what a tool does next to it (keepalives,
reads, chunks, leaving) is not bounded, nor are a load's outcomes. `components`: two reports tell an answer from another's, three writes fill a
queue of two and one more; two connections are one and the next. Four blocks have a first, a last and two in between to
mix up; seven metadata reports start each block and three again. `Wrap = 5` is just above what settling takes, so that
every phase of the clock is met; `Settle = Absent = 2` and `NoVbus = 1` tell one look from two, and the two waits apart.
`loads`: the third load is the first that takes over what a second took over; two profiles are a device and what comes
after it, shares it or has no place beside it; a microphone has two interfaces and takes other endpoints than a gamepad. A move is
the host's (a reset, being found out), a battery's or a forced mode. `settles`: two moves are both tries of
a transfer failing, a restart in an update, or the tool's update meeting the master's.
`controllers`: two controllers and a chip are three providers, of which one has the console, one leaves
and one comes; four moves are plugs, resets and requests to reload.

In `BtClassic` a paired Switch controller, another that isn't paired, and a DS3 that was paired over USB and has no key are the
kinds that differ in how they come back; they are one more than the slots and cids (4 of each in the code), so that a cid is handed
out again while its last slot is waiting for btc_tick, and a slot is missing when one is. A move is a link or an incoming
connection of a controller's own, a loss, a report, pairing mode entered, a discovery, a controller turned off or forgotten; what
BTstack and the loop do in answer is not bounded. Three moves are enough to discover, pair and lose a controller beside another, and
to forget one between its link's authentication and its opening; with four
(`BtMoves = 4`, 881,000 states) the invariants hold as well.

**Fairness** (`LiveSpec`, and `PartsSpec` where a run explores several). The loop is weakly fair: nothing in it blocks except
flash writes, which end. `ReloadDue`, `UploadStalled` and `CommitDue` are
strongly fair: each is a deadline the loop polls, which passes unless it is set
again, by another request, chunk or commit. Requests and chunks are
bounded here, so the deadlines pass; commits asked for by pairings and
input states are not (each `commit()` starts the 50 ms again), which is why
`PairingsSettle` assumes that those stop (`Quiet`). The tool, Bluetooth and
power owe nothing. In `SecondaryPico` both loops and the bus are weakly fair, and sending is strongly
fair, as the 2 ms between polls pass; time that makes an unanswering board
count as gone, the board's start and the tool's `firmware_update_stall_ms` pass too.
In `FlashSof` each core's next step is weakly fair, and core 0
strongly fair between frames, which end. In `ToolSession` the loop, the pump of events, deadlines and the end of
an update are weakly fair, an open tool takes its events, and what the loop gets to once a turn
(`Overdue`) and what an open tool does where it is served are strongly fair: the queue is refilled from an
interrupt while it is sent, and the loop passes through places where nothing is served. In `BtConfigService` the main
loop and BTstack's asking again are weakly fair, in `FirmwareUpdate` the timeout, time and the tick. In `DeviceWatch` the
clock moves on infinitely often, a load that is due again and again is done, and an upload ends; in `ConsoleAuth` likewise a
config isn't written for ever, and a console enumerates and starts a gamepad it sees again and again. In `BtClassic` timers fire, BTstack ends an inquiry, a query, an attempt and a
connection that is closed, and the loop runs; controllers and people owe nothing.

**Mutants.** Definitions named in `PROJECT.json` under `mutants` have a variant
just before them, marked `Mutant:`, with a plausible mistake: each property has one
that breaks it in the same run.

## Findings

Each is a run that must fail, with the quotation in `PROJECT.json`.

1. `bt_in_irq`: on boards whose Bluetooth runs in the background interrupt, a
   bond changed while `write_info` flushes leaves a commit of the whole cache waiting
   over the upload: what the flush is there to prevent.
   `save_bluetooth_aux` and `update_auxiliary` take no lock.
2. `fallback_commits_upload`: when the aux block doesn't fit,
   `flush_pending_aux` commits the whole cache, with an upload nobody saved.
3. `update_dropped`: the tool's update ends the master's without the version being
   checked again; if it is given up, the second Pico is left without a config.
4. `stale_key_offered`: the key that is dropped for a controller found by discovery is stored in BTstack again from
   the pairing two seconds later, while it is still being connected.
5. `mic_as_controller`: a microphone that was the only device in Xbox One mode is taken over for the next load's controller, and
   then cast to what it isn't: the two have the same reload identity.

`LatestConfigUnlessDropped` says that nothing else goes wrong beyond 3. `ConfigSettles` allows for it too, and for an update that is left behind (see Remarks).

## Remarks

Where a property has an exception, the exception is something the model found. Each can be seen by taking the
exception out.

- *A save that leaks.* A save waiting for a reload is taken over by an upload that comes before it: `save_config` sets
  `config_commit_pending`, which neither `write_config_info` nor `abort_config_write` takes back. The runs assume a tool that waits for
  its save (`PatientTool`); with `PatientTool = FALSE` `OnlySavedReachesFlash` fails.
- *A save over a preserved config.* While flash holds a config that can't be decoded the device runs an empty one, with the pairings
  of flash in memory; a save asked for then writes the empty config with no pairings, and those in memory aren't pending.
  With a config that isn't `Loadable` `PairingsReachFlash` fails.
- *Empty uploads.* An uploaded config with no data is complete as it is announced, and the end of an upload, which puts
  the pairings back and reloads, isn't run for it: once saved, the pairings are gone. With `EmptyUploads = TRUE`
  `PairingsReachFlash` fails; the other runs but `loads` leave such uploads out.
- *Events that outlive their config.* Taking a config forgets what was last sent of an input, not the events still
  queued (`secondary_pico.cpp` of the library, 226), so an input released meanwhile stays held. `EventsAgreeUnlessLost` leaves such inputs
  out with those whose event found the queue full or was read in a transfer that failed (`lost`).
  It also leaves out what follows a dropped update (finding 3, `dropped`): where the second Pico is taken for gone and comes back, its
  inputs are seen as released and its config, and with it what it sends of them, waits for the next full poll. That takes two updates, so `pico_link`
  doesn't meet it; the invariant of the proof did, and with `MaxUpdates = 2` and 5 moves TLC finds it.
- *Updates left behind.* A tool that begins an update of a second Pico and then sends metadata for another target changes
  `m_target_secondary_pico` and tells the first one nothing (`hid_config_device.cpp:871-879`). `finish_firmware_update`, at the end or
  after the stall, cancels what the new target has begun; the first keeps `m_host_ota`, and its `update` sends neither polls nor
  configs (`secondary_pico.cpp:583`) until the tool updates it again or the device reloads. "The configurator owns the bus until it
  finishes its OTA" (582) doesn't allow for one that won't. `ConfigSettles` leaves that out (`LeftBehind`): without the
  exception it fails, at the first `Retarget` to another target.
- *Modes under a tool.* While a config is being written `tool_closed` says that no tool is open (`config_manager.cpp:84` asks it,
  `config_manager.hpp:129` says why modes wait), and a console detected then changes the mode at once. A second
  restart of the stack after the first was reattached takes the grace of a tool that isn't back yet (`main.cpp:326`). `ModeWaitsUnlessCaught`
  leaves out both (`working`, `wiped`).
- *The loaded event.* It is dropped like any other when the queue is full, and nothing says so to the
  tool (`"unheard"`). A tool whose keepalive had lapsed when the stack was restarted is forgotten (`"forgotten"`), and a reload between a
  tool's first read and its first keepalive isn't reported.
- *Reloads that are dropped.* `reload()` at the millisecond 0 of the clock is no reload, one that waits when the clock wraps waits for another round, and a load that
  finds an upload in the cache clears the request; a gate then has `m_reload_due` set and isn't looked at until the next load
  (`dropped`).
- *Authentication.* A provider that comes while a reload is scheduled, or within the same look as another leaves, isn't noticed
  (`xone_device.cpp:739`, `lost`), against `tests/host/gip/xone_device_test.cpp:1088`. A controller that was there
  already doesn't take over when the one that is registered leaves: only enumeration registers one.
- *Bluetooth.* Besides `clean`: a streamed write that arrives between the writes and the read of one turn isn't seen by that read, and an
  executed long write that finds the queue full is lost and answered with success (226-232).
- *Classic Bluetooth.* A set protocol response takes the place of a descriptor that `btc_tick` hasn't read yet (`bt_classic_rx.cpp:1299`).
  A link that was let in stays so when its key is dropped, and HID is opened on it whatever has become of the key: of a controller forgotten
  while it is connected or being set up, or of one on an authenticated link whose key discovery drops or a refusal does. Such a
  controller goes on without keys until its link goes (`forgotten` in `KeysKept`), and a host that is registered only then saves
  the pairing again, with no key: `UnpairBluetoothCommand` "drops the connection, the bond and the
  pairing" (`src/proto/commands.proto:46`), but `bt_forget_pairing` knows nothing of a connection that is being set up or of a host that `btc_tick` hasn't
  created yet. DS3s have a pairing and never a key, so that `KeysKept` asks none of them. A
  Switch controller whose link ends after `btc_tick` has freed its slot is taken for one that never got HID, and paged, though
  `bt_classic_rx.cpp:237` calls the same end "a normal disconnect".
- *Loads.* `changed_types` doesn't look at `m_xinput_receiver` when there is an Xbox One device (62-65), so a mixed config's XInput
  interfaces announce themselves differently once the host is known for Windows without being enumerated again; `Descriptors`
  leaves the receiver out there. That is so beside an Xbox One device taken over for a microphone too (finding 5 the other way round), which the next
  load may take over for the controller it was: it takes four loads, one more than `loads` has, so the proof met it first.
  `RestartsOnlyForCause` leaves out the load that takes it over for a microphone. What follows the cast of finding 5 is undefined, and ends in `Undefined`.
- *Firmware.* Metadata for a later block is accepted unchecked when no update is going on (`resumed`): the firmware's check then is all
  that catches the hole.

## Proofs

Each theorem holds for every value of the constants that its module's `ASSUME`s allow, and for behaviours of any length.
Hypotheses beyond those are named here, with the reason for each. None of the invariants is inductive by itself; each proof
strengthens it to one that is, which TLC has checked on a small instance, and has one lemma per kind of step.

**What is waited for is on its way.** A liveness property needs fairness, which the prover doesn't reach. What most of these say has
a safe half all the same: that whatever waits always has something left that will end the wait, a flag the loop looks at, an
event that is queued, a timer that is set, so that the loop has only to go on. Losing that is what goes wrong in code
like this, so it is proved, for all values of the constants (and under the hypotheses named below), as an invariant of the
specification without fairness; only that the loop does go on is left to TLC's runs of the property itself:

| Theorem | Says | Liveness it is part of |
|---|---|---|
| `HeldSaveAlwaysKept`, `PendingAlwaysFlushed` | a save held back keeps its config, and nothing but a reload due or an upload can keep `flush_pending_aux` from it, or from a change of the pairings | `SaveReachesFlash`, `PairingsSettle` |
| `PairingsAlwaysReachFlash` | once nothing of the pairings is pending, flash has them | `PairingsSettle` |
| `LatestConfigAlways` | once the master has nothing to send, the second Pico has the config | `ConfigSettles` |
| `StaleAlwaysToBeTold` | a tool that shows an earlier config has an event coming, or a note that it missed one | `ToolHearsUnlessFull` |
| `CoresNeverBothWait`, `WritesAlwaysAdvance` | one core always has a step, and each step brings the write nearer to its end | `WriteEnds` |
| `ChangesNeverForgotten` | a change of a pin or of the host that isn't loaded has a reload scheduled or a gate still counting | `LoadsCatchUp` |
| `RequestAlwaysComes` | a request over Bluetooth is queued, in hand or answered | `RequestsEnd` |
| `PageAlwaysComes` | a controller to page has a timer set, and what puts the page off ends | `WakeEnds` |
| `RestartAlwaysComes` | a console that skipped authentication has its restart asked for, or the next look asks | `AuthRestartsIfNoticed` |

The definitions the theorems not among the runs' properties are about (`PendingFlushed`, `StaleIsToBeTold`, `WriteAdvances` and so on) are in the
modules of the proofs, next to them. For `ReloadHappens`, `DeferredEnds` and
`CommitEnds` what would be such a half is the flag the property itself starts from.

**What the proofs found in the models.** Where a lemma failed the model was wrong three times, and TLC's bounds had
hidden it. A tool that was forgotten after a restart counted as told of a reload it then took events of (`TakeEvents`; with three moves TLC finds
`ToolHearsUnlessFull` violated by it). Guards of a CASE overlapped where the code has an if and an else (`Outdated`, `Pass`), so that the
order TLC tries them in decided. And `InquiryComplete` ended a search while
`ConnectDiscovered`, where `btc_connect` turns it down, kept it: the two contradicted each other, and an inquiry whose end came
during a query could never complete (`bt_classic_rx.cpp:817` ends the search first, whatever becomes of the connection).

### The config system

`ConfigSystemProofs` proves of `Spec`, for every set of configs and pairings, every
sizes, every number and size of sectors and every bound, under

    Polled == BtInIrq = FALSE /\ CutMidWrite = FALSE

the theorems `TypeCorrect`, `ImagesAlwaysReadable`, `CommitsKeepOffUploads` and `PreviousOnlyForUpload`. Both halves of `Polled` are
needed: with interrupts `NoCommitOverUpload` is false (finding 1), and power
going during a write leaves flash unreadable until it is written again.
`PreviousForUpload` (the footer an upload replaces is kept for just as long as the upload goes on) is
proved only: no run lists it.

`SafeInv` ties the loop's position to the
write in progress (at `"write"` there is a job and `after` says whose; elsewhere
none), says of a job that its target is a readable image and that the sectors
before the one it is at already are what they will be, that `upload` goes with a kept footer
and no waiting commit, and that the cache is readable outside an
upload. That a finished job leaves flash readable is a lemma about `Layout` and
`Readable`: an area that agrees with a layout on every sector it
covers is readable. `EmptyUploads` and `PatientTool` may be anything.

`ConfigFlashProofs` is about a device with anything in its flash (`SpecFresh`), and so about `Spec` as well (`SavedIsFresh`):

| Theorem | Inductive invariant | Hypotheses |
|---|---|---|
| `TypeAlwaysCorrect` | `Typed`: an erased sector is one of the area's, and an upload has a footer in the cache | none: interrupts and power cuts in the middle of a write included |
| `PreservedAlwaysLeftAlone` | `Kept`: while a config in flash is preserved there is nothing to commit and no write | none |
| `PendingAlwaysFlushed` | `Unblocked`: an upload is one `hid_task` watches, `m_reloading` is set only within a reload, and a save held back or a change to be committed goes with `aux_pending` | none |
| `OnlySavedEverReachesFlash`, `HeldSaveAlwaysKept` | `Typed` and `Origins`: what is in flash was asked for, and so is what may be written next, by a commit of the cache, the fallback of `flush_pending_aux`, a save held back or the write in progress | `BtInIrq = FALSE` (finding 1), `PatientTool` (a hasty tool's save leaks, see the remarks), `AuxAlwaysFits` (without it the fallback commits an upload, finding 2) |
| `PairingsAlwaysReachFlash` | `Typed` and `PairingsFollowed`: the cache follows the pairings in memory but for a change that is pending, and flash follows the cache but for a commit that waits or is being written | `Polled`, `AuxAlwaysFits`, and `Plain`: every config can be loaded, and none is empty (both in the remarks) |

`HeldSaveKept` is the safety half of `SaveReachesFlash`: a save that is held back keeps its config in the cache until flash has
it. That it doesn't wait for ever is left to TLC.

`ConfigStoreProofs` proves `SystemImplementsStore`: `Spec` implements `ConfigStore` under the mapping of `MCConfigSystem`, for a
device that is `Described` (`Polled`, `Plain`, `PatientTool`, `AuxAlwaysFits`: a tool's promises only hold where those above do). `StoreInv` is
what the mapping needs beside `Typed`, `Origins` and `PairingsFollowed`: a commit of the cache that waits is of flash's own main config,
what the cache holds outside an upload, and `previous` during one, was asked for or runs (`Known`), an area's last sector holds its footer's own image and no other (`Own`),
and a write past its last sector has left the footer it was to write. Most steps map to a stutter (`previous`, `commit` and the
cache change, what is stored doesn't); the last program of a job is the save, or the pairings being stored; a load is the preview, a
power cut the restart.

### The small components

`ComponentsProofs` is about `MCComponents`. `SofAlwaysDriven` follows from `HandInv` (`HandsOver`), which says for each place of core 0 where
core 1 may be and what the flags are. `CoresNeverBothWait` needs beside it that while `ready` isn't set core 1 is still to set it
(`ReadyStays`). `WritesAlwaysAdvance` is an action property with two measures: `Ahead`, the steps core 0's thread has left in a write, and `Away`, how far core 1
is from what that waits for.

`BlocksAlwaysWhole` holds for any numbers of blocks and chunks and any length of the last block. It is about the instance
`Fw`, under `ComponentsAssumption`; the corollary
`BlocksWholeBesideOthers` carries it to `PartsSpec`, the specification the
`components` run checks, where the other parts may run instead.
`Arrived` adds that the tool is at the block the upload is at unless it has sent all
of its own, that the buffer is never longer than what the tool has sent of it, and that if it is as
long it holds just those chunks. A block has as many chunks as make it complete, so a buffer that is complete
has them all.

`AnswersAlwaysTrue` holds for any links, reports and length of the queue. `ServiceInv` says that nothing is ahead of the writes that were
made (`Made`), that those queued and the one in hand come in order after the last one handled (`InTurn`), that a client that has gone leaves nothing but what
is in hand (`GoneClean`), and, of a client that came with nothing in hand, that a write it waits for is in just one of
the queue, the main loop's hand and `acked`, and is the one it asked (`Held`). `RequestAlwaysComes` needs in `RequestInv` that what is in
hand to be acknowledged was asked to be.

`OnlySettledAlwaysReload` holds for any times, range of the clock with room for them, and passes that take anything up to `MaxLag`.
`ElapsedInv` says that how long ago a reading changed is never more than the passes since account for: each look at the
pin for one pass (`differs`), and a host's absence for all the time it wasn't seen (`unseen`). The clock wraps, and what passes on it is less
than its range: `SinceGrows` says that a pass then adds no more than its lag to an unsigned difference.
`ChangesNeverForgotten` (`CatchInv`) says that without a reload scheduled what is built is what the gates have as open and the host they have as there, unless a reload was
dropped.

`TypesAlwaysOK` has the types of all four, of `PartsSpec`; for `FirmwareUpdate` they need `UpdateBounded`: a buffer is full only when the
update has ended with it.

### Controllers

`ControllersProofs` is about `MCControllers`. `OneOwnerEach` holds for any controllers and chips: `OwnersKept` is inductive beside the types of
the providers, given that controllers and chips are different things (`AuthAssumption`).

`ConnectionsAlwaysKnown`, `HostsAlwaysConnected` and `KeysAlwaysKept` hold for any controllers, numbers of connections
and slots; they are about the instance `Bt` under `ControllersAssumption`, and `ClassicBesideAuth` carries the first two to
`PartsSafe`. `ConnectionsKnown` needs `Freed` beside the types (`KnownInv`): a slot the next pass of `btc_tick` frees has no
cid any more, so freeing it forgets no connection. `HostsAreConnected` needs in `HostInv` that a slot waits for a host just
while it has none. Several slots change in one pass: `TickedHost` says what becomes of the host of one, and `TickHosts` joins
them. That `bt_slot_alloc` finds the first free slot if there is one is the least-number principle (`Least`), taken from the
well-foundedness of `<` on `Nat`.

`KeysKept` needs `KeyInv`: a controller has one connection (`Alone`), so that what is done about one that is being set up is nothing to one that is
open; a pairing's key is as good as BTstack's (`KeysPaired`); and an open connection's link is let in, authenticated with a key that
BTstack still has unless it was dropped since (`LinkKeys`). `PageAlwaysComes` needs in `PageInv` that a page waits for its own timer or for
discovery's, and that this one runs just while a discovery does. `RestartAlwaysComes` (`NoticedInv`) is of `ConsoleAuth`: a gamepad that has
seen the provider and is still unauthenticated has asked for its restart.

`ControllersTyped` has the types of both, of `PartsSafe`. For `BtClassic` they come from `KnownInv`, `HostInv` and
`KeyInv`, as a host's place in the lists is a matter of its slot, with `RestTypes` for what these leave out.

### The tool's session

`ToolSessionProofs` proves `SessionTyped`, `AlwaysInOrder` and `ModeAlwaysWaits` for any length of the queue and of a config. `SessionInv`
is about the tools the device heard from that stayed since and weren't caught by a second restart (`Staying`): such a tool
has the device, and its keepalive is fresh or it is awaited (`Awaited`), so `in_use_elsewhere` turns the other one away (`NoRival`)
and `tool_may_be_open` holds modes off; and it is in the config where the device is (`Placed`). `Awaited` needs `Seen`: an update keeps its
tool seen, so that the keepalive it ends with is a seen tool's.
`StaleAlwaysToBeTold` has `Owed`: a tool that knows of the device is one the device has seen or has noted to have missed a reload, and of a tool it awaits
unseen it has noted that.

### The second Pico

`SecondaryPicoProofs` proves `IdsStayAlways` (a slot's users are the
registrations under its input, and nobody is registered there under another) and
`BothUpdatesAreWhole`, for any inputs, slots, chunks, tries, failures and restarts, fast
ones included. For the master's own update (`UpdatesAreWhole`) `OtaInv` adds that a transfer of the
update is for the stage it is at, that chunks up to the offset are in place, that an answer
held back while the tool is told meets at most the beginning of the tool's update, which ends the
master's, and that the tool's chunks are only sent while the master's update isn't past
its beginning. For the tool's (`HostUpdateWhole`) `HostSendInv` adds that a chunk that was answered is in its place, and that one which is to be
sent is the next.

| Theorem | Inductive invariant | Hypotheses |
|---|---|---|
| `PicoTyped` | `PicoInv`: the invariants above and the types of the rest, which follow the master's place (a transfer never waits at `"next"`, a chunk never lies past the firmware's end) | none |
| `LatestConfigAlways` | `ConfigInv`: once the master takes the second Pico to be up to date (`Current`), the config is on its way, waiting to be taken, being taken or in place (`Holds`), or the second Pico restarts and is going to be found missing | `SlowReboot`: a faster restart goes unnoticed until the next full poll, and only the step `Booted` needs it |
| `EventsAlwaysAgree` | `EventInv`: of an input that lost no event, what the master knows, brought up to date with the events it read and hasn't handled and with those still queued, is what the second Pico sent last | none |

What events say of an input is the last one of its slot (`After`). `AfterAppended` says that one more event counts for its own
slot, `AfterInParts` that events read in parts come to what they do at once; both rest on `Greatest` (a bounded set of numbers
has a greatest), taken from the well-foundedness of `<` on `Nat`.

### Loads

`UsbInstancesProofs` proves `InstancesTyped`, `HostAlwaysServed` and `RestartsAlwaysForCause` of `UsbInstances` (the behaviours of `MCLoads` with
`part = "usb"`), for any subtypes, modes, profiles, moves and number of loads that its assumption allows: subtypes and modes are some of those there are, and `None` is none of them.
A behaviour of `MCLoads` is one of `SpecFresh` and of `UsbSpec` (`PartsAreWhole`), and so `LoadsTyped` has all the types that `loads` checks.

| Invariant | Says |
|---|---|
| `Table` | of `slot` and `prev`: each interface is a device's first, at its place and with the endpoints and strings that the one before it left, or a microphone's second; and no two devices have one in common |
| `Settled` | of a table whose load is over: nothing is new any more, and each Xbox One device has an identity |
| `Origin` | of each device of the table that is being built: it is the one that was at its place, the config device, or new because none there could be taken over (`WasThere`) |
| `LoadInv` | during a load, `Origin`, that the host has read the last load's table (`LastRead`) with all of it opened, and that what has no identity yet is the mode's controller with a player to take it from |
| `MainInv` | between loads, that what the host has read is `Descriptors`, and the table is `Settled` |
| `SubsInv` | without an Xbox One device, the table's devices are the profiles on USB, in their order: the profile of rank k is the device that starts k-th (`Matches`, `Rank`), now and for the last load |

`HostServed` is `MainInv` and `Table`. A load that goes on has the same objects as the last one, and those of a table have the same faces
(`SameTables`), with an identity that is announced as before (`SameAnnounced`). For `RestartsOnlyForCause` it is the other
way round: a load that restarts without a cause leaves what was read, so each device looks as the one before it; then none of them is new (`SameFaces`), the profiles are
the same, as equal tables are for equal profiles (`MatchesOne`, on the cardinality of the starts up to a place), and the identity doesn't differ
(`AnnouncedSame`): nothing is left to restart for.

### Model-checked only

Every invariant of the passing runs is stated by a theorem (some under the hypotheses named), and so is every action
property. What is left to TLC is liveness: `SaveReachesFlash`, `PairingsSettle`, `ConfigSettles`,
`ToolHearsUnlessFull`, `ReloadHappens`, `DeferredEnds`, `WriteEnds`, `RequestsEnd`, `CommitEnds`, `LoadsCatchUp`, `AuthRestartsIfNoticed` and `WakeEnds`.
Fairness and ENABLED are out of the prover's reach; of nine of these the safe half is proved, as above.

## Abstractions, and what is left out

- Deadlines are nondeterministic: a reload's millisecond, the upload's stall, a
  commit's 50 ms. Runs with every deadline passing at once or never are included.
- An interrupt is atomic within a step of the loop. `update_auxiliary` being
  interrupted halfway is a hazard without a property yet.
- Requests handled in `send_loaded_event` and those of the Bluetooth service in
  `hid_task` are handled at the next `"usb"`, with nothing in between that they could tell apart
  (`NoReload`, `NothingToFlush` and `NoCommit` are always possible).
- A `malloc` that fails in `commit_auxiliary`, and an encoder that fails for another
  reason than space, are left out.
- `ConfigSystem` has no firmware update, restart of the device stack or forced mode: they are `ToolSession`'s and
  `FirmwareUpdate`'s. The SDK's flash lockout is not modelled.
- `ToolSession` leaves out `clear_rpcs3_detected`, the reports that only read, and what events say; `BtConfigService` the client configurations
  and the fragments of a long read; `ConsoleAuth` the contents and fragments of GIP packets (a late response may reach the console's next
  session, 653-663); `DeviceWatch` stands for one gate.
- Of the second Pico's inputs only digital ones are modelled. Left out: its
  sub-devices and what the tool is told of them, a config that doesn't fit its buffer or
  arrives cut short, firmware that can't be hashed, a transfer the I2C
  driver refuses to start, requests of the tool serviced in the middle of `transfer_failed`, a block sent again, and metadata for a later
  block of a second Pico whose update is over (its chunks are then sent without a begin).
- `BtClassic`: time (so a timer fires at any time after it was set), what controllers say, the name of a device, and a query
  or a connection that BTstack couldn't begin for want of memory is one it turned down. A Wii controller's refused key stands for
  any controller's but a Switch controller's. The lists of hosts change in one step; where BTstack runs from an interrupt, `bt_host_update_interfaces` walks them without the lock.
  The reload after a host came or went (150-155) is left to `ToolSession`'s `RequestReload`.
  A DS3 is paired with over USB before the start, and isn't found by discovery; one that was forgotten isn't paired with again
  but by a host that was registered after. What a refused Wii controller's link does next is up to the controller.
  Controllers paired with at the start come back by themselves or are in pairing mode; nobody else's key is wrong to begin with.
- In `ConfigSystem` a loaded config is its main block; `UsbInstances` has what the loads make of it on USB. There "ps3" stands for all modes that
  take one controller, assignments to anything else count for the mode they force, and the standby pass, MIDI and arcade
  interfaces (`GHArcadeVendorDevice` is treated as the security interface is) are left out.

## Not modelled

Most of the firmware's 111,000 lines are not control. Mappings, instruments, LEDs and report layouts (`src/mappings`,
`src/instruments`, most of `src/emulation`) turn one record into another, each line once, with unit tests beside them; the
peripheral libraries (`lib/psx_controller`, `lib/gip_common` and others) are PIO programs, DMA and timing in
microseconds; `lib/nanopb`, `lib/hidparser`, `lib/xsm3`, the BTstack and TinyUSB glue are third party or
follow their protocol. The protocol hosts in `src/devices/bt` are handshakes with one peer each and no state in common with the rest but
the hosts and pairings that `BtClassic` has; Bluetooth LE (`ble_rx.cpp`) isn't modelled yet. A map of a large share of those lines would be a transliteration: what is modelled is where several
actors share state, and the lines mapped are those.

## Plan

1. `AuxRewrite`: `update_auxiliary` on the cells of the cache with an
   interrupt between its moves.
2. Bluetooth LE's background reconnection, which classic connections pause.
3. The activation of profiles (`ProfileManager`), inactivity timeouts, `SecondaryPico`'s sub-devices and analog inputs.
