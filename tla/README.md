# TLA+ models of trigger6

trigger6 is a Linux DRM driver for USB display adapters with the MCT Trigger 6
chip, and a macOS program that does the same job in user space: it captures a
virtual display, encodes each frame and sends it to the adapter.  The repository
also holds the vendor's Linux package, which the two were learnt from: the evdi
kernel module and library, a daemon that grabs the pictures of evdi displays and
sends them to the dongle, and a tool that updates the dongle's firmware.  This
directory models the parts of all of them that keep state, checks them with TLC
on small instances, and proves the main properties with TLAPS.

`V` below is `src/mac/t6proto-rs/src/bin/t6-virtual-display.rs`, `X` is
`src/extracted/ubuntu_T6_260223`.

## 1. The system

### 1.1 Parts, their state and their operations

| Part | State it keeps | Operations |
|---|---|---|
| Command-ring allocator (`lib.rs`: `VramLayout`, `FrameScheduler`) | cursor, wrap address, framebuffer index, frames since the last reset | `new`, `next_jpeg_frame`, `next_jpeg_payload`, `next_type7_mode6_payload`, `next_video_payload_exact`, `set_cmd_ring` |
| Frame sender (`V`: `SenderState`, `send_frame` and the functions it calls) | scheduler, buffer on display, type 7 slot and base, dirty box of the frame before, frame counters | full JPEG, type 4 setup, type 7 tile, fallback at a wrap, setup only, raw picture, late drop |
| Asynchronous pipeline (`V`: `run_async`, `async_frame_callback`, `async_sender_loop`) | one-place mailbox, spare buffer, stop flag; two mutexes and a condition variable | callback, sender loop, start, stop, join |
| Synchronous pipeline (`V`: `run_sync`, `frame_callback`) | `sending` and `stopped` flags, plan of the next frame, quality, counters | callback with throttle, limit and late drop; adaptive quality; start and stop |
| Bulk fragmentation (`lib.rs`, `t6proto.c`, `trigger6_pipe_update`) | position in a payload | command, bytes, failure |
| Reassembly of captures (`tools/t6_reassemble_video.py`, `t6_pcap_summary.py`) | open transfers by key, the command last seen, finished transfers | command packet, data packet |
| Tile geometry (`V`) | box of the last change, tile | clamp, union, rotate, align, crop, plane addresses |
| Pixel conversion and raw pictures (`V`, `lib.rs`) | scratch buffer, flip header | NV12, YV12, YUV444, RGB, tiled 4:2:0, rotation |
| Linux driver (`trigger6_drv.c`, `trigger6_commands.c`) | DMA device reference, software output state, saved state | probe, disconnect, suspend, resume, pipe callbacks, control messages |
| Fences and interrupts (`V`, `usb.rs`, `t6-replay-video.rs`, `t6-send-type7.rs`) | number of the next packet, deadline of a wait, ring cursor of the tools | drain at the start, wait between a setup and its tile, after a frame, after a failed write |
| Dirty-rectangle summary (`macos_virtual_display.m`) | none | bounding box of the reported rectangles |
| Packet headers (`lib.rs`, `t6proto.h`, `t6_pcap_summary.py`) | none | writing, reading |
| Connector, EDID (`trigger6_connector.c`, `lib.rs`) | none | detect, modes |
| JPEG encoders and patching, option parsing, probes, capture analysis | files, encoder sessions | sequential |
| `trigger6_transfer.c` | a pool of URBs | not in the Makefile: dead code |
| evdi at work (`X/evdi/evdi/module`: painter, planes, cursor, framebuffers, GEM) | dirty rectangles, framebuffer shown, flip held back, pending events, cursor, request of the client; pages and mappings of each buffer | commits of both planes, request, grab, connect, disconnect, events, console switch, DDC/CI |
| evdi devices (platform table, sysfs, DRM device; `library/evdi_lib.c`) | table of devices and their USB parents, DRM devices, handles and cards in use of each process | add, remove, probe, USB notifier, find, open, connect, close |
| T6 daemon (`X/evdi_t6/evdi_t6_1/main.c`, `queue.c`) | flags and buffers of each display, queue of pictures, cards in use in shared memory | fork, the threads that grab, send, handle events and watch the plugs, mode change, stop |
| T6 dongle protocol (`t6usbdongle.c`, `cea_edid.c`, `T6contrl.c`) | mode and timing of each port, addresses of its next command and picture, what the dongle expects next | EDID, layout, flip, resolution, reset, firmware update |
| Rest of the package, Ghidra scripts | – | bindings, tests, third-party lists, audio |

### 1.2 How the parts interact

    capture queue --callback--> frame_callback ----------------> send_frame
                          \--> async_frame_callback -> mailbox -> sender thread -> send_frame
    send_frame: geometry -> conversion/encoder -> FrameScheduler -> packet
                -> fragments -> command and bytes on the bulk endpoint -> adapter memory
    main thread: starts the capture, polls the stop flag, stops the capture,
                 joins the sender, frees what the callback was given
    adapter --interrupts--> drain and waits of the sender and of the replay tools
    DRM core --commit, suspend--> pipe callbacks --control messages--> adapter
    USB core --probe, disconnect--> driver

    compositor --commit--> evdi painter --events, grab--> libevdi --> evdi_process
    evdi_process -> queue -> usb_process -> header and payload -> dongle
    events_process: mode events replace the buffers the other two use
    int_process2: plugs -> detach of all displays -> new fork
    sysfs, USB notifier -> table of evdi devices <- libevdi of any process
    T6contrl -u: kill -9 of the daemon, then firmware on the same endpoint

The callback runs on a dispatch queue of the capture framework, the asynchronous
sender on a thread of its own.  Adapter memory is one address space without
protection: command slots, framebuffers and type 7 surfaces are kept apart only
by the addresses the program computes.

### 1.3 What is hard

* three threads, two mutexes of which one is only tried, and a condition
  variable notified without its mutex;
* memory handed to a callback and freed by another thread;
* a display that is patched with tiles, so that a change that is forgotten stays
  wrong: late drops, skips and fallbacks in any order;
* a ring whose slots have several sizes and whose wrap is announced in-band;
* writes that fail or are cut short between a command and its bytes;
* answers that come late, not at all, for another function of the adapter, or for
  an earlier run of the program;
* rounding, clamping and rotation of boxes, done several times by hand;
* a driver whose device may go at any step, and whose messages may be lost;
* a kernel module that holds a compositor's flip back until a client of another
  process, who may leave at any step, has taken the picture;
* a daemon whose threads share structures without a lock, free them for each
  other, and rely on sleeps;
* a dongle that tells a header from a payload only by their order, with two ports,
  resets and a killed process on one endpoint.

`PROJECT.json` lists the hazards with the line where each bites and the
properties that watch it.

## 2. Modules

| Module | Models | State |
|---|---|---|
| `CommandRing` | arithmetic of `VramLayout` and `FrameScheduler` as operators on a record | – |
| `FrameScheduler` | the allocator alone, called in any order | `sched`, slot issued, slots of this lap |
| `Type7Sender` | `send_frame` with `send_full_jpeg_frame`, `send_jpeg_type7_frame`, the raw transports | `SenderState`, packets of the last frame; the adapter |
| `AsyncPipeline` | callback, sender and main thread of `run_async` | a program line per thread, the shared buffers and flags |
| `FrameMailbox` | abstract: a one-place mailbox that delivers in order, each frame at most once | frame in the box, frame last taken |
| `SyncPipeline` | callback and main thread of `run_sync`, with a clock | lines, flags, plan, counters, quality |
| `Fragments` | the fragment arithmetic in Rust, C and the kernel | – |
| `BulkTransfer` | the writers, `to_bytes`, `parse_bulk_command`, the reassembler | sender's position, verdicts, open and finished transfers |
| `Type7Geometry` | the boxes from a change to a tile, the crop, the plane addresses | rotation, mode, change, tile, history |
| `PixelPlanes` | the conversions, the flip header, the encoder's input (extends the geometry) | scratch buffer, picture, format |
| `DirtyUpdates` | the summary of the reported rectangles; closes the specification of pictures and tiles (extends the packets) | update of the last frame |
| `Mode6Packets` | type 4 and type 7 headers as `lib.rs` writes and `t6_pcap_summary.py` reads them (extends the planes) | – |
| `DisplayAcks` | packet numbers, drain and waits, the replay loops with `next_ring_addr`, programs run one after another | program line, number, cursor, packet waited for; the adapter's packets and answers |
| `Trigger6Driver` | probe to disconnect, commits, suspend, control messages | core's state, commit at work, device, messages missed |
| `EvdiRects` | merging, collapsing and cutting of dirty rectangles, the rectangle of a cursor | – |
| `EvdiGem` | pages, pins, mappings and references of a buffer object | – |
| `EvdiPainter` | the painter between compositor, client, console and DDC/CI caller (extends both) | `struct evdi_painter`, the commit and the grab at work, cursor, events, files, buffers |
| `EvdiDevices` | table, sysfs, probe, notifier, DRM devices, the library in two processes, DRM master | table, DRM devices, USB devices, handles, program line of each process |
| `T6Daemon` | parent, forked process, and the threads of each display | a line per thread, the shared structure, the queue, the table of cards |
| `T6Edid` | what is read out of an EDID | – |
| `T6Frames` | the memory of the dongle, the advance of commands and pictures, the divider of a pixel clock | – |
| `T6Protocol` | ports, dongle and control tool (extends both) | monitor, layout, mode, flip under way, what the dongle expects |
| `MC*` | instances for TLC | |
| `*Proofs` | theorems about the module of that name and, where section 5 says so, about others | |

Definitions carry the names of the functions they translate; where one function
is several actions (each lock operation of the callback, each way out of
`send_jpeg_type7_frame`) the actions are named for what they do.  An operator
whose comment begins "A mutant" is a plausible mistake in the definition that
follows it; nothing uses it.

**The adapter** in `Type7Sender` is external: a buffer is the set of screen cells
that differ from the screen, a full picture clears the set of its target and
shows it, a tile clears the cells it covers, a change of the screen adds to every
buffer.  This is what the code assumes when it patches the buffer on display.
In `DisplayAcks` the adapter decodes packets in order, whenever it likes, answers
with a fence or an error, and forgets answers nobody reads.  In `T6Protocol` it
takes a bulk transfer for a header or for the payload of the last header, by
order alone.  The DRM and USB cores in `Trigger6Driver`, and the dispatch queue in the
pipelines, are modelled in the same way from how the code relies on them.

**Workloads.** In `EvdiPainter` and `T6Daemon` the constant `Workloads`, in `EvdiDevices`
`Scenarios`, says how often each actor may act; one is chosen at the start of a
behaviour.  Each asks one question (clients that leave, two clients, damage,
resolutions, cursors, consoles, failures, ...) with every interleaving of the
actors it needs, where all actors at once would be out of reach.

**Oops and abort.** `EvdiDevices`, `EvdiPainter` and `T6Daemon` have a variable for
a kernel oops or an aborted process: a state in which the code uses a pointer that
is NULL or freed, or an assertion fails.  It ends the behaviour and the properties
are stated up to it; section 4 says where such states are reached.  A thread of the
pipelines or of the daemon that uses memory another has freed may also go on with what
is left there.

**Sleeps.** A `usleep` by which the code hopes that other threads have finished is a
step that waits for nothing: whatever they have begun may outlast it.

**Data left out.** Pixels are sets of cells or names of captured pixels, JPEG
pictures are lengths, payload bytes are (payload, offset) pairs, fields of a
command keep their values and pass through the encoder and the parser.

## 3. Runs

| Run | Instance | Shows |
|---|---|---|
| `type7_sender` | five command lines, ring of 3 MB, three cells | display right or tracked (`StaleIsTracked`), packets miss the framebuffers (`CommandsMissFramebuffers`), nothing overwrites what is shown (`ShownIsUntouched`), a refresh heals (`RefreshHeals`) |
| `async_pipeline` | four buffers, four frames, no limit and limits of none and two | frame being sent is stable (`SenderFrameIsStable`), refinement of `FrameMailbox`, no lost wake-up (`PendingIsTaken`), a stop ends the program (`StopEnds`), callbacks that run on after the stop included |
| `bulk_transfer` | three payloads of five shapes, three kinds of sender | finished transfers are whole, a payload reported as sent arrives once, nothing is mixed |
| `type7_geometry` | 10x6 pixels, grid 4, 44 updates, four rotations, four rectangle modes, every format | tile covers the change, every touched pixel lands where the setup has the picture, raw formats and encoder get each pixel in its place |
| `sync_pipeline` | four frames, interval and divisor 2, clock of 12, no limit and limits of none and two | no bursts after a stall (`NoBurst`); a stop, a failed send or the last frame asked for ends the program (`StopEnds`) |
| `display_acks` | two runs of two frames, four programs, every option | the answer taken is the packet's own and leaves nothing behind, undecoded payloads are kept, waits end |
| `trigger6_driver` | four modes, set with the output on or off | device follows the software state (`DeviceFollows`, with the exception of section 4), an unplugged device is released |
| `evdi_display` | framebuffers of 3x2 and 2x1, cursors of 2x2 and 4x2, two files, twelve workloads | damage is kept (`DirtCoversDamage`), a flip's event is in one place (`FlipHeldOnce`) and is sent (`FlipIsAnswered`), buffers outlive their users, no lost wake-up, newest cursor position survives squashing, no cursor trail |
| `evdi_devices` | table of two, two processes, two USB parents, seven workloads | no process has a card twice, only the display server is master, a parent that went leaves no link |
| `t6_daemon` | two displays, three cards, queue of one, six workloads | what the library asserts holds in the handler of modes (`AssertionsHold`), pictures of an old mode stop to be sent (`FlipsSettle`), a display that was told to stop ends (`DisplayEnds`) |
| `hotplug_detach` | plugs only | *violated*: the finding of section 4 |
| `t6_protocol` | 54 MB, two ports, nineteen monitors, two dongles, three flips, faults, one update | flips that have room keep to their memory, 4K layout follows the EDID, timings fit the mode, headers and payloads are not confused but after a failure that is named |

### Bounds, and why they are enough

* **Sender.** A ring of 3 MB holds two to seven packets, so every frame can be the
  one that wraps.  With three cells two changes can be disjoint, adjacent or
  joined by a hull that covers more than both.  The counter behind the refresh
  and the scheduler's reset counter return to their start, so no depth is lost.
* **Asynchronous pipeline.** Three buffers are needed and a fourth is never taken
  (theorem `ThreeCopiesAlwaysSuffice`).  Four frames are one in each place and one to
  come. A limit of 0 stops the sender at once, one of 2 with frames still to come.
* **Bulk.** A packet of four units and a command of two: payloads of one full
  packet, a packet and a bit, two full ones, and a long one with a short tail.
  Three in a row let the remains of one meet the next but one; with short writes,
  which multiply the states, two.  `Modulus` 64 is above every sum that occurs.
* **Geometry.** Neither side is a multiple of the grid; the reported rectangles lie
  in corners, on and between grid lines, on and between pixels, across an edge,
  outside the frame and empty, alone or several.  Two
  frames of history are what `last_type7_dirty_bbox` can hold.
* **Clock.** Twelve ticks allow a send of six intervals, beyond every threshold of the
  late-frame and quality rules, or a stall of three and three frames after it, one more
  than `NoBurst` lets follow at once.  A quality one above the least falls to it in one
  step and rises again.
* **Acknowledgements.** Two runs are an earlier and a later one; with two frames
  an answer that comes late meets the wait of the next frame.  A run takes at most
  six numbers, fewer than `MaxId`, so a number comes twice only in two runs, or
  where the tools begin at the largest number and wrap to 0.  Payloads end on a
  grid line and before one, the two cases of `next_ring_addr`.
* **Driver.** Two modes of one resolution, a resolution the table lists twice, one
  it lists once and one it does not list.

* **evdi display.** `MAX_DIRTS` 3 (16 in the code) is exceeded by a commit with three
  rectangles on top of earlier ones, so merging and collapsing both happen. One event
  fits in a file, so the list of pending events is used and squashed.  Two commits are
  the one whose flip is held and the one that finds it; two connects a client that comes
  back in the middle of either.  The cursors differ in size, and two commits of them let
  one replace the other where it was painted.  The second framebuffer is smaller and of
  another format, so the mode changes, and is imported, so both kinds of mapping occur.
* **evdi devices.** Three adds on a table of two find it full; two processes and three
  handles let one process meet the entries of the other and its own old ones.  Five
  minor numbers outlast all devices that are made.
* **Daemon.** `QueueHigh` 1 (5 in the code): the queue is full after one picture, so
  the grabbing thread waits for the sending one.  Three mode events are a first mode,
  a change and a change back.  The second display is plugged where the workload is
  about it.  One failed transfer and one failed `select` end a display from either
  side; one workload lets every call fail, starting a thread included, and has the
  fourth thread of a display that rotates.
* **Protocol.** Three flips pass the reset of the decoder (`ResetFrames` 2, 10 in the
  code) and use each of the three pictures; lengths of 3 MB on a region of 6 MB make the
  commands start over within them.  54 MB is the smallest memory with room for 4K beside a
  second port.  The monitors list 4K in each place an EDID can, the second extension and
  the codes of later standards among them, or break in each way the daemon tells apart.
  One dongle turns its pictures on a fast bus, the other does not on a slow one.

### Fairness

* Pipelines: weak fairness of the steps of the callback, of the sender and of the
  main thread; the operating system runs threads that can run.  None of the
  capture (frames arrive only when the picture changes), of spurious wake-ups, or
  of the outcome of a send.  Stepping out of a send is fair: writes have timeouts.
* `RefreshHeals` carries its own premise, that frames go on being sent; the
  sender's specification has no fairness.
* Acknowledgements: only that the deadline of a wait passes, since each turn of the
  loop looks at the clock.  Nothing is asked of the adapter.
* Driver: the end of a probe, the steps of a commit (control messages time out),
  the disconnect of a device that is gone (the hub thread calls it) and the two
  steps that follow.  None of plugging, commits or suspends.
* evdi: a commit that has begun runs to its end, and a connected client goes on asking
  and grabbing, as the loop of the daemon does.  None of new commits or of clients
  that come.
* Daemon: every thread of a display that can run, runs; `select` may fail, but not for
  ever.  `FlipsSettle` says what holds once no other mode is set.  None of events, plugs
  or transfers that succeed.

### Deadlock

It is checked in the pipelines, the sender and the driver; the pipelines stutter
explicitly once they ended.  It is not checked where the system may stop: in
`bulk_transfer`, when all payloads have been sent; in `type7_geometry`, where a frame
that is refused ends the program; in `display_acks`, when the last run has ended; and
in the runs with workloads, counted flips or updates, when the budget is used up or an
oops or abort has ended the behaviour.  There waiting for ever is watched by
`FlipIsAnswered` and `DisplayEnds` instead.

## 4. Findings and remarks

**Finding** (`main.c:843`, run `hotplug_detach`).  The comment of `int_process2`
(`main.c:814`) says that all displays are detached as soon as one is unplugged.  The
state of the plugs is read once, before the loop, and every interrupt is compared with
that first state.  A monitor that is pulled out just before the read (the run), or one
that was plugged in after it and is pulled out again, gives the first state: the display
stays attached.

**Remarks.** States the models show or exclude by a premise, or that were met in
reading; no run is about them.

*macOS program.*
* Every jpeg-type7 run takes its packets from `0x03200000..0x03900000`, also when the
  setup mode makes it decode into the layout's framebuffers, two of which lie there
  (`V:1055`).  rgb24 and yuv444 pictures of 1080p are longer than the 4 MB between the
  framebuffers (`V:1710`).  `type7_sender` is instantiated without these two setups.
* The reassembler takes a last fragment of exactly 32 bytes for a command
  (`t6_pcap_summary.py:260`); the shapes of `bulk_transfer` and the theorems leave it
  out.  A maximum packet of 0 gives no fragments (`lib.rs:1431`).
* `async_frame_callback` skips a frame while an older one is pending (`V:1425`), so the
  sender gets the oldest frame since its last one, where the help text (`V:4749`) says
  "latest"; `replaced_frames` is printed but never counts.
* Numbers start at 1 in each run, and neither the replay tools nor
  `--type7-wait-setup-ack-ms` alone drain the endpoint, so a run on an adapter that is
  still at work for an earlier one can take its answers for its own: `AckIsOwn` needs
  its premise `trusted`.
* `t6_vd_stop` asks the stream to stop and waits for nothing
  (`macos_virtual_display.m:430`), and what the callback was given is freed right after
  it (`V:1260`).  Both pipelines' models reach the use after free: the callback then goes
  on with what the memory holds, or the process crashes.  Neither a document nor a test
  says what the program relies on, so no property is about it.
* After a large tile the plan may lag the clock by `Divisor` intervals, so that as many
  frames and one more may follow at once: `NoBurst` has the divisor of that frame in its
  bound.
* A wrong rounding in `t6_vd_get_dirty_summary` would not show: the margin of the tile's
  grid is wider than a pixel.

*Linux driver.*
* A commit that sets a mode and leaves the output off does not run
  `trigger6_pipe_enable`, and the later commit that turns it on finds the mode unchanged
  (`trigger6_drv.c:110`): the mode is never sent.  The model reaches it, and
  `DeviceFollows` names it as its exception (`unsent`).
* `trigger6_read_edid` returns a length where `drm_edid_read_custom` expects zero.  If
  `drm_dev_register` fails, polling goes on (`trigger6_drv.c:340`); a buffer import
  reads `dmadev` without a lock while a disconnect clears it (`:54`).

*evdi.*
* `evdi_painter_send_event` checks the file without the lock, so an event may be
  flushed to a client that has just left (`evdi_painter.c:386`); the model reaches the
  oops.  The USB notifier walks the table without its lock (`evdi_platform_drv.c:63`),
  likewise.
* `needs_full_modeset` is cleared without the lock after the mode was sent (`:836`) and
  can erase the request of a console switch.  A failed grab drops the rectangles it took
  (`:1115`), hiding the cursor damages nothing (`evdi_modeset.c:369`), and a client that
  leaves and comes back in the middle of a commit finds rectangles and no framebuffer:
  premises of `NoCursorTrail` and `FlipIsAnswered`.
* `evdi_cursor_atomic_update` takes the lock of the cursor three times, to move it, to set
  its picture and to send it (`evdi_modeset.c:346`, `:354`, `:364`), and damages the place
  before and the new one in the size of the new picture.  A grab between the first two
  paints the old picture at the new place; if it is larger, what sticks out is never
  damaged.  The model reaches it (`HalfChanged`), `NoCursorTrail` excepts it.
* A device whose USB parent goes between its lookup and the link (`evdi_sysfs.c:166`)
  stays linked to nothing: `NoStaleLink` excepts the links made in that window (`late`).
* `fb->active` is never set, so `evdi_handle_damage` marks nothing.
* A card that a process opened and did not connect counts as free
  (`evdi_lib.c`); two adds may pick the same free device.  `drm_is_master` takes every
  answer but EACCES for yes.

*Daemon and dongle.*
* A new mode frees the picture buffer 50 ms after it was unregistered (`main.c:461`),
  while a copy or an encoding begun before may go on and a transfer may take 1 to 5 s
  (`t6usbdongle.c:997`, `:1022`).  A display that ends frees the structure its threads
  share after two sleeps of 100 ms (`main.c:1460`); one that cannot start a thread frees
  it at once, under those it has started (`main.c:1600`); nobody joins `int_process`,
  and `libusb_close` does not wait for the watcher of the plugs.  The model reaches each
  of these uses of freed memory (`Dangling`).  No property excludes them, as it would be
  false.  Pictures of the old mode are sent in the new one for a while; `FlipsSettle`
  says that it ends.
* `evdi_unregister_buffer` asserts that the buffer exists (`evdi_lib.c:793`): a display
  that stops before its first mode aborts the process and leaks its entry in the shared
  table.  If the sending thread ends first it clears `disp_set_mode`, the next mode does
  not unregister the buffer, and `evdi_register_buffer` aborts: `AssertionsHold` is
  about displays whose sending thread is there.  That entry is cleared twice, 200 ms
  apart, the second time perhaps for another display; looking for a free one is
  check-then-set without a lock (`main.c:322`).
* After a failed flip the dongle is reset without the lock (`main.c:1384`) and may cut
  the flip of the other port in two: for the daemon `CommandsAreRead` is stated up to
  the first failed transfer.  The result of a reset is ignored (`t6usbdongle.c:1237`,
  `T6contrl.c:275`): if that of the firmware tool fails, the first bytes of the update
  are taken for the payload of the flip that was killed.  The model reaches it, and
  `CommandsAreRead` names it as its exception for the tool (`unreset`).  A failed write
  of the firmware starts the service on a dongle that still waits for it
  (`T6contrl.c:294`).
* A 2560x1440 monitor passes `t6_revise_edid` unchanged, although its pictures do not
  fit 4 MB.  If the query of the capability is not answered,
  `t6_libusb_get_4K_capbability` returns -1, which `t6_revise_edid` takes for yes
  (`t6usbdongle.c:324`, `:568`): the inner port, of which `main.c:1127` says that it
  "should be 1080p", then shows pictures of 12 MB in places of 4 MB.  The model reaches
  both; `Fits` keeps such ports out of `FlipsKeepPictures`.
* The daemon reads up to three extensions and hands all to the card, but parses only the
  first (`t6usbdongle.c:557`, `:636`), and its table of modes ends at code 107, where
  later editions of CTA-861 go on with 108 to 127 and 193 to 219.  A monitor that lists
  4K only there is shown 4K in memory laid out for 1080p: `LayoutFollowsEdid` names such
  EDIDs as its exception (`Overlooked`).
* `T6CalculatePixelClock` cuts thousandths off a double, and 148.5 MHz with a base of 40
  MHz becomes 14.849 times the base, not 14.85 (`t6usbdongle.c:278`).
  `TimingMatchesMode` allows one such step, at most 60 millionths of the clock.
* If setting the resolution fails the daemon goes on in the new mode with the timing
  before (`t6usbdongle.c:700`).
* A JPEG over 3 MB reaches
  into the next command.  HDMI code 5 is read past the end of its table
  (`cea_edid.c:630`).  A resolution without a timing sends an uninitialised one.
* A long descriptor that begins at byte 109, the last place where one fits, is not read
  (`cea_edid.c:840`), and data blocks that reach past the long descriptors end the
  reading.  A 4K mode that only such a place lists is shown by the card and not laid out
  for: `LayoutFollowsEdid` is stated for EDIDs that are `WellFormed`.

## 5. Proofs

The theorems hold for every value of the constants under the `ASSUME`s of the
modules, which TLC evaluates in the runs.  What a theorem asks beyond them is an
explicit hypothesis of its statement; the table after the list has them all.  Each
argument is an inductive invariant: a conjunction of named parts, of which the
property is one or a consequence.

* **`Type7SenderProofs`**, also about `CommandRing` and `FrameScheduler`.
  *Allocator*: `SchedulerTypeCorrect`, `RingIsBounded`, `LapIsDisjoint`,
  `WrapsAreFlagged`.  Disjointness is not inductive alone: `CursorBounds` adds that the
  slots issued in this lap lie below the cursor.  `FrameScheduler` has no run of its
  own: it is the allocator called in any order on any ring with any length, which is
  beyond TLC; TLC sees the same operators in `type7_sender`.
  *Sender*: `SenderTypeCorrect`, `DisplayIsTracked`, `TilesHitTheDisplay`.  The key is
  `Agree`: the sender's `current_display_fb_addr`, its slot and its base name the buffer
  the adapter shows.  Assumed: a tile covers its argument (proved for the real geometry
  as `TilesCoverChanges`), and the slot bases differ.  `CommandsMissTheBuffers` and
  `DisplayIsNotTorn` follow from `Ringed`: the cursor is in the ring of its transport,
  every packet lies between the ring's ends, and the picture on display is that of the
  last setup or of the allocator's last framebuffer, so that the next is another.
* **`AsyncPipelineProofs`**: `PipelineTypeCorrect`, `SenderFrameNeverOverwritten`,
  `PublishAlwaysFindsRoom`, `ThreeCopiesAlwaysSuffice`, `PipelineIsMailbox`, also with a
  callback that runs on after its context was freed.  `IInv` says where each thread may
  hold a buffer (`Owners`), that no buffer is in two places, that the mailbox is empty
  from the check to the publication (`Room`: only the callback fills it), and that
  frames are numbered in order.  `PipelineIsMailbox` is the refinement of
  `FrameMailbox`.
* **`BulkTransferProofs`**, also about `Trigger6Driver`.
  *Fragments*: `FragmentsCover` and `FlavoursAgree` (the three versions of the
  arithmetic, for lengths and packets whose sum fits 32 bits).
  *Reassembly*: `TransfersAreWhole`, `ReportedTransfersArrive` for the user-space
  sender, whole writes and no fragment of 32 bytes: `BulkInv` relates the open transfer
  to the fragments written so far (`InStep`) and the list to the payloads (`Listed`).
  `ShortWritesNeverMix` is `NoMixing` for all three senders, short writes and timeouts
  included.  For the senders that stop at a short write the verdict settles it; for the
  one that takes a timed-out write for whole, `ShortInv` says that the transfer open
  under the key of the payload at work is `Pure`: each byte is missing or this
  payload's, at its place, because its first fragment opened a new one.
  *Driver*: `DeviceIsInStep`.  `DriverInv` follows the power through the steps of a
  commit (`PowerAt`, `PowerKept`), and says that the device has the mode the client set,
  with the output on or off, unless the commit at work is going to send it or one that
  left the output off never did (`ModeKept`). Only this strengthening carries the mode
  over a switch-off and a suspend, after which the driver does not send it again.
* **`Type7GeometryProofs`**, also about `PixelPlanes`, `Mode6Packets` and
  `DirtyUpdates`.  `TilesCoverChanges`, `ChangesHaveTiles`, `CropsReadTiles` for boxes
  from anywhere, by lemmas on alignment, union and rotation of boxes;
  `FramesCoverChanges` the same with the updates of the capture framework.
  `UpdatesLand`: the summary of the rectangles contains every pixel a rectangle touches
  (its hull is a recursive function over a finite set, unfolded as a least
  counterexample), the tile begins on an even place, so chroma samples are not split,
  and the words of the headers hold what is put in them.  `PicturesAreTrue`: for every
  raw format the place of each sample is computed from that of its pixel (`Place`) and
  nothing else has that place (`SamePlace`, `Quotient`: a row and a column are
  determined by their sum `row * pitch + column`), so the picture holds, at every place,
  the sample the loops stored there (`StoredAt`); `PictureInv` is `UpdateInv` with the
  picture sent last, which later frames leave alone.
* **`SyncPipelineProofs`**, also about `DisplayAcks`.
  *Pipeline*: `NoBursts`, `FlagIsPutBack`.  The rate is that of a leaky bucket that may
  be set up at the end of any frame (`mark`, `begun`).  `Plan` says that the plan is
  ahead of that moment by an interval for each frame finished since, less the credit of
  the frame that ended then, and that a frame past the throttle has reached its turn;
  `Flag` ties `sending` to the callback's line.
  *Acknowledgements*: `UndecodedIsSafe` by `InPlace`: what a tool has sent and the device
  has not decoded, what it is about to send and what it will make from its cursor on lie
  one behind the other.  `AcksAreOwn` by `Own`: packets are decoded and answers read in
  the order in which they were sent (`Ordered`), numbers in flight are those of packets
  already sent (`Used`), and of those only the packet waited for has its number (`Told`).
* **`T6ProtocolProofs`**: `UpdatesAreUnderstood` (`CommandsAreRead`),
  `CommandsMissPictures`, `RegionsAreApart`.  The first needs `Agreement`: while no
  transfer has failed the dongle expects a payload exactly while a port is between the
  two transfers of a flip, and once the tool has reset it, a command, whatever the
  daemon was killed in, unless that reset has failed.  The second needs `Addresses`: the
  next command of a port lies between the start of its region and its pictures.
  `FourKFollowsEdid` by `Shown`: a well-formed EDID is read to its end, so what the card
  lists as 4K where the daemon looks the layout has seen too (`ExtensionIsRead`,
  `CardFindsNoMore`). `TimingsMakeTheMode` by `Timed` and a lemma on the divider of the
  pixel clock, of which both values the truncation can give are within a step.
  `FlipsStayApart` by `Flipping`, which keeps the last flips of a port in the order in
  which its three pictures are used, with the memory of each mode bounded by `Capable`
  on the ports that are `Roomy` (`RoomFor4K`).
* **`EvdiPainterProofs`**: `PainterTypeCorrect`; `DamageIsNotLost` (what is merged,
  collapsed or cut still covers; `merge_dirty_rects` is a recursive function, so
  the lemma takes a list of fewest rectangles on which it fails); `WakeupIsNotLost`
  (`WakeInv`: a grab begins only when no request stands); `FlipIsHeldOnce` (`FlipInv`
  counts the places that hold an event: with those already answered they are one);
  `LatestMoveIsKept` (`MoveInv`: the newest move is in the list, or none is
  and it is in the file, or it was read); `BuffersOutlive` (`BufInv`: the references of a
  framebuffer are exactly its holders; those of an object are at least its holders, as
  failed calls of the code may leak one but none drops too many);
  `CursorsLeaveNoTrail` (`TrailInv`: a pixel of the client's buffer that shows the
  cursor is `Excused`: under the cursor unless the commit stands between moving it and
  setting its picture, damaged, on its way to be copied by a grab, or at a place that the
  commit at work is still going to damage; `PictureInv`: the picture of the cursor is that
  of its plane but between those two sections; `ScanoutInv`: the painter shows the plane's
  framebuffer, and a commit that shows another size damages all of it).
* **`T6DaemonProofs`**, also about `EvdiDevices`.
  *Daemon*: `AssertionsAreKept`, with sleeps that wait for nothing.  `Buffered` says at
  which lines of the handler of modes a buffer is registered, which depends on
  `disp_set_mode` and on whether the sending thread, which clears it, has ended.
  *Devices*: `HandlesAreApart`, `ServerKeepsTheCards`, `LinksAreCut`, from
  `DevicesInvariant`: a handle is recorded in its owner's table (`Recorded`), a card that
  is being opened is free there (`Opens`), removing a device excludes linking it
  (`Removes`), and a linked device has its parent, or one found too late, or the
  notifier is still on its way to it (`Linked`).

| Hypothesis | Of | Why |
|---|---|---|
| `Room` | `CommandsMissTheBuffers`, `DisplayIsNotTorn` | the options do not mix the type 7 ring with full pictures in the framebuffers (a remark of section 4), the ring has room for the largest packet; TLC evaluates it on the instance |
| `NoCommandTail` | `TransfersAreWhole`, `ReportedTransfersArrive` | a last fragment of 32 bytes is taken for a command (section 4) |
| `MaxPacket # CommandSize` | `ShortWritesNeverMix` | a full packet is larger than a command in all three programs |
| `SidesFit` | `UpdatesLand` | the sides are sent as 16-bit words; every display of the chip is smaller |
| `NumbersSuffice` | `AcksAreOwn` | a run of fewer than 2^32 packets; the property's own premise is that the run found the adapter idle |
| `RecordsApart` | `UndecodedIsSafe` | the recorded payloads are apart where they were recorded |

An assumption on a constant is as weak as the code allows; those of the proofs that are
not only types: `Block` is even (16 in `V`), a dongle lists clocks that its divider can
make, of two ports one is the external output and the other lists no 4K (`main.c:1127`),
the modes the daemon can find in an EDID have sides that fit its tables
(`SidesAssumption`), the 4K modes have the codes the daemon looks for or those added to
CTA-861 later (`ModesAssumption`), and no framebuffer or cursor is larger than 7680 by
4320 (`SizesAssumption`, `evdi_modeset.c:521`), so that the far corner of a cursor on a
framebuffer fits the 16 bits of its rectangle.

**Only model-checked.**  Liveness under fairness (`PendingIsTaken`, `StopEnds` of both
pipelines, `RefreshHeals`, `UnpluggedIsUnbound`, `WaitEnds`, `FlipIsAnswered`,
`FlipsSettle`, `DisplayEnds`), which is out of the prover's reach.  Every safety
property of the passing runs is also a theorem, some of them under a hypothesis of the
table.  What a property itself excepts, because the code does it, is named in its
definition and in section 4.

## 6. Not modelled

* The order of bytes inside a word of a header: unit tests of both libraries.
* Connector and EDID of the Linux driver: reads without state.
* JPEG encoders and the patching of their output: external calls and byte surgery;
  the models take a length from a set.
* Option parsing, reports, profiles, probes, the rest of the analysis tools: input
  and output.
* In the driver: buffer import, fbdev, the poll worker, reading the mode table.
* In evdi: the fbdev console, debugfs, page faults, the colours of blended pixels, code
  for kernels without atomic modesetting, the search for Xorg in `/proc` (the waits end
  at any time), `evdi_check_device`.
* In the daemon: drawing the software cursor, audio, touch and DDC/CI; the hardware
  cursor and `USE4KJPEG` are compiled out.  Of the protocol, the calls that only pass a
  value through.
* The sleeps of the daemon are not timed.  Dongles with a VGA port, whose plugs nobody
  watches, are not in `T6Daemon`.  After an abort or a crash the model of the process
  ends: nothing is said of a process that goes on with damaged memory.
* `trigger6_transfer.c`, `simclist.c`: dead code.  TurboJPEG's header, bindings, tests,
  Ghidra scripts: not part of the program.

## 7. Plan

Done, in this order: allocator, sender, asynchronous pipeline with its abstract
mailbox, fragments and reassembly, geometry, synchronous pipeline, driver, pixel
planes, acknowledgements, headers; a proof module for each of the first six; then the
painter of evdi, its devices and library, the daemon, the dongle's protocol and the
summary of rectangles; the theorems of section 5 with them: every safety property of the
passing runs is also a theorem.

To do:

1. Composition of the pipelines with `Type7Sender`, so that `Skip` is the pipeline's and
   not a free choice, and of `T6Daemon` with `T6Protocol`.
2. JPEG segments (the patching of component numbers and sampling).
3. Driver: lifetime of its objects, buffer import against disconnect, poll worker.
