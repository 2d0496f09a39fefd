# ESpeaker firmware: TLA+ specification

TLA+ modules, TLC configurations and TLAPS proofs for the ESP32 smart-speaker
firmware in `src/`. Line references are to files under `src/src/`.

## 1. The system

One cooperative executor (embassy) runs a handful of tasks. They share three
bounded channels, one signal, two variables in RTC memory and one flash record.

```
  front keys ──Key*Pressed──▶ event channel ──▶ MQTT task ──▶ broker / Home Assistant
                                   ▲               │
             PlaybackStarted/Stopped               │ dispatch
                                   │               ▼
  ready() ──▶ sound queue ──▶ audio task ◀── command channel      LED signal ──▶ LED task
                                   │
                            codec + amplifier (shared I2C bus)

  every hour: SNTP ──▶ time task ──▶ real-time clock (shared I2C bus)

  reset ──▶ main (boot sequence) ──▶ station: ready()   or   setup portal ──▶ reset
  boot button held ──▶ factory-reset flag (RTC memory) ──▶ reset
```

| component | state it keeps | operations | what is hard about it | what makes it correct |
|---|---|---|---|---|
| channels (`main.rs`, `audio/task.rs`, `led/task.rs`) | command and event channel (8 each), sound queue (8), LED signal (1) | send (waits), try_send (drops), signal (overwrites) | full channels block senders; the signal loses commands | capacity; order; nothing lost where the sender waits |
| command router (`mqtt/mqtt.rs:37-99, 398-458`) | none | dispatch a publication | own publications come back through the wildcard subscription | echoes do nothing; each message makes at most one command |
| audio task (`audio/task.rs`, `audio/mod.rs`, `audio/codec.rs`) | where it is in its power-up/play/power-down sequence; amplifier pin, mute bit | play a sound or command, report it | six waits per sound, ignored I2C errors, a blocked report in the middle | power sequencing, each half of the path at least until its transfer fails; reports alternate |
| front keys (`button.rs:18-46`, `board.rs`) | `was_pressed` | sample, report | the key moves while the task waits for the channel | no press reported twice; blocked tasks get on |
| MQTT session (`mqtt/mqtt.rs:105-396`) | connection, event being published | connect, subscribe, poll, publish, reconnect | errors at every step, lost and half-finished publications, priority of the network | what is shown is true unless its publication was lost; every command is served; it reconnects |
| boot sequence (`main.rs:111-219`, `boot.rs`, `nvs.rs`, `wifi/*`) | flash record; fail count and reset flag in RTC memory | load, connect, count, force the portal, save, wipe | resets at any time, power cuts during writes, ignored errors | wipes are honoured once; attempts are bounded; it settles |
| boot button (`button.rs:48-72`) | RTC reset flag | request a wipe, reset 600 ms later | main runs on meanwhile | as above |
| setup portal (`wifi/ap.rs`) | connection, request buffer, parsed credentials | read a request, parse the form, answer, save | segmented requests, silent clients, errors end it | what is stored was submitted; the portal comes back |
| announcement stream (`audio/mod.rs:215-277`) | ring buffer, header state | push a chunk, take bytes, DMA transfer | wrap-around, failed transfers, state kept between announcements | all bytes, once, in order; nothing left behind |
| announcement payload (`audio/task.rs:168-263`) | none | decode hexadecimal or base64 | two encodings told apart by trying | what was announced is decoded |
| LED task (`led/*`) | command signal, animation step, brightness, colours | execute commands, draw frames, cancel | commands overwritten before they run; animations dropped within a frame; failed transfers that nobody repeats | last command wins; no torn frame stays unless its own transfer fails; brightness is a limit |
| time, RTC (`time.rs`, `rtc.rs`) | clock registers | SNTP sync, calendar, BCD | leap days, the end of 32 bits in 2036, failed writes | the clock is given the true time or none |
| sine generator, board, config, library root | none of interest | pure or static | | |

`PROJECT.json` lists every component with its status and every hazard with its
line and the properties that cover it.

## 2. Modules

| module | models | notes |
|---|---|---|
| `Channels` | channels, sound queue, LED signal | constants `CHANNEL_SIZE`, `AUDIO_QUEUE_DEPTH`, `Keys` |
| `CommandRouter` | `dispatch` and the parsers | functions on abstract messages, no state |
| `Board` | amplifier pin, mute bit, keys | `I2cMayFail` decides whether transfers may fail; history variable `failed`: the halves of the output path whose last transfer did |
| `AudioTask` | `audio_task` | one action per stretch between two waits |
| `Buttons` | the `button_task`s and the hand on the keys | history variables `presses`, `news` |
| `MqttTask` | `mqtt_task`, `run_mqtt`, broker and network | history variables `taken`, `shown`: the last publication to each topic that arrived, which is what Home Assistant shows, and `lost`: the topics whose last publication did not arrive |
| `EventFeed` | abstract specification of the event channel | starts and stops in order, alternating, without loss |
| `Speaker` | composition of all of the above, properties | shared variables, disjunction of the tasks |
| `Boot` | the boot sequence over all resets | history variables `wipe`, `streak` |
| `MCSpeaker` | message sets for TLC | |
| `Announcements` | chunks, ring buffer, DMA buffer of an announcement | a byte is the number of its announcement and its place in it |
| `AnnouncementFeed` | abstract specification of what is played | `Announcements` implements it with `left <- Left` |
| `AnnouncementPayload` | sender's encodings and the decoders | ASCII codes; the sender's side is external |
| `Portal` | the portal's connections and what it stores | a request is a row of units delivered in segments; `Forms` is what clients submit |
| `MCPortal` | forms for TLC | one badly filled field at most |
| `Led` | the LED task | of a colour only the brightest channel; history variables `inForce` and `frameLost` |
| `KeepAlive` | time in an MQTT session | ticks of 5 s; complements `MqttTask` |
| `Clock` | time task, calendar, clock registers | the true date is kept beside by a calendar that goes from day to day |
| `MCPeripherals` | composition of the five parts without shared state for TLC | see below |
| `EventFeedProofs`, `SpeakerProofs`, `BootProofs`, `AnnouncementsProofs`, `PortalProofs`, `LedProofs`, `KeepAliveProofs`, `ClockProofs` | theorems | no specification of their own |

`Portal`, `Led`, `KeepAlive`, `Clock` and `AnnouncementPayload` share no state with
each other or with `Speaker`: the I2C mutex is never held across a wait, the LED
signal never makes a sender wait, and `Portal` runs only where `Speaker` does not.
Interleaving them would multiply their states and show nothing, so `MCPeripherals`
lets the initial state choose one part and only that part takes steps, with its own
fairness. `Portal` refines the actions `Submit` and `PortalFails` of `Boot`,
`KeepAlive` the free choice of `LinkFails` in `MqttTask`, `Announcements` and
`AnnouncementPayload` the step from `TakeAnnouncement` to `AnnouncementEnds` in
`AudioTask`.

### How state and actions correspond to the code

A step of the model is what a task does between two points where it can really
wait. A mutex around the I2C bus is never held across a wait, so locking it is
not a step. A send into a channel with room completes at once and belongs to
the step before it; only a full channel is a program counter of its own
(`tellStarted`, `tellStopped`, `dispatch`, `blocked`). A task woken from such a
wait competes with the other senders for the room, as with embassy's channels.

- *Audio task.* `apc` names the wait: `unmuted` and `ampUp` are the two delays of
  `set_output_enabled(true)`, `ampDown` the one of `set_output_enabled(false)`.
  `asrc` tells the two branches apart that play: only the branch of a queued
  sound drains the queue before powering down (`PlayNext`).
- *MQTT task.* `mpc` follows `run_mqtt` from `socket.connect` to
  `client.disconnect`. The network branch of `select3` is polled first, so
  `PollEvent` and `SessionError` need an empty `inbox`. The publication of a
  playback event is two steps, state and attributes, and either is lost when the
  link is down, because the code ignores both results. `shown` then keeps what
  arrived before, also over a reconnect, for nothing is published again.
- *Buttons.* `Report` is the completed send; `was_pressed` is set after it, as in
  the code, so a release during the wait is not seen.
- *Boot.* Before its first wait main runs without interruption, but a power cut
  can come anywhere, so each write to flash or RTC memory is a step. Where main
  waits, the boot button's task may set the flag and, later, reset the chip.
  `Credentials` classifies a stored configuration by what it leads to.
- *Portal.* `cpc` follows `serve_once` and `no_creds_boot`: `read` is one return of
  `socket.read`; `parse_credentials` and `serve_page` are the two ways on. The headers
  have `HeaderUnits` units and each field two, so that a field can arrive in part;
  what the part decodes to is open (`Cut`), as a cut `%xx` does not decode. A failed
  save and a socket error both end in a reset.
- *Announcements.* `spc` is where `play_announcement_chunk` is; `push_chunk` and
  `take_bytes` are whole calls, the only wait is the DMA transfer (`write`).
  `heard` is all that the last transfer sent; of one that fails, some beginning.
- *Led.* `draw` is the transfer of a frame, `pause` the delay after it. `Cancel` is
  the drop of the animation by `select`; during `draw` an arbitrary number of LEDs
  has the new colour. `FrameFails` is a transfer whose error `flush` ignores: the same
  partial strip, and the task goes on as if the frame were out. `execute` runs to its
  first wait.
- *KeepAlive.* `timer` restarts in each iteration of the poll loop, `silent` is what
  the broker counts, `deaf` what the socket counts. `Firmware` actions happen before
  the next `Tick` once they are due, except that `dispatch` may take `MaxStall` ticks, or for ever.
- *AnnouncementPayload.* `Announced` is the sender, `decode_hex` and `decode_base64` are the
  functions of the code on the characters their filter lets through. `filtered` puts each
  behind the characters before it that are not whitespace, which is what iterating over the
  filter does, in a form that can be reasoned about without induction.
- *Clock.* `Synced` and `SyncFails` are the two outcomes of `sync`; `set` may fail
  after any register. `WaitOver` compresses the hours to the next chosen second.

### What is abstracted

- Audio samples, volume, texts of topics and of commands, and, except in
  `KeepAlive`, durations. Timers are "some time later"; the Wi-Fi timeout fires when
  the network has not answered.
- Echoes of the device's own publications are not put into `inbox`:
  `OwnEchoesAreInert` proves that dispatching one does nothing.
- A message is the set of tests of the code that its payload passes. In `AudioTask`
  decoding an announcement succeeds or fails freely; `AnnouncementPayload` has the
  decoders.
- In `Led` the sine of a pulse has three values (0, a half, 1), in five steps instead
  of 256, and hue is left out.
- A flash record is readable or not: an erased or half-written record fails the
  magic number or the decoding.
- Code without a caller: `ANNOUNCEMENT_CHANNEL` and its branch of the audio task,
  `PlayAnnouncementChunk`, the LED commands `Once` and `Set`, the events
  `KeepAlive`, `PlaybackPaused`, `VolumeChanged` and `Error`.
- In `Speaker` the firmware does not restart; a restart begins a new behaviour,
  and `BoardInit` lets it begin with whatever the amplifier and the codec held.

## 3. Runs

| run | configuration | question | result |
|---|---|---|---|
| `speaker_safety` | channels of 2, sound queue 1, one key pressed twice, 4 publications, 1 network failure | do the reports, the published state, the output path and the key reports stay right in every interleaving? | holds |
| `speaker_i2c` | I2C may fail, channels of 2, one press, 3 publications of all kinds | do the reports stay right when transfers fail or the audio task dies? does a failed transfer put only its own half of the output path off the sequence, and only until the next? is a stuck firmware stuck for good? | holds |
| `speaker_live` | channels of 3, 4 publications of Play, 1 press, 1 network failure, fairness | does every wait end? | holds |
| `speaker_wedge` | channels of 2, 3 publications of Play, 2 presses, fairness | the same after a flood | violated: deadlock of MQTT and audio task |
| `speaker_announce` | one announcement | is the path open while something plays? | violated: not for announcements |
| `boot` | every kind of fault, limit 3, 5 faults, fairness | are factory resets honoured, once, and do they reach the portal? are attempts bounded, is a forced portal earned, does the device settle? | holds |
| `boot_flash` | one flash error | is a factory reset honoured whatever happens? | violated: the error is ignored |
| `announcements` | buffer of 4, DMA buffer and chunks of 3, header of 4, 4 announcements of up to 8 bytes, 2 failed transfers, fairness | is the ring buffer invisible? | holds |
| `announcements_header` | the same, smaller | is the header of every announcement skipped? | violated: only of the first |
| `portal_split` | header of 2 units, the form fits the buffer | is a posted form taken as it is? | violated when it comes in segments |
| `led_brightness` | 3 LEDs, one brightness, fairness | does a brightness take effect on the next frame? | violated: it ends the animation |
| `peripherals` | one part at a time, see below, fairness | what the portal stores, what the LEDs show, when a session ends, what the clock is given, what is decoded | holds |

Deadlock checking is off in the `Speaker` runs: with no more keys, publications
and failures left under their bounds, a firmware with nothing to do is a state
without steps. It is on in the `Boot` runs that pass, where somebody can always
hold a button or the network can come and go. In `announcements` and `peripherals`
it is off: there is an end to the announcements, to the days, and a portal that has
saved credentials stops.

**Bounds.** Channels of 2 or 3 can be empty, partly full and full, with two kinds
of senders competing for the last place; the real 8 only takes longer to fill.
One key is enough for the competition with the audio task, and twice pressed it
can be pressed again before its first report is out. Four publications exceed
the command channel of `speaker_safety` by two, three that of `speaker_i2c` by one: enough to
reach both ways of being stuck. One network failure can hit every
step of a session and the next session. With `MAX_STA_FAILS` at the code's own 3
and five faults a forced portal can be lost and come again. Message sets have one
message per way `dispatch` can go. With the exceptions section 5 names, the safety
properties do not depend on these bounds: they are proved for all values of the
constants.

In `announcements` a ring buffer of 4 under chunks and transfers of 3 starts every
transfer at every offset and wraps in the middle of chunk and transfer; a header of 4
spans two chunks, and an announcement of up to 8 can be shorter than the header, the
header alone, and more than the buffer holds. Two failed transfers can hit
the same chunk twice or two announcements.

In `peripherals` the request buffer has exactly the units of a request (header of 2, six
fields of 2 each: 14), so that the end of the buffer and the end of the request meet.
Of the forms one field at most is empty or does not decode, the network name
included; that is enough for every test of `parse_credentials` to fail alone.
Two LEDs can have one new and one old colour, and a chase lights one or both. A colour of 255 at
brightness 16 is just bright enough for a pulse to be seen, one of 100 is not; at the 128 of the
start both are. One transfer of a frame fails, of any command, which can be the last. Ticks of 5 s divide the ping timer (15 s),
the broker's limit (1.5 times a keep-alive of 20 s, 6 ticks) and the socket timeout (30 s);
three messages in a session can put pings off past the limit. The days run from 1 January 2024
to 10 February 2036 and hold every leap year of the span; the chosen seconds are the last
of a day and the two around 06:28:15 on 7 February 2036, where 32 bits of NTP seconds
end. Payloads of 1 to 4 bytes give every length of the last base64 group; the bytes
include those whose base64 is `a`s only, and a payload may have one blank anywhere.

**Fairness.** `WF` on the audio task, the MQTT task, and each button task: the
executor polls every woken task, and each wait of a task ends once what it waits
for holds. A network operation on a failed link ends by the 30 s socket timeout.
In `Boot`, `WF` on main (delays end; the station connects or its 15 s timeout
ends it) and on the button's reset. In `Announcements`, `WF` on playing a chunk: a DMA
transfer ends or fails. In `Portal`, `WF` on the server and on the socket's timeout,
which ends a silent connection (`ap.rs:93`). In `Led`, `WF` on taking a command and on going
on with the animation, whose transfers and delays end, the transfers well or badly. In `KeepAlive`,
`WF` on time and on what is due in the firmware, but not on the end of `dispatch`, which waits
for room without a timeout (`mqtt.rs:281`) and may wait for ever, as `StuckForGood` shows; a broker
that is gone stays silent. No fairness is assumed of
keys, clients, publications, announcements, submissions of the form, signals, the broker,
failures, or the return of the network. `speaker_live`
has 4 publications over a channel of 3: enough to block the MQTT task, too few,
with one press, for the mutual wait that `speaker_wedge` shows.

## 4. Findings

1. **The MQTT task and the audio task can wait for each other for ever**
   (`speaker_wedge`). The MQTT task waits in `dispatch` for room in the command
   channel (`mqtt.rs:280-281`) while the audio task, with the amplifier on, waits
   for room in the event channel (`audio/task.rs:96, 122`), which only the MQTT task
   drains. `WedgeNeedsFlood` bounds it: more publications than the command channel
   holds must have come. `StuckForGood` says what it means: from then on no command is taken, no event
   published, and the amplifier stays as it is, whatever keys and network do. The same holds
   of an audio task that returned because the codec did not answer (`audio/task.rs:75`).
2. **Announcements are played with the amplifier off and the codec muted**
   (`speaker_announce`; `audio/task.rs:139-157`).
3. **A factory reset is forgotten when the flash write fails** (`boot_flash`;
   `main.rs:112-115`).
4. **The header of every announcement but the first is played as sound**
   (`announcements_header`; `audio/mod.rs:251`): the stream lives as long as the device
   and `header_parsed` is never cleared. `AnnouncementFeed` therefore skips a header once only.
5. **A form whose body comes in a later segment is answered with the page again**
   (`portal_split`; `wifi/ap.rs:112-116`). If part of the body has come, `SavedIsPrefix` says what
   is stored: the fields up to some place as submitted, the field there perhaps cut short, the
   rest empty. A shortened password can be stored. `WholeRequestIsAccepted` proves that nothing
   else cuts a form.
6. **A new brightness stops the animation and shows on no frame**
   (`led_brightness`; `led/task.rs:50-51, 71-74`), until a new animation is signalled. `StripSettled`
   therefore leaves out the time after a `Brightness` command.

What other properties have to except or say is also behaviour worth knowing:

- `BootSettles` excludes a broker address that is not an IP address: every boot then connects,
  clears the fail count (`main.rs:150`) and panics (`mqtt.rs:113`).
- `WipedOnlyOnRequest` admits a record lost to a power cut while it is written.
- `DroppedOnlyWhenPutOff`: the ping timer starts anew with each message and event
  (`mqtt.rs:272`), so a broker may end a session in which it sends often and the
  device never.
- `GivenIsTrue` says that the clock is given the true time or none: from 7 February 2036 on, sync
  refuses every answer (`time.rs:86`). It ends on 7 February 2106, when the seconds that
  started again are themselves past 1970 and an answer is taken for a time 136 years ago.
- `AnnouncementFeed` lets an announcement be abandoned, as after a failed transfer; nothing of it
  is played afterwards.
- `ShownIsTrue` and `NotStuckPlaying` except a topic whose last publication was lost with the link.
  Nothing is published again after a reconnect, so Home Assistant then goes on showing the state before,
  `playing` perhaps, until the next sound (`mqtt.rs:296-333`).
- `OutputSequenced` says of each half of the output path, amplifier pin and mute bit, that it follows
  the power sequence unless its last transfer failed. The path is open from before the start is
  reported (`ampUp`) to the power-down, not just while samples are played.
- `StripSettled` and `ColourShown` except a frame whose own transfer failed: `flush` ignores the error
  (`led/mod.rs:143`) and nothing draws a static colour again. An animation gets over it, which `PulseSeen`
  includes.
- `PulseSeen` needs a colour of which scaling twice leaves something at the brightness (`Visible`): a
  white pulse is dark at every step below brightness 16, one of `0,50,100` below 26.
- `GoneIsNoticed` excepts a `dispatch` that waits for ever: the socket then times out unseen.
- `ResetHonoured` and `ResetReachesPortal` except a request lost to a failed flash write or to a power
  cut after `take_factory_reset` has cleared it.
- `AnnouncedIsDecoded` excepts base64 text that is also hexadecimal: it is taken for
  hexadecimal (`audio/task.rs:174`).

## 5. Proofs

Every theorem is for all values of the constants the named assumptions of the modules
allow: positive sizes of channels, levels and colours of eight bits among which is 255, of the headers and of chunks, chunks that fit the ring buffer
and a transfer, key events distinct from playback events, inbound messages of type `Message`, a
positive limit on attempts, a ping due before the broker's limit and the socket's, forms with
a value for each field, bytes of eight bits, a first year from 1900 on whose 1 January is the
first day, seconds of a day, and days before the second end of 32 bits of NTP seconds.

- `EventFeedProofs`: the alternation of the abstract feed is inductive by itself.
  Sending, receiving and keys have a lemma each about the first and last playback
  event of a queue.
- `SpeakerProofs`: `TypeCorrect` first. `EventChannelImplementsFeed` is step
  simulation: each action of a task is `Start`, `Stop`, `Key`, `Take` or a stutter of
  the feed under the mapping `playing <- Reporting, queue <- eventQ`. Alternation then
  carries over. `ShownInv` and `LinkInv` strengthen `ShownIsTrue` with what each topic
  shows between the two publications and while no event waits; it needs the alternation to
  know that the last event taken is the current state. `OutputSequenced` gives the amplifier
  and the mute bit for each program counter and the failed half, and is inductive with the types. `NewsInv` says that a key held and not marked
  as seen has news, also while blocked. `FloodInv` counts the commands in flight against
  publications. `StuckIsForGood` needs only the types: every action is disabled or leaves the
  two tasks and what they share alone (`StuckTasks`). `CommandsKeepTheirOrder` has no run: it
  takes `Pending`, the commands on their way from dispatch to the audio task, and shows that
  every step appends what a publication asks for, removes the first, or leaves it as it is.
- `BootProofs`: `TypeCorrect` needs that the count is below its limit when an attempt
  may start. `StreakInv` ties the stored count to the attempts really made, with the
  one window in which they differ. `WipeInv` gives the reset flag for each stage of a
  request.
- `AnnouncementsProofs`: `StreamInv` adds to the types that the slots from head to tail hold the
  bytes `Left` says, in order, and how many there are at each `spc`; two lemmas on
  addition modulo the buffer's size say that distinct places within its size are distinct
  slots, so a push or a take touches no other byte. `StreamIsDrained` and the step
  simulation `StreamImplementsFeed` follow from it. The second half is about the decoding.
  `BlanksAreIgnored` counts the characters before each place of a spread-out text. The round
  trips have a lemma for a digit of each encoding (`HexDigits`, `B64Digits`), one for what the four
  digits of three bytes are (`GroupDigits`), one for the length of the last group (`DigitCount`),
  and one for the padding (`UpToPadding`). `EveryTextIsDecoded` puts them together;
  `AnnouncementsAreDecoded` adds that a publication under way carries such a text.
- `PortalProofs`: what is parsed of a request read up to any unit is a beginning of the
  form (`DecodedIsPrefix`); `PortalInv` carries that from parsing to the stored record
  (`StoredAsSubmitted`). A request read to its end is its form (`DecodedWhole`), so that it is
  accepted (`WholeRequestIsAccepted`).
- `LedProofs`: a lemma bounds the frames of each command at each step; `LedInv` adds that the
  brightness does not change while a command draws, and that the strip shows the frame in
  the pause after it unless its transfer failed (`FramesKeepToBrightness`, `NoTornFrameStays`).
- `KeepAliveProofs`: `Silence` bounds what the broker has counted by the age of the ping
  timer, a period for each packet that started it anew, and the time in `dispatch`
  (`QuietClientIsKept`); `PresentBrokerIsHeard` follows from the same invariant.
- `ClockProofs`: `LeapDays` and the days before each month give every date of the calendar a
  number (`DayOf`), and the next date the next number (`NextDateIsNextDay`). For the code's own
  formulas, lemmas on quotients give the year of an era, the month of a year that starts in March,
  and so the date with a given number (`YearOfEra`, `DateFromUnix`). `ClockInv` ties the day to the
  number of the true date, so that what sync computes is the true date (`ClockIsGivenTheTime`). A BCD
  register with a field in its range reads back as it (`ClockReadsBack`); together,
  the clock shows the true time (`ClockShowsTheTime`).

Every invariant and action property of a passing run is proved. Only model-checked are the
liveness properties (`AmpPowersDown`, `NotStuckPlaying`, `KeysAreServed`, `CommandsAreServed`,
`BootSettles`, `ResetReachesPortal`, `AnnouncementEnds`, `WholeFormSaved`, `PortalStaysOpen`,
`ColourShown`, `PulseSeen`, `GoneIsNoticed`): fairness and ENABLED are out of the prover's reach.

## 6. Not modelled, and the plan

Written, in this order: `Channels` ... `Speaker` with `EventFeed` and its proofs, `Boot`
with its proofs, `Announcements` with `AnnouncementFeed`, `Portal`, `Led`, `KeepAlive`, `Clock`
with a module of proofs each, and `AnnouncementPayload`, whose proofs are in
`AnnouncementsProofs`. What is left to prove:

1. `Portal` as a refinement of the portal of `Boot`: its outcomes are now related in
   words only;
2. an abstract specification of the command channel, as `EventFeed` is of the event channel,
   of which `CommandsKeepTheirOrder` would be the step simulation;
3. safety properties that bound what the liveness properties promise, such as how many steps
   of the other tasks a blocked send can see.

Left out for good: the sine generator, note envelopes and volume (numeric signal
processing without state), hue and the pulse codes of the LED protocol, the DHCP server and the
event loops of the access point (library calls that only log), the Wi-Fi driver and the
TCP/IP and MQTT libraries, with what becomes of a `client.poll()` that `select3` drops in the middle
of a packet (`mqtt.rs:274`), pin assignment, the texts of topics and of the discovery document,
logging, and code without a caller (section 2).
