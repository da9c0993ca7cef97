# Specifications of the call agent

TLA+ models of `achatbot-go`: a telephony and browser voice agent driven by an outside platform.
The platform dispatches calls to it over HTTP, a carrier (Telnyx) dials and streams the audio, and a
pipeline per call (VAD, ASR, LLM, TTS) holds the conversation.  This directory says what the parts
owe each other when things happen in an inconvenient order, checks it with TLC on small instances,
and proves with TLAPS, for every value of the parameters, everything it claims but liveness.

Sources are named relative to the repository root (`src/` in PROJECT.json); the short names
`metrics.go`, `live.go`, ... are files of `pkg/rexa`, and `server.go:919` onwards, `telnyx_call.go`,
`rexa_dispatch.go`, `live_room.go`, `relay_media.go`, `transfer.go`, `room_media.go` and
`sentiment_watch.go` are files of `examples/websocket`.

## 1. The system

| Part | State it keeps | Operations | What makes it correct | Module |
|---|---|---|---|---|
| Capacity registry, `metrics.go` | map of calls (`reserved`, `on_gpu`, `voicemail`), window of outcomes, tier windows, first-turn gate, draining | `TryReserve`, `Track`, `Rekey`, `MarkOnGPU`, `MarkVoicemail`, `Release`, `ReapStale`, `Observe*` | ceilings hold; over-subscription bounded; every slot comes back once; the gates reopen | `Metrics`, `LatencyGates`, `Backpressure`, `CallCapacity` |
| Dispatch server, `server.go` of `pkg/rexa`, `hmac.go` | nonce store | verify, decode, admit, dispatch | a signed request is let in once | `DispatchDoor` |
| Dispatcher, `rexa_dispatch.go` | per call: parameters, publisher, transcript | dial, answer, start a sidecar, report a failure | whatever fails, the slot is returned and the platform hears of it | `CallCapacity`, `PhoneCall` |
| Call handlers, `telnyx_call.go` | registry of calls: verdicts, hand-over latch, causes, report; announcement cache | webhooks; media socket; voicemail; late-verdict watcher | one report; no second agent after a hand-over; the message starts after the greeting | `PhoneCall`, `Voicemail` |
| Live room, relay, leg hook (`live_room.go`, `relay_media.go`, `leg_answered.go`) | room, bridge flag, mode, watched rooms, relays, pre-joiners | join, notice a person, bridge, leave, end | only a person takes a call over; an ended call leaves nothing | `LiveRoom` |
| Transfer, `transfer.go` | the `done` flag | the tool, and the repair of an unkept promise | a failed transfer can be tried again | `TransferTool` |
| Live publisher, `live.go` | keys, terminal latch, connection, guess of the authentication | publish, correct the guess, end | a stream ends once; no event lost in silence | `LivePublisher` |
| Callback poster, sentiment (`callback.go`, `sentiment.go`, `sentiment_watch.go`) | retry ladder; last label | post a report; classify a turn | a report climbs its whole ladder; an alert stops with its deadline | `Callbacks` |
| Idle gate and model gateway (`gate.go`, `llmproxy.go`) | slots | wait for quiet, forward | live calls first; what waits is served | `IdleGate` |
| Rate limiter | connection count, buckets per address | connect, sweep | both limits hold | `RateLimiter` |
| Voice session, engine pools (`server.go`, `pkg/common/pool.go`) | borrowed engines; channels of instances, counters | `Get`, `Put`, `Close`; run, cancel, return | one owner per engine; all returned after a hangup | `VoiceSession`, `ProviderPool` |
| Turn gate (`turn_gate_processor.go`) | buffered words, timer | judge, hold, forward | no word of the caller is lost | `TurnGate` |
| Speech in (input queue, ring, VAD, aggregator, ASR) | buffers, detector state | packets to segments | each utterance recognised once, whole, in order | `SpeechPath` |
| Speech out (LLM processor, session, history, transcript, TTS, output queue) | the turn, what was said, what was reported | ask, retry, run tools, speak, interrupt | no needless silence; reports of one turn each | `Reply` |
| Carrier media, `pkg/telnyx/media.go` | playback clock, mute, hold, pre-roll | hear, write, interrupt, hush | the echo gate follows the playback | `MediaGate` |

**Interaction.** The dispatch handlers run on HTTP goroutines and share two registries with everybody
else: the capacity registry and the call registry.  The carrier speaks through webhooks (another
goroutine each) and one media socket per call, whose handler starts the pipeline.  Timers and
watchers (the reaper, the late-verdict watcher, the turn gate's timer, the room poller) act on the
same records.  There is no ordering between any of these beyond the mutexes: a webhook may arrive
before the dial that caused it has returned, and may be delivered twice or never.

**Hard behaviours**, listed with their lines as `hazards` in PROJECT.json: webhooks before, after or
instead of each other; a slot that changes its key while events arrive for both; a verdict that lands
on the line between waiting and acting; retries of what was already done; timers against the event
they guard; state read before a write to the network and used after it; engines returned to a pool
that is being closed; feedback loops that feed on their own output.

## 2. How the modules fit together

Four specifications follow something across components:

* `CallCapacity` (a call against the registry) extends `Metrics`, which extends `LatencyGates`; it
  implements `SlotLedger`.
* `PhoneCall`: one outbound call from the dial to its last webhook.
* `VoiceSession` extends `ProviderPool`: sessions, shutdown and pools together; it implements
  `InstanceOwners`.
* `Backpressure` extends `LatencyGates`: calls admitted by the gates that their own turns feed.

Three compositions gather components that keep no state of each other's: `Overload`
(`Backpressure`, `IdleGate`, `RateLimiter`), `Delivery` (`DispatchDoor`, `LivePublisher`,
`Callbacks`) and `Conversation` (`TurnGate`, `SpeechPath`, `MediaGate`, `Reply`, `LiveRoom`,
`TransferTool`, and `Voicemail` as two parts, the cache and the machine).  A behaviour of these
belongs to one part, chosen in the initial state: interleaving steps that cannot see each other would
multiply the states and add no behaviour of any part.  Within a part all its goroutines interleave.

Each of `Metrics`, `PhoneCall`, `CallCapacity`, `VoiceSession`, `Delivery` and `Overload` has its
theorems in a module of its own name with `_proofs`; those of `Conversation` are in two,
`Conversation_proofs` and `Handover_proofs`, which extends the first.

What is left, in the order it is worth doing:

1. The browser session: its sidecar, greeting and report (`room_media.go`), with the slot and the
   report side by side as in `PhoneCall`.
2. An abstract specification of the report (once, after the end, with its cause) for `PhoneCall`,
   and the proof that `PhoneCall` implements it.
3. Of the modules that are only typed in section 5 (`Backpressure`, `IdleGate`), safety worth stating
   besides their liveness, if a change to the code gives them any.

## 3. The modules and the code

### Capacity

**`LatencyGates`.** `tierWindow` is a sequence of levels (`fine` under `SaturatedMs`, `slow` over it,
`critical` over `CriticalMs`): the p95 test is the count of fine samples against the rank
`(filled * 95) / 100`.  `ObserveFirstTurn` is `ObserveLLMTurn` with turn 1: a trip, by one critical
sample or by the p95, shuts the gate for a whole `Cooldown` and empties the window, also while the gate
is shut.  `blockedFor` is what is left until `firstTurnBlockUntil`; `CooldownRuns` is a tick of the clock.

**`Metrics`.** One action per method, each atomic because each runs under the one mutex.  The weight
of a reservation is kept as a fraction (`WeightNum / WeightDen`) so that no rounding enters; `age`
counts ticks since `dispatchedAt`, for the reaper.  `tracked` and `machine` are history variables:
which slots bypassed admission, which were ever voicemail.  `Next` lets any caller invoke anything
on any id in any order.  Left out, because nothing decides on them: ring times, snapshots, and the
totals of rejected and voicemail calls.  The setters run before the server listens and are constants.

**`CallCapacity`.** Each call is outbound, inbound or browser, with two ids: the platform's and the
carrier's.  An action is what one handler does to the slot: `Dispatch` (admit), `RekeyDialled` (the code
after `Dial` returns, whatever webhooks came meanwhile), `Connected`, `VerdictWaitOver` / `StartPipeline`
(media handler, `runVoiceSession`), `LeaveVoicemail`, `TakeAgentOff` (late verdict or transfer),
`PipelineEnds`, `LegEnds` and `HangupWebhook` (which may be delivered twice; `LegEnds` may lose it),
`Reap`.  `AnswerFails` is an error or a time-out of `Answer`, which says nothing about what the carrier
did or will do: it may come at any point of an inbound call.  `MediaDeadline` is the assumption behind
`reservationTTL`: a call that can still start a session does so within 75 s of its dispatch (dial timeout
plus the bounded verdict wait).  The latency gates stay open in this module.

**`SlotLedger`.** What the rest of the agent may rely on: `new`, `held`, `done`, never back, and no
more admitted calls held than the ceiling.  `CallCapacity` implements it (`KeepsLedger`) under the
mapping `SlotOf`: a call holds a slot when either of its ids is in the map.

### Load

**`Backpressure`.** Calls are admitted while the gates are open and are the only source of samples;
inbound and demo calls (`Unrefused`) come in regardless, any number of times.  Calls already in progress
make their first turn while the gate is shut, and may trip it again.

**`IdleGate`.** `stand` is where each prompt's handler stands: in `line` for a slot, then looking, asleep
or through with it, then forwarding; `patience` counts the polls left before `maxWait`.  Whether a look
finds the box quiet is left open, so calls may keep it busy for ever; `ClientGoes` may come at any point
and `Proceed` is `Run`'s second look at the context.  Senders on a channel are served in order, which
`line` keeps.

**`RateLimiter`.** `connCount` is the atomic counter; a request finds its bucket under the read
lock (`FindBucket`) or makes one under the other (`MakeBucket`, which looks again); `Sweep`
removes full buckets, also one that a request holds and has not used.  `overtaken` (history) marks the
addresses to which that happened.

### The phone call

**`PhoneCall`.** The carrier is external: `leg`, who answers, what detection concludes; a webhook may be
handled late, any number of times or never once it has been sent, so `WebhookAnswered`,
`WebhookDetection`, `WebhookGreeting`, `WebhookHangup` and `WebhookRecording` are enabled by the event and
not consumed.  Each is the whole case of `handleTelnyxWebhook`, except that a hangup's removal of the call
(`HangupDeletes`) may come after other handlers have run.  `DialReturns` is the code after `Dial` up to
`calls.put`; `DialFails` is an error from `Dial`, which says nothing about whether the phone rings.
`entry` and `kept` are the two maps of `callRegistry`; each hangup of this call puts it in the second
afresh (`keptFor` counts ticks since), and the hangup of any other call sweeps out what is older than
`endedTTL` (`Sweep`).  `amdCh` is the verdict channel with its capacity, and per media stream there are
the handler (`Fork`, `Greet`, `HearMachine` / `TakeForHuman`, `StartSession`, `SessionEnds`,
`VoicemailDone`), its forwarder goroutine (`Forward`, `ForwarderStops`) and the watcher it leaves behind
(`WatchTakes`, `WatchGivesUp`).  Waits may run out at any time.  `LeaveCall` / `LeaveCallStops` are the
two halves of `leaveCall`; `gone` records that the carrier granted `streaming_stop`.  `hungUp`, `dropped`
and `gone` are history.  Our own hangups (after a message, at the length limit) are `EndLeg`, and those of
the late path are `LegEnds`.  The verdicts are the three the code tells apart: `machine` (also for
`fax_detected`), `silence`, and `unclear` for all those that every decision takes for a person (`human`,
the `human_*`, `not_sure`).

**`Voicemail`.** `runVoicemailCall` from our greeting to the hangup: `WaitBeep` / `BeepDeadline`,
`Listen` (`waitForMailboxToFinish`), `PlayMessage`, `AwaitMark`, `HangUpMailbox`.  `inbound` is what
waits on the socket: nobody reads it during the wait for the beep, and the first reads return what
was said before.  The cache is `announceCache`: `LookUp` under the lock, `Render` is the synthesis
outside it and `put`, whose loop is `Stores`.

### The wires to the platform

**`DispatchDoor`.** `Verify` in its order, then decoding, admission, and the dispatcher's answer.  `skew`
is the difference of the two clocks; the domain of `passes` are the requests sent so far, any of which the
network may deliver again; `Stray` are requests the platform did not sign, or not in this form.  The
platform retries what it may retry, under the same nonce.

**`LivePublisher`.** An event is a goroutine that goes from `Begin` (latch and keys under the
lock) through `Push`, `Denied`, `Judge`, `Redial`, `Replay` to `Close`, all outside it: the latch
`flipped` is read in one step (`Denied`) and set in another (`Judge`), so several events may correct the
guess, each closing what `p.rdb` names by then and dialling anew.  `secured` is what the
server demands, `fallback` whether the agent has a password to fall back on; a client is
identified by who dialled it and with which mode.

**`Callbacks`.** A report climbs `ReportLadder` in a goroutine without a deadline; an alert is
classified, observed by the tracker and posted under one budget (`left`), so that only the first
rungs of its ladder are ever climbed.

### Engines

**`ProviderPool`.** Per pool the channel (`queue`), the stages of `Close` (`shut`), the
counters, and per instance the `inUse` flag.  `Get` is `Receive` or, after 100 ms of an empty channel,
`Overflow`; `Put` is `PutBegins` (flag, look at `stopCh`) and `Offer` (the send), with everything
that may happen in between; a send on the closed channel is a panic.

**`VoiceSession`.** A session takes one engine of each kind in order, tunes the last, builds, runs,
and returns them in reverse by deferred calls.  `hung` is the caller's end, `cancelled` that the task
was told; `main` is the shutdown, which cancels every task and closes the pools.  A demo call leaves a
goroutine that goes on using the voice.  `ScrapOnCancel` are the kinds of engine whose `Release` destroys
something.

**`InstanceOwners`.** An instance has one owner at a time, the pool or one session, and is never used
again once scrapped.

### Inside a call

**`TurnGate`.** The text goroutine (`GateHear`, then `GateComplete` or `GateIncomplete`) and timer
callbacks (`GateExpire`, `GateTake`), of which one may have begun when the timer is stopped.

**`SpeechPath`.** Packets are queued (`ReceivePacket`, `DropPacket`), cut into windows through the
ring (`TakePacket`, `TakeWindow`), judged by the four-state analyzer (`Analyzed`), and its
frames drive the aggregator (`OnStarted`, `OnAudio`, `OnStopped`).  `spoken` is history: the detector's
utterances.

**`MediaGate`.** `playEnds`, `mutedFor`, `openFor`, `heldFor` are deadlines, as ticks from now;
`carrier` is what the carrier really has left to play.  `Hear` is `keepInbound`; writers go from
`PassMute` through `NoteOutbound` to `WriteAudio`, an interruption through its three lock sections
(`Interrupt`, the look at the hold; `ResetPlayback`; `MuteAfterReset`) to `WriteClear`, and any of them may
overtake another.  `slipped` is history: chunks counted after the reset and before the mute, which the
clear then flushes, until the clock has run them off.

**`Reply`.** `CallerTurn`, `BeginTurn` and `Ask` are the head of `chat()`; `Chunk`, `RanTools`,
`Spoke`, `AskAgain`, `Silent`, `EndTurn` its loop; `Speak`, `SendPayload`, `Voice`, `Unmute` the side
of speech; `SpeakOver` the interruption.  `ToolRound` and `Kept` are the history's window, `Added` the
transcript's.

**`LiveRoom`.** `Join` with its three steps, `CallAnswered` and `Prewarmed`, the two detectors
(`PollFinds`, `WebhookTells`, `Decide`), the relay (`RegisterRelay`, `SidecarStarts`, `RelayFails`), the
carrier's conference (`StartConference`, `Dial`, `Dialled`, `StepOut`), and the end in the order of
`endLiveRoom`: `EndLiveRoom` takes the name, then `UnwatchRoom`, `StopPrewarm`, `EndCallRelay`, `ForgetRoom`,
each a step of its own, `DeleteRoom` on its goroutine, which may fail and then never comes, and
`RemoveCall`.  A detector and the goroutine it starts are one actor.  `raced` is history: an act that came
after the step that would have undone it.

**`TransferTool`.** `Execute` by two callers: the tool within a turn, and `transferOnPromise` when a
turn is reported.  `GoAhead`, `Announce`, `TransferFails` / `TransferMade` are its steps.

## 4. The runs

A module `MC...` per run gives the structured constants (orders, kinds, symmetry); every cfg gives the
constants their values and replaces nothing.  Deadlock checking is off throughout:
calls may all be over, or a bound reached.

| Run | Instance | Shows |
|---|---|---|
| `metrics` | 4 interchangeable ids, pipelines 1, total 3, floor weight 60 %, outcome window 2, 5 reservations | `TotalCeiling`, `OvershootBounded` and types under every order of operations |
| `capacity` | one call of each kind, pipelines 1, total 2, reaper TTL 1 tick, outcome window 4 | one slot per call, running pipelines counted, slots conserved, the ledger kept, every slot returned |
| `overload` | calls: 3 dispatched and 1 unrefused, cooldown of 2 ticks, first-turn window 3, minimum 2, tier window and minimum 1; model: 3 prompts, 2 slots, 2 polls; socket: 3 connections from 2 addresses, ceiling 2, burst 1 | `RefusalsEnd`: the gate comes back however often it is tripped while shut; every prompt that stays is served; the limiter keeps its limits |
| `overload_tiers` | 2 dispatched calls, otherwise as above | **violation** of `AcceptanceResumes`: a saturated tier never recovers without traffic |
| `phone` | 1 call, 2 media streams, channel of 1, greeting in the cache or not, `endedTTL` of a tick | one report, recordings that find the call within `endedTTL`, no agent after a confirmed hand-over |
| `phone_unreported` | 1 stream | **violation** of `EveryCallReported`: a hangup before the registration is never reported |
| `sessions` | 2 sessions, one a demo; 2 pools of 1 engine, 2 engines made at most per pool | one owner per engine, none lost, all returned after a hangup, against overflow, failures, shutdown |
| `sessions_local` | as above, with engines that `Release` destroys | **violation** of `PooledEnginesWork`: a destroyed engine waits in the pool |
| `delivery` | dispatch: 2 dispatches, skew -1 to 2, drift 1, 2 attempts, 3 ticks; live: 4 events, 2 of them endings, 2 keys; callbacks: 1 report, 2 caller turns | let in once; a stream ends once; nothing lost in silence; the guess costs nothing; a connection remains |
| `call` | the eight parts of one call (below) | twelve properties, among them `WordsAreNotLost`, `SegmentsAreWhole`, `EndedCallLeavesNothing`, `MessageAfterGreeting` |
| `call_heard` | part `reply` | **violation** of `ReportedWasHeard`: a reply is reported in full and then not spoken |
| `call_hush` | part `media` | **violation** of `HushIsForGood`: an interruption replaces the hush by its short mute |

### What the properties say

*Capacity.*  `TotalCeiling`, `OvershootBounded`: admission never passes its two ceilings, whatever the
measured answer rate does.  `OneSlotPerCall`: never a slot under both ids of a call.
`RunningPipelineCounted`: a call whose session runs is counted as a pipeline, until the agent is taken off
or the leg is down, unless it is an inbound call whose Answer failed.  `SlotsConserved`: every slot ever
taken is in the map, was reaped, or was resolved once.  `KeepsLedger`: the refinement of `SlotLedger`.
`SlotsReturn`: a call that is over gives its slot back, unless its hangup was lost.

*Phone.*  `ReportedOnce`, `ReportedUnlessEarly`: one report at most, and one in fact unless the hangup
was handled before the registration.  `RecordingReported`: a recording saved within `endedTTL` of the first
hangup finds its call, whatever was redelivered and swept meanwhile, with the same exception.
`AgentGoneForGood`: no media stream of ours after a confirmed hand-over.

*Load.*  `RefusalsEnd`: an agent that refuses calls takes them again, unless it drains, unrefused calls never
cease, or its last call left a saturated tier behind; the last is the violation of `AcceptanceResumes`, which
states the comments' claim without exceptions.  `LimitsHold`, `PromptsAreServed`: the limiter's two limits,
and service of every prompt whose client stays.

*Sessions.*  `EnginesAccountedFor`: an engine of an open pool is queued, held or released, and out of
reach once released.  `KeepsOwners`: the refinement of `InstanceOwners`.  `HangupReturnsEngines`: whatever
the session was doing, its engines go back.

*Delivery.*  `LetInOnce`: a nonce is not forgotten while its timestamp is acceptable, on either side of
our clock.  `EndsOnce`: one terminal event per stream.  `NoSilentLoss`: an event that is in no list was
late, or was counted as a failure.  `GuessCostsNothing`: a wrong first guess about authentication loses no event
that no other overlapped.  `StaysConnected`: however many events correct the guess at once, they leave an
open connection in the mode the server wants.

*Call.*  `WordsAreNotLost`: what the caller said is forwarded or about to be.  `SegmentsAreWhole`: each
utterance recognised once, whole and in order.  `GateTracksPlayback`: the echo gate's clock is behind what
the carrier plays by no more than its tail, and ahead by no more than that and what slipped past a mute.
`SilenceIsLast`: a turn ends without a word only when its budget is spent or the model has nothing to say
even without tools.  `ReportsKeepApart`: a report holds consecutive words of one turn, each word once.
`TranscriptKeepsOpening`: a full transcript keeps the greeting and the caller's first turn.
`BargeTakesAPerson`: the agent is hushed or leaves only once a person is in the room.
`EndedCallLeavesNothing`: no watch, relay or process after an end whose steps nothing overtook, and no
room but one being deleted or left to its expiry.  `FailedTransferCanBeRetried`: the tool is not spent by
an attempt that failed.  `CacheCountsItself`: the announcement cache's bytes and order agree with its
content.  `MessageAfterGreeting`: a message cued by a beep or by silence starts after the mailbox has
finished.

`TypeOK` (`LifeTypeOK` in `capacity`) is each run's type invariant.  In `delivery` it also holds the budget
of an alert, which a back-off that ignored the deadline would overrun.

### Bounds

*`metrics`, `capacity`.*  `CallBound` limits the reservations ever made, so that `totalCalls` is finite;
five is one more than the ids, enough for an id to be re-used.  With a floor of 60 % and one pipeline
the bound of `OvershootBounded` is two calls, one less than the total ceiling, so an admission that
ignored the floor is seen.  A window of two outcomes lets the measured rate take every value
between nothing and everything within a run.  In `capacity` the ceiling of two is below the three calls, so
admissions are refused, and an inbound call pushes past it.

*`overload`.*  Windows keep the code's shape (full, wrapping, reset) at length three.  A tier is saturated
by one slow sample and cleared by the next.  A cooldown of two ticks can be interrupted half way by the
first turn of a call that was in progress when it began, and be pushed out by several of them.  Three prompts
for two slots leave one in line; two addresses and a ceiling of two let either limit be the one that
refuses, and two requests of one address race for its bucket.  `LimitsHold` speaks of addresses not in
`overtaken`.

*`phone`.*  `MaxStreams` is two: the first stream and one the carrier forks again after a drop or a
hand-over; what a third would add is what the second shows, since nothing but the registry outlives a
stream.  `ChannelSize` is one, where the code has two: a verdict that finds the channel full is then lost
already at the second of a stream that is not read.  A tick is as long as `endedTTL`, so that a recording
comes before it has passed or after; the theorems hold for every channel size and every `EndedTTL`.  Events
are not bounded: each may be delivered for ever.

*`sessions`.*  With one engine per pool, two sessions force the overflow engine and then the
full pool that releases it.  A third session would wait as the second does.

*`delivery`.*  The clock has to pass the nonce's memory (`NonceTTL` 2, twice the drift as in the
code) with a request's timestamp ahead of it and behind, hence the skews and `MaxTime` 3.  Two
plain events and two endings are the fewest in which corrections, the latch and the closing can all
overlap.  The alert's ladder and budget are the code's, in seconds.

*`call`.*  The parts `gate` (4 utterances), `speech` (packets of half a window and of one and a half,
queue 2, ring of two windows, at most 8 windows, 1 or 2 start frames), `media` (levels of sound 1 to 3, a
greeting of 2 chunks, a lead of 3), `reply` (2 caller turns, 2 chunks each, one interruption, a history of
one pair, a transcript of 4; the tool budget and the retries are the code's), `room` (2 operators, 2
detectors; with the relay 2 rooms, or 1 and the carrier's answer; with the pre-joiner 1 room and the
answer), `transfer` (3 agent turns, 4 attempts), `cache` (3 announcements of which two fit, 2 getters) and
`machine` (silence of 3 frames, pauses of up to 2, 3 frames waiting).  The pause is shorter than the
silence asked for: a mailbox that pauses longer is talked over by design.  Operators and detectors are
interchangeable; no liveness is checked in that run, so the symmetry is sound.

### Fairness

`CallCapacity!Fairness` asks for what the code's scheduling gives: a handler that has begun takes its next
step; calls end (the carrier's limits and the configured maximum length); a webhook that was sent and
not lost arrives; a session whose socket is gone ends; the reaper's ticker ticks.  Nothing is assumed
of lost webhooks, redelivery, the callee, or new dispatches.

`Overload` assumes that calls end and that the clock ticks.  That is less than the end of a cooldown,
which every trip starts again: `RefusalsEnd` holds because while the gate is shut only the calls in
progress can make a first turn, once each.  Of a prompt it assumes that goroutines run, that a poll's
sleep ends, and that forwarding ends, for the model's client has a time-out of 120 s.  Nobody has to be
patient, and the box need never be quiet.

`VoiceSession` assumes that a session's goroutine takes its next step and that the watcher of the
socket acts on a hangup: every call the session makes returns, `Get` after 100 ms at the latest.

### Where code and comments part

With a run that shows it (a finding in PROJECT.json):

* `metrics.go:753-755` says refusing calls lowers the p95; without calls the p95 never moves.
  Run `overload_tiers`.
* `callback.go:195-197` says every dispatched call must be reported; one whose hangup is handled before
  `calls.put` is not.  Run `phone_unreported`.
* `session.go:186-188` of `pkg/common` says all of a turn reported in full will be heard; `chat()` reports
  it when the model has finished, and an interruption then drops the rest.  Run `call_heard`.
* `media.go:468-469` of `pkg/telnyx` says the hush is permanent; an interruption overwrites it.
  Run `call_hush`.
* `server.go:1218-1220` and `pkg/common/interface.go:17`: engines destroyed by a Cancel frame are put
  back in their pool.  Run `sessions_local`.

Met while modelling.  The models let these happen, and no property claims otherwise:

* *Slow inbound calls.*  `metrics.go:240-249` calls the first-turn gate "a duty cycle rather than a latch".
  Calls that are never refused trip it while it is shut, each time for a whole cooldown (467): enough slow
  inbound calls keep it shut for as long as they keep coming, which is what `RefusalsEnd` excepts.  And
  "judge recovery on calls admitted after the trip" (469-470) is not what happens when the calls admitted
  before it make their first turn afterwards, into the emptied window.
* *Answer that fails late.*  `Answer` (`rexa_dispatch.go:415`) may take 15 s (`client.go:74` of
  `pkg/telnyx`); an error or time-out after the carrier acted on it, with `call.answered` perhaps handled
  (399-400), unregisters the call, gives its slot back and reports a failure to the platform (416-425),
  while the leg is up.  A session that has begun by then runs uncounted; `RunningPipelineCounted` excepts
  it (`Disowned`).
* *Late recordings.*  The comment of `endedTTL` (`telnyx_call.go:372-377`) counts on a recording within five
  minutes; one that comes later, when another call's hangup has swept the map (397-402), is dropped without a
  word (928-932).
* *Lost hangup.*  `metrics.go:707-710` says a call on GPU is released by `runVoiceSession`'s deferred
  call; `server.go:919-926` says, and does, otherwise.  Only reservations are reaped, so a hangup webhook
  that never comes costs the slot.
* *Late verdict.*  `metrics.go:668-669` says `MarkVoicemail` releases the pipeline's capacity; a
  promotion right after it (`server.go:924-926`, against `telnyx_call.go:1291`) takes it back.
* *Answer rate after a transfer.*  `transfer.go:154` marks a transferred call as a voicemail, and
  `Release` counts it as one that never had a pipeline: the measured rate falls, and later
  reservations are charged less than they cost, down to the floor.
* *Silence.*  `outcome.go:88-95` says its predicate must not record conversations as voicemails, and
  counts `silence` as a machine; the media path (`telnyx_call.go:982-985`) takes it for a person.
* *The silent mailbox.*  `telnyx_call.go:991-995`, the comment beside `watchLateAMD`'s start, says a
  silent mailbox still reaches the voicemail path; the watcher stops at the first verdict that
  is not a machine (1283-1287), and the forwarder may have taken the machine's.
* *The same nonce.*  An attempt after `at_capacity` comes under the nonce of the first and is refused
  as a replay (`hmac.go:148`), with a 401 that is not retried.
* *Alerts.*  `callback.go:44-51` counts on about 44 s of retries; the deadline of 4 s in
  `sentiment_watch.go:92` covers the classification too.  Two turns' verdicts may be observed in
  the opposite order (87).
* *Barge after a listener.*  `bridged` is set when somebody listens (`live_room.go:355`, 369) and
  not reset when they go, so the guard at 339 refuses a later barge.  The comment at 333 says the outer
  loop redials a leg that died; it does not.
* *Overtaken hand-overs.*  Two Joins may each make a room (`live_room.go:754`); a Join, a pre-joiner's
  start, or a person noticed just before the end of the call leaves its room or process behind, and so
  does a `call.answered` handled among the steps of `endLiveRoom` (539-545); a room whose deletion fails
  (549-551) stays until it expires; a leg answered before `watchLegAnswered` registers is only found after
  the 8 s fallback; an old relay's deferred `setInboundTap(nil)` (`relay_media.go:137`, not modelled)
  removes its successor's tap; the mode of the last Join decides for whoever comes in.
* *Two attempts at a transfer.*  From one promise and one tool call (`transfer.go:325`), for `done` is
  looked at and set without a lock.
* *The demo's goroutine* goes on using a voice engine that its session has returned.
* *Reply.*  Words that come with a tool call are kept twice in the history.  Two tool rounds may
  use up the budget and leave the caller without a word.  Text that the aggregator still held is
  spoken after an interruption.
* *Echo gate.*  An interruption resets the clock (`media.go:564`) before it mutes (565-567).  What the
  pipeline hands over in between is counted and then flushed by the clear: the gate stays shut for that
  much audio which nobody hears (`slipped`).
* *Turn gate.*  It may forward the same words twice (a timer's callback and the classifier).
* *Mailbox cap* (`telnyx_call.go:1637` onwards): looked at only between two frames.
* *Idle prompt.*  It looks and then speaks (`server.go:1111`), so a caller may be asked whether they
  are there as they begin to speak.
* *`Transcript.Add`* reads and sets its flags outside the lock its turns are under.
* *Swept bucket.*  The sweeper takes a full bucket for an unused one (`rate_limiter.go:100-105`); one just
  made for a request is full, and the address may then exceed its burst.  A request refused at the ceiling
  is counted for a moment, so that another may be refused with a place free.
* *`sglang.go`* says a silent poller leaves the last good values in place (45-47), while `pollAll` stores an
  empty reading when nobody answers; and "REPORTED, NOT ACTED ON", while `Gate` acts on it.
* *Browser calls.*  `reportSessionFailed` (`rexa_dispatch.go:575`), written to say at once that a browser
  session never became a call, is called by nobody: a session whose sidecar never connects is not
  reported, and its entry stays in the registry.  A room that nobody opens, which its comment wants
  reported as `no_answer`, holds a pipeline until the sidecar gives up after 120 s and is then reported as
  a completed call whose caller hung up (`room_media.go:337-341`).  The greeting is written on the bare
  connection (`room_media.go:249-253`), beside the pipeline's writer that has a lock for it.

## 5. What is proved

`Metrics_proofs`, for every set of ids, every ceiling, weight, window and bound that meets
`GatesAssumption` and `MetricsAssumption`:

* `TypeCorrect`: `Spec => [](TypeOK /\ VoicemailMarked)`.  `VoicemailMarked` says that a slot in state
  `voicemail` is in `machine`; it is needed below and inductive with the types.
* `TotalCeilingHolds`: `Spec => []TotalCeiling`.  The invariant is inductive given the types: every
  operation but `TryReserve` either leaves the admitted calls as they are, exchanges one id for
  another, or removes some (lemma `NextEffect`), and `TryReserve` adds one only when `TotalFull` is
  false, that is below the ceiling (`BelowCeiling`).
* `OvershootHolds`: `Spec => []OvershootBounded`.  `Charged`, the calls still able to become
  pipelines, changes in the same three ways.  When one is added, each member of `Charged` costs
  at least the floor weight at that moment (`WeightFloor`, for every content of the window), so their
  number times the floor is below the ceiling before the step (`ChargedBelowCeiling`) and at
  most one floor above it after.  What the outcome window does between two admissions does not matter,
  which is the point of the floor.

`PhoneCall_proofs`, for any number of media streams, any channel size, any `EndedTTL` and both kinds of greeting
(`PhoneAssumption`):

* `TypeCorrect`: `Spec => []TypeOK`, in three lemmas, one per part of `TypeOK`.
* `ReportedOnceHolds`, `ReportedUnlessEarlyHolds`, `RecordingReportedHolds`: consequences of
  `Contract`, which relates the reports to `reported`, the dispatch and the two maps.  It is
  inductive: only six actions touch what it speaks of, and `WebhookHangup` is the one with an
  argument (a call that is in the registry and was not reported has no report yet, because a failed
  dispatch is never registered; a first hangup after the registration always finds the call).  For the
  recordings it says that a call hung up is live, remembered, or was hung up longer ago than `EndedTTL`: it
  was remembered no earlier than its first hangup, and a sweep takes only what is older.
* `AgentGoneForGoodHolds`: from `HandOver`, which says that a call the agent has left or is leaving is
  latched for as long as it is in the registry, and that nothing happens to an unregistered one, so that
  a registration cannot undo it.  `Fork` is then refused for good.

`CallCapacity_proofs`, for every set of calls of the three kinds, ceiling, window and deadline, from
`CapacityAssumption` (a reservation is reaped no sooner than a call can still start a session).
`CapacitySpec` implies the registry's types step by step, so the lemmas of `Metrics_proofs` hold in it.

* `LifeTypeCorrect`: `CapacitySpec => []LifeTypeOK`.
* `OneSlotPerCallHolds`, `RunningPipelineCountedHolds`: consequences of `LifeInv`, which says of each call
  that it has at most the slot of the id it is known by (`SlotId`), holds none before it is dispatched,
  still has it, young enough not to be reaped, as long as a session may start (`StartableIsCounted`), and
  has it on GPU while the session runs, unless Answer failed on it.  The third part is why the two
  properties are not inductive alone: a reaped reservation would be promoted by nobody.  Per action, one
  call changes and the others are left alone (`UntouchedCall`).
* `SlotsConservedHolds`: each operation moves the three sums by the same amount; a release that finds
  nothing moves none.
* `KeepsLedgerHolds`: `CapacitySpec => KeepsLedger`, the refinement.  The initial states map to
  `Ledger!Init`, and each handler's step to granting, returning, or nothing at all, by `LifeInv`.

`VoiceSession_proofs`, for every set of pools, users and sizes, from `PoolAssumption` (`None` is
nobody) and `SessionAssumption`:

* `TypeCorrect`: `Spec => []TypeOK`.  Every step does one of a few things to the engines (`SessionMoves`
  names them: makes, takes, returns, places or drains one, or moves none).
* `KeepsOwnersHolds`: `Spec => KeepsOwners`, the refinement of `InstanceOwners`, from `OnePlace`: an engine
  is in a channel, in one hand or being sent, and nowhere twice; in a hand it is flagged in use, so
  that its `Put` is not taken for a second one.
* `EnginesAccountedForHolds`, `ServiceEnginesWork`: under the hypothesis `ScrapOnCancel = {}`, which is
  the configuration with engines behind a service (and the value in the run `sessions`).  Without it both are
  false, as `sessions_local` shows; what holds without it is `NoneLost`, a lemma: no engine of an open pool
  is lost.

`Delivery_proofs`, for every set of dispatches, events, keys and callbacks, all skews and ladders, from
`DoorAssumption`, `LiveAssumption` and `CallbacksAssumption` (the classifier's own time-out, 3 s,
is within the alert's deadline of 4 s):

* `TypeCorrect`, from the three invariants below together.
* `LetInOnceHolds`: `DoorInv` says that a request that got in is *shut out*: its timestamp is too old, or
  its nonce was recorded late enough to be remembered until it is.  It uses `NonceTTL >= 2 * MaxDrift`,
  the code's choice.
* `EndsOnceHolds`, `NoSilentLossHolds`, `GuessCostsNothingHolds`, `StaysConnectedHolds`: `LiveInv` is about
  one event (`EventOK`, `FlipOK`, `AloneOK`), two (`ApartOK`) and the connection (`ClientOK`): every event
  that corrects the guess was denied for being in the mode the server does not want, so that all dial the
  other one; the publisher's client is open except while somebody stands between closing one and dialling
  the next; and an event that nothing overlaps has an open client whenever it pushes.

`Overload_proofs`, for every number of tiers, calls, prompts, slots, connections and addresses (finitely
many connections, `LimiterAssumption`: they are requests of one process):

* `TypeCorrect`, of which the slots of the idle gate and the counter of connections are the parts with an
  argument: a counter that is decremented stays in `Nat` because it counts exactly who is present.
* `LimitsHoldHolds`: `LimiterInv` says that a bucket belongs to one address, that a request asks no
  other bucket than the one in the map unless the sweeper overtook it, and that what is in that
  bucket is no more than what its address is still due.

`Conversation_proofs` and `Handover_proofs`, for every number of utterances, turns, chunks, interruptions,
writers, operators, rooms, detectors, attempts, frames and announcements.  A step of `Conversation` is one
part's and leaves the state of the others alone (`PartsStepApart`), so each part has an inductive
invariant of its own:

* `WordsAreNotLostHolds`, from `GateInv`: what the classifier is judging is what the buffer held, unless
  a timer took it since.
* `SilenceIsLastHolds`, `ReportsKeepApartHolds`, `TranscriptKeepsOpeningHolds`, from `ReplyInv`.  `LoopInv`
  counts the budget: every request but the one under way ended in a round of tools, which costs two, or in
  being asked again, which happens once.  `ReportInv`: the words recorded for the next report are the
  turn's latest in a row, and whatever was reported came before them.  `AccountInv`: the windows of
  history and transcript.
* `GateTracksPlaybackHolds`, from `MediaInv` (`ClockFollows`): between reset and mute the clock is what
  has slipped, which is under way; between mute and clear it is at most that and one chunk for each writer
  that was past the mute when it was raised; between two clears it differs from what is under way by no
  more, and the tail is no shorter than there are writers (`MediaAssumption`, which also has the mute of
  an interruption last).
* `SegmentsAreWholeHolds`, from `SpeechInv`: while an utterance lasts the aggregator holds what has been heard
  of it, between two nothing, though a false start leaves it open for a window; what was asked about is the
  finished utterances (`Matches`).
* `FailedTransferCanBeRetriedHolds`, from `TransferInv`: nobody but a caller who waits for the carrier keeps
  `done` set.
* `MessageAfterGreetingHolds`, from `MachineInv`: while the machine talks, no run of quiet frames that has been
  counted, or waits to be, is longer than a pause, and the run at the end is no longer than the pause the
  machine is in.  The bound on a pause is `VoicemailAssumption`'s: a mailbox that pauses longer is
  talked over by design.
* `CacheCountsItselfHolds`, from `CacheInv`: the order lists what is held, each once.
* `BargeTakesAPersonHolds`, `EndedCallLeavesNothingHolds`, from `RoomInv`: a detector has moved only because a
  person came in, and takes the call over only if somebody did not ask merely to listen (`BargeInv`);
  if nothing was overtaken, all that is kept is kept of the room the call knows by name, and each kind of
  it (watch, pre-joiner, relay, room) is gone once its step of the end is past (`TidyInv`).
* `TypeCorrect` (in `Handover_proofs`), the types of the whole call.

The constants that bound a run (`MaxTime`, `MaxChunks`, `MaxRooms`, ...) are any numbers in these theorems, so
they are proved of behaviours of every length.  What is a number in the code (the tool budget, the window of
two half windows) is that number in the proofs.

**Only model-checked:** the liveness properties `SlotsReturn`, `RefusalsEnd`, `PromptsAreServed` and
`HangupReturnsEngines`, which rest on fairness and so on ENABLED, out of TLAPS's reach; they hold on
the instances of section 4.  The properties of the violation runs are refuted by TLC, not proved.  No
module uses a RECURSIVE operator, so none is closed to proof.

## 6. Not modelled

PROJECT.json lists every component with its status and reason.  Left out, or left open on purpose:

* Codecs, HTTP clients, the dashboard, configuration, speech engines, text markup: I/O or arithmetic
  without protocol.  The carrier, the room service, the Python sidecar, the callee and the frame passing
  of the pipeline library are external, and appear as what they may do to the agent.
* `PhoneCall`: beep and greeting audio, the listener's room, everything a demo call does differently.
* A browser call beyond its slot: greeting, bots, bridge and report.
* `VoiceSession` assumes that cancelling a task brings a Cancel frame to every processor, as
  `server.go:1218-1220` says.  `ProviderPool`: the clean-up of what is queued when a task never runs.
* `MediaGate`: a write to the socket costs less than a tick; the part of a frame that
  `WriteRawAudio` keeps for the next; a hush before the media is up is left open.
* `Reply`: the generate and non-streaming modes, and the Ollama processor.
* `LiveRoom`: joining a call on another agent, the SIP dial's details (the number of dials is a
  choice), the relay's socket, its tap on the call and the listener's audio, the map of legs waited for (the
  agent leaves when the leg has answered or after 8 s, whichever it is); at most one `call.answered` is handled
  (`MaxAnswered`).
* `LivePublisher`: a write that Redis did and whose answer was lost, which the client library may send again.
* `Voicemail`: the grace for a verdict that is missed, and `playAnnouncementPaced`, which nobody calls.
* `RateLimiter` switched off by configuration does nothing.
* The camera's side of the output processor, saving and resampling of audio, queue clean-up.
