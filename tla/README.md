# Models and proofs of the Goodix 27c6:550a Linux driver

This directory holds TLA+ modules that model the driver of this repository, the
TLC configurations that check them on small instances, and theorems about them
that TLAPS checks for every value of the constants. Every definition is
translated from the source; `PROJECT.json` names, for each of them, the file, the
lines and the symbol it stands for. Paths below are relative to the repository.

```
tlc -config MCCapture.cfg MCCapture.tla        # one run
tlapm CaptureProofs.tla                        # one proof module
```

## 1. The system

The driver talks to one USB fingerprint reader (Goodix `27c6:550a`, sensor
GF3258). There are two host paths over the same core: standalone programs with
blocking USB transfers, and a libfprint driver. Most models follow the libfprint
path, because that is where the hard behaviour is: libfprint runs each action as
a state machine that submits one asynchronous USB transfer at a time, the answer
arrives in a callback, and a transfer may be cancelled or time out at any of
them. The standalone path has a model of its own (`StandaloneSession`): it reads
whole packets and skips what it does not expect, which makes it err differently.

```
libfprint (probe, open, enroll, verify, identify, capture, cancel, close)
    |            actions and their completions
libfprint-overlay/goodix550a.c          one SSM or one engine at a time
    |            next transfer / transfer done
libfprint-bridge  ->  src/libfprint_wire.rs     bootstrap, recovery, capture,
    |                                           enrollment, verification, identification
    |            frames
src/enrollment*.rs, verification*.rs, template_*.rs     template and matcher
                 USB bulk OUT / IN
the sensor: answers commands by queueing packets on its IN endpoint
```

Two facts about the sensor shape every property below. It keeps what nobody has
read: a packet that an abandoned action did not collect is the first thing the
next action reads (`src/tools/hardware/cold_version_probe.rs:33-40` drains such
packets; the driver does not). And it keeps its volatile configuration and the
firmware it runs across restarts of the host program, until it loses power.

### Components, state, operations

| component | state it keeps | operations | what is hard | what makes it correct |
|---|---|---|---|---|
| capture engine (`libfprint_wire.rs`, `crypto.rs`) | stage, image key, protected image, result | twelve stages: D2 key, FDT down, GetImage, FDT up, each written, acknowledged, completed | cancellation or time-out at each transfer, stale packets, an image longer than the read | the frame returned is of this capture; the finger has left; one report per capture |
| driver life cycle (`goodix550a.c`) | claim, engine handles, firmware, power-lost flag, handoff, invalid USB instance | probe, bootstrap, qualification, open, recovery, operation, close | failures inside nested state machines, stale acknowledgements, reboots, restarts of the host | operations run only on configured APP firmware; firmware goes only to IAP; nothing leaks |
| recovery engine (`libfprint_wire.rs`) | stage, OTP | read OTP, download configuration | half-done recovery, stale replies | part of the life cycle |
| bootstrap engine (`libfprint_wire.rs`, `firmware_auth.rs`) | stage, chunk and block counters, PSK and hash read | version handshake, PskRead piece by piece, 98 chunks, firmware check, reset | interruption between chunks, writes that fail unseen, stale completions | only an authenticated sensor is written; a reset starts a whole image; somebody who keeps probing boots |
| operations (`libfprint_wire.rs`, `goodix550a.c`) | template, progress, gallery, best match | enroll, verify, identify | retries, failed touches, several prints, ties | whole prints, true progress, a decision about the whole gallery and one touch |
| enrollment graph (`enrollment_add.rs`, `enrollment_graph.rs`) | samples, pair relations, anchor, canonical members | add, attach, establish, promote, close | orientation of relations, overwriting, a queue that grows while walked | members are placed by what was measured, and stay |
| template persistence (`template_persistence.rs`, `template_decode.rs`) | none | select relations, encode, decode | a depth-first selection over the graph | selected relations span the members; the decoder takes what the encoder writes |
| gallery verification (`verification.rs`) | mode, latches, reject count, accepted samples of one scan | skip, evaluate, reject, accept a sample; finish | early exits, modes that raise each other, arbitration | a match is earned; the score is that of the best accepted sample |
| standalone path (`transport.rs`, `device.rs`, `driver.rs`, `chicago_h.rs`, `app/`) | session, enrollment transaction, attempts | open, restore the configuration, capture, enroll, verify | programs cut off anywhere, nothing drained, loss of power | a frame is of its own exposure, configuration and touch |
| numeric code (`preprocess.rs`, `feature/`, `registration/`, policy programs) | none | pure functions of a frame or a pair of samples | fixed-point arithmetic | parity tests in the repository |
| private files (`private_file.rs`) | two template files | truncate, write, read back | a program stopped between | a complete enrollment before either is touched; only a cut-off program leaves one torn |
| tools, build | - | probe, install | - | - |

`PROJECT.json` lists every component with its sources, the modelled ones and the
others with the reason, and every hazard at its line.

### How they interact

- libfprint never runs two actions at a time; `goodix550a.c` owns at most one
  bridge engine, asks it for the next transfer, and frees it when the action ends.
- A capture is used by every operation. `TouchContract` states what an operation
  relies on; `CaptureEngine` implements it; `Operations` is built on it.
- Enrollment hands each accepted sample to the enrollment graph; the number of
  samples retained in `Operations` is `count` of `EnrollmentGraph`.
- The life cycle decides whether an operation may start at all: in
  `DriverLifecycle` an operation is one step that succeeds or fails and may leave
  packets behind; its inside is in `CaptureEngine` and `Operations`. In the same
  way its bootstrap is one step whose inside is `BootstrapEngine`.
- A template that `EnrollmentGraph` grew is written and opened again in
  `TemplateForest`, which extends it, and its samples are what `GalleryScan` scans; a
  scan is one `Compare` of `Operations`.
- The standalone programs share the sensor's rules with `CaptureEngine` and the
  template code with the operations. They hand each other nothing but files and what
  the sensor still holds.

## 2. The modules

| module | models | checked by | proved in |
|---|---|---|---|
| `TouchContract` | the abstract promise of one touch | (refined by `CaptureEngine`, used by `Operations`) | |
| `CaptureEngine` | the capture engine, its C callbacks and the sensor's answers | `MCCapture.cfg`, `MCStaleImage.cfg` | `CaptureProofs` |
| `DriverLifecycle` | probe, bootstrap (one step), qualification, open, recovery, operations (one step), close, restarts | `MCLifecycle.cfg` | `DriverProofs` |
| `EnrollmentGraph` | `add_sample` and the graph integration | `MCGraph.cfg`, `MCPromoted.cfg` | `GraphProofs` |
| `TemplateForest` (extends `EnrollmentGraph`) | the relations chosen for the stored template, their encoding and decoding | `MCForest.cfg` | `ForestProofs` |
| `Operations` | enrollment, verification and identification engines and their reports | `MCOperations.cfg` | `OperationsProofs` |
| `GalleryScan` | the scan of a stored print against one live feature | `MCGallery.cfg` | `GalleryProofs` |
| `BootstrapEngine` | the version handshake, the bootstrap engine, its C callbacks, the reset and a sensor in IAP | `MCBootstrap.cfg` | `BootstrapProofs` |
| `StandaloneSession` | standalone programs one after another, their sessions, loops and files | `MCStandalone.cfg` | `StandaloneProofs` |

A few definitions in these modules are used by no action: `KeyReused`,
`DecryptsAnyKey`, `FinishOnAck`, `AddKeepingHead` and their like are named slips
that a change of the code could introduce. They show that each property is
sensitive to the code: put in the place of the definition they belong to, each
makes TLC find the property violated (`mutants` in `PROJECT.json`).

### CaptureEngine

- `stage`, `protected`, `result` are the fields of
  `Gf3258LibfprintCaptureEngine`; `key` is its `ImageSession`; `outcome` is how
  the C callback completed the action. `queue`, `sensorKey`, `armed`, `finger`,
  `touch`, `lifted` are the sensor, which is outside the repository.
- A key is a number (the code draws fresh random material), a frame is the key that
  protects it, the capture in which it was exposed, the capture in which the
  finger-down event before it arose, and whether it is a live image.
- `Write` is an OUT transfer; the sensor's answer is queued at once. `WriteFails`
  and `ReadFails` are cancellation, time-out and short transfers, with both
  outcomes for what was under way.
- `ReadAccepted`, `ReadIgnored`, `ReadRejected` and `FinishCapture` are the
  branches of `complete_transfer`: a packet is accepted, unrelated (the same IN
  transfer is asked for again), malformed or out of order. Only
  `GetImageCompletion` asks for more than 64 bytes: a stale image read in any
  other stage is cut short (`CutShort`) and leaves `ImageRemains` pieces.
- `FinishCapture` decrypts with the key of this capture and checks the CRC:
  `Decrypts` holds of a live frame under this key.
- `Fail` and `Deliver` free the engine, as `capture_clear` does: no image is held after
  either. `failures` is a history variable, the captures failed since one was delivered.

### DriverLifecycle

- `phase` is where the instance is, `step` the state of the probe or open SSM or of the
  engine it runs; `engines`, `claimed`, `powerLost`, `firmware`, `takenHandoff`
  and `oldUsbInvalid` are fields of `_FpiDeviceGoodix550a`; `handoff` is the
  process-wide handoff that asks the next probe to qualify the APP.
- Packets carry what the driver decides on: whether an acknowledgement reports
  lost power, which firmware a version reply names, whether a configuration was
  accepted. They are frozen when they are queued: that is what makes a stale
  packet misleading.
- Every failure path is an action (`WriteFails`, `ReadFails`, `ReadUnexpected`,
  `RecoveryRejects`, `BootstrapFails`, `OperationFails`, `CannotClaim`), with the
  clean-up of the code (`ProbeFails`, `OpenFails`). `Restart` is the end of the
  host process, `PowerCycle` and `Reenumerates` are reboots of the sensor.

### EnrollmentGraph

- `count` is `samples.len()`, `link` the triangular pair table in the orientation
  the code stores, `anchor` and `joined` the canonical component in its order,
  `promoted` both `promoted_samples` and the queue of closure seeds, `flags` the
  persistent canonical flags, `measured` what registration found (an input, kept
  so that properties can refer to it).
- One action per stage: `AddSample`, `Attach`, `Establish`, `StaysOutside`,
  `PromoteMatched`, `Close`, `NextSeed`, `Finish`. The code is sequential; the stages
  are separate actions so that what holds between them can be stated.
- Transforms are abstract: closed under composition and inversion, inverting twice
  gives the transform back, the identity is neutral on the left. The fixed-point
  code of `registration/affine.rs` keeps this up to rounding, which is left out.

### Operations

- `op`, `phase`, `opened`, `gallery` are the request of libfprint; `retained`,
  `templates`, `index`, `verdicts`, `best`, `result` the engine; `told`,
  `outcome`, `print`, `matched` what libfprint was told. A retained sample is
  known by the number of its touch.
- The touch is `Touch!Begin`, `Touch!Yield` and `Touch!Abort` of `TouchContract`.
- `Rejects`, `Retains`, `Scans` and `Verifies` are `finish_touch`,
  `finish_verification` and `finish_identification` for a frame that is good,
  crowded (`TooManyFeaturePoints`, which only enrollment and the scanned print of an
  identification refuse) or unusable. `Compare` is one round of the
  gallery loop and `Observe` the accumulator.
- `NextTouch`, `NextTouchFails`, `ReportsPrint`, `ReportsVerdict` and
  `ReportsIdentity` are the C callbacks, with the checks they make of a result
  (`Credible`, the index of the match against libfprint's own gallery).

### TemplateForest

- The samples, their relations and the canonical component are `EnrollmentGraph`'s;
  a template may be written after any number of samples. `stage`, `root`, `stack`,
  `group_root`, `parent` are the locals of `gf3258_select_persistent_relations`,
  `relations` the records it writes.
- `NextRoot`, `Push`, `Pop`, `AttachWeak` and their neighbours are a sample pushed or
  popped, a new root, a pass over what is left. `Reopened` is what the decoder makes of
  the records through the triangular index and its inverse. The samples' own bytes,
  the TGLA wrapper and its CRC are left out.
- Weak relations (value 0 to 2) never decide anything: between samples the enrollment
  connects there is always a strong way, and `AttachWeak` finds nothing to do. That is a
  result of the proof, not an assumption.

### GalleryScan

- The variables are the fields of `Gf3258NormalLoopMachine` and the locals of
  `gf3258_verify_persisted_gallery`, under the source's names.
- One action per way out of a sample: it is skipped, the scan stops, its evaluation
  fails, its geometry is too weak, it is dismissed, rejected by the late policy, not
  selected, or accepted; then `Finish` runs the recovery and the arbitration.
- The policy programs are generated tables of some 26,000 lines. What they can answer is
  taken from them as a set (`Flags`: a class is set only with the gate), and any
  member may come at any sample. `verification_live.rs:485-512` fixes `config_34 = 1`,
  `config_48 = 0` and no profile, which switches some branches off. It also fixes
  `config_10 = 0` (line 484), so in the program as it ships the first sample that goes
  through the score gate ends the scan (`FALSE` in `Config10`). `TRUE` covers the loop's
  code for other values: a scan that goes on after a gate, with the latch 644 that
  then skips canonical samples. Under this configuration the recovery's policy
  score is 0, so its fallback cannot make a match.

### BootstrapEngine

- `step` is the transfer under way in the probe, `sealed`, `hash`, `authenticated`,
  `chunk`, `block` the engine's fields; `f0_chunks_sent` always equals
  `f0_chunk_index`, so one variable stands for both. `verdict` is a history variable:
  whose firmware check the engine accepted.
- The sensor keeps `flash` chunk by chunk: old, new or torn. It answers a PskRead with as
  many pieces as fit a reply, a chunk with a byte the engine drops unread, a check with
  whether its flash is whole.
- `Write`, `WriteBlock`, `Read` and the rest are transfers; `WriteFails`, `ReadFails`
  and `ReadRejected` end the attempt, and one that is the last of its process looks
  the same to the sensor. The next probe begins with the handshake over what is queued.
- The cryptography of `firmware_auth.rs` is a predicate: the pieces read are, in order,
  those of a sensor that was provisioned.

### StandaloneSession

- `program`, `step`, `part` say where the running program stands: which command, and
  whether it is sent, acknowledged or completed (`Send`, `TakeAck`, `TakeCompletion`,
  `FinishCapture`). `SkipUnrelated` and `AnsweredTooEarly` are the other branches of
  the two waiting loops of `transport.rs`.
- `Judge` is the loop of the program around one frame, `Truncate` and `Fill` are
  `write_private_file`, done twice by an enrollment. A file is known by the program that
  last opened it and whether its bytes are all there.
- `Cut` ends a program anywhere: its operator, a time-out, a failed transfer or file
  operation, and a packet on its way may be lost with it. `PowerLost` takes the
  sensor's queue, key and configuration.

## 3. The runs

| run | states | what it shows |
|---|---|---|
| `capture` | 43,436 | five captures, each abandoned anywhere: the frame delivered is of its own capture and finger-down event, the finger has left, and the engine implements `TouchContract` with its liveness |
| `stale_image` | violated | the comment that unrelated packets are ignored is not true of a stale image |
| `lifecycle` | 63,197 | engines and claim are owned, operations run on configured APP only, firmware goes to IAP only, actions end, opens recover |
| `graph` | 185,441 | the canonical component is derived, strong, closed, stable, and its integration ends |
| `promoted_list` | violated | the doc of `promoted_samples` is not true of the anchor |
| `operations` | 8,199 | whole prints, true progress, gallery before touch, the best match, fresh decisions |
| `bootstrap` | 242,941 | only an authenticated sensor is written, a reset starts a whole image, the check accepted is this attempt's, a sensor that is probed again boots |
| `gallery` | 246,416 | a match is earned, the work selected is the best, rejects are bounded |
| `forest` | 965,600 | the decoder takes what the encoder writes, and no component is torn apart |
| `standalone` | 676,414 | a frame is of its own exposure, configuration and touch; the two files of an enrollment agree |

**Bounds, and why they are enough.**

- `capture`: `MaxSessions = 5`, `MaxQueue = 12`, `ImageRemains = 2`. The longest
  chain between a cause and its effect is three captures: two that are abandoned
  and one that reads what both left. Five let leftovers of leftovers arise, and a
  delivered capture come first. `FingerDownIsOwn` holds while fewer than two captures
  failed in a row, and this bound is exact: a failed capture leaves answers of
  one kind, finger-down answers, which the next one passes over, or D2 answers, which it
  may take for its own; if it does and fails in its turn, a finger-down acknowledgement and
  event may stand behind D2 answers, and a third takes all of them for its own. With a
  bound of three TLC finds the frame exposed on such an event. No reachable state holds
  twelve packets, so `MaxQueue` forbids nothing.
- `lifecycle`: `MaxFaults = 4` failed transfers, restarts or power cycles. The deepest
  scenario (interrupted bootstrap, restart, interrupted qualification, interrupted
  recovery) uses four. No reachable state holds 28
  packets, so `MaxQueue` forbids nothing.
- `graph`: five samples: establishment takes two, and promotion followed by a
  closure over two seeds needs three more. Transforms are the rigid motions of a
  ring of three places, a group that does not commute, so that a swapped or
  uninverted composition is seen. `Good` registers well both ways, `OneWay` has more
  inliers and scores only one way on the other side of the threshold.
- `operations`: prints of four samples instead of twelve, eight touches, galleries of
  up to three prints, two scores that match (so there are ties) and one that does
  not. Two enrollments fit after each other with a failure between them.

- `bootstrap`: two chunks of two blocks and a PSK in two pieces give every stage a
  first, a middle and a last round. `CheckIsOwn` holds until more probes were cut off
  than one attempt has commands (E4 reads, chunks and the check: five here, 102 on
  the device), and this bound is exact: with one more fault TLC shows the engine
  accepting a stale check. `MaxFaults = 6` lets that happen. `ChecksAreOwn` proves the
  bound for every length of the two objects and any number of chunks. Liveness needs a
  sensor that returns as many pieces as a reply can hold, since replies carry no offset.
  No reachable state holds 40 packets.
- `gallery`: galleries of three and four samples: full, with room left, and with samples
  that carry modes of their own. `RejectBump` and `RejectStop` are 1 and 2 instead of 5
  and 10, so that both limits are passed within a gallery; the proofs are for any two.
- `forest`: five samples: a component of three with an inner node, and two others; the
  transforms are those of `graph`.
- `standalone`: five programs, four captures. A stale finger-down event needs three
  programs cut off, each leaving its answers one command further behind, and a fourth
  to read them; the three of `CutsForStaleTouch` are exact, for with four TLC finds the frame
  exposed on such an event. After four, a stale *image* arrives at `FinishCapture` and
  is stopped by its key alone. `Target = 2` lets an enrollment go round its loop and
  finish. No reachable state holds more than twelve packets; `MaxQueue` is 14.

`CHECK_DEADLOCK FALSE` where the system may stop: a device whose instance was
dropped waits for a hotplug event (`lifecycle`), no sample is added after the last
one (`graph`, `promoted_list`), touches are bounded (`operations`), a scan ends
(`gallery`), and a saved template is the end (`forest`).

**Fairness.** `CaptureEngine` and `DriverLifecycle` assume `WF` of the engine's, or
the running action's, own steps: every transfer the driver submits carries a timeout
(`src/src/libfprint_wire.rs:43-47`: 1 s for writes, 3 s for acknowledgements, 30 s
for finger detection, 5 s for an image), so either a packet or the timeout takes the
action on. Nothing is assumed of the finger, of libfprint or of the sensor's events,
except that a sensor that was told to reboot does (`Reenumerates`). `OpensRecover`
is about a program that keeps asking, and says so in its premise.
`EnrollmentGraph` is one call of sequential code: its steps follow until it returns.
`BootstrapEngine` assumes `WF` of the host's steps, for the time-outs above and because
`EventuallyBoots` is about somebody who keeps probing, and of the sensor's reboot.
`StandaloneSession` states no liveness: its programs wait for a finger and are ended by
their operator; `GalleryScan` and `TemplateForest` are sequential calls whose
progress is a counter.

## 4. Where the code and its documentation disagree

1. `UnrelatedPacketsIgnored` (run `stale_image`): `libfprint_wire.rs:2090` says that
   unrelated packets are ignored as in the standalone transport. A capture cancelled
   between `GetImage` and its image leaves the image queued; the next capture reads
   64 bytes of it, which do not decode, and fails with a protocol error. Several
   retries may fail before the pieces are used up. The standalone transport reads
   0x8000 bytes at once and does skip it. The failure is safe: `ResultIsOwnFrame`
   holds all the same.
2. `PromotedListed` (run `promoted_list`): `enrollment_graph.rs:169` describes
   `promoted_samples` as all samples newly promoted by the call but the current one;
   the anchor, which becomes canonical at line 263, is not listed.

## 5. The proofs

Each proof module extends its component and holds an inductive invariant `IInv`, one
step lemma per action (or per family of actions), `Inductive`, and the theorems.
Nothing is assumed beyond the named assumptions on constants, which TLC evaluates
on every run.

- **`CaptureProofs`** (`CaptureAssumption`): `ResultIsOwnFrame` says nothing of the
  frames still queued, and those are what a later capture reads. `IInv` adds that keys
  are numbered like captures and that no queued frame lies under a key younger than
  its exposure: a frame under the running capture's key was then exposed by it.
  `FingerUpBeforeResult` is an argument of order: until the finger lifts, no finger-up
  event stands behind a frame under the present key (`NoUpBehind`).
  That a result leaves nothing behind (`DeliveredDrains`) says, stage by stage, what may
  stand behind an image of this capture: finger-down events that came late, then the
  acknowledgement of FDT-up, then the event waited for. `FingerDownsAreOwn` builds on it:
  after a delivery the queue holds only what is about to be read (`Clean`), so the first
  capture that fails leaves answers of one kind (`OneKind`), and the next one finds no
  finger-down event of another capture behind a D2 answer (`DownBeforeKey`); the second
  failure is the one that may put it there.
  Proved: `TypeCorrect`, `OwnFrame`, `UpBeforeResult`, `FingerDownsAreOwn`,
  `DeliveredDrains`, and `ImplementsTouch`, the
  safety half of the refinement. `CapturesAreBounded` adds what its liveness needs
  besides fairness: a measure (`Patience`) of the transfers before a capture, the
  packets it may have to pass over and the detection that may still fire, which every
  step of the engine lowers and nothing outside raises.
- **`DriverProofs`** (`LifecycleAssumption`): the driver decides on packets that may be
  older than its question. `IInv` adds that no queued packet promises more than is true
  now (`QueueHonest`), what each phase has learned (`LearnedTrue`) and where each SSM
  can be (`StepFits`). The reset of the qualification loses the configuration and
  would break `QueueHonest`; it does not, because the handoff is armed only while the
  configuration is lost or the instance can no longer probe (`HandoffUnconfigured`).
  Proved: `LifecycleTypes`, `EnginesAreOwned`, `ClaimFollowsUse`, `OperationsAreSafe`,
  `OnlyIapIsBootstrapped`, and the action property `OldUsbIsUntouched`.
  `ActionsAreBounded` shows that a probe, an open or an operation takes at most 27 steps
  of its own and one for each packet it finds queued, and that every packet a transfer
  can bring meets a branch of the code (`AlwaysHandled`); it needs that the replies in
  the queue are of the few plain forms the sensor gives (`RepliesPlain`).
- **`GraphProofs`** (`GraphAssumption`, `MeasureAssumption`: at least six inliers):
  `IInv` adds that a relation still says what was measured unless it joins the anchor to another
  member (the only ones promotion rewrites), that every member has its way to the anchor,
  and what each stage relies on. Proved: `GraphTypes`, `NobodyStranded`,
  `PlacesAreDerived`, `ComponentIsStrong`, `ClosureIsComplete`, and the action property
  `NobodyMoves`. `IntegrationIsBounded` gives an integration two rounds for each sample
  and one more (`Rounds`): each step costs a round, because a seed is done with or a
  sample becomes canonical, which may make one more seed. And in every stage the guard of
  a next step holds (`NeverStuck`): the least number that a stage looks for exists,
  because the finite subsets of a set are well-founded.
- **`OperationsProofs`** (`OperationsAssumption`): the properties speak of what an
  operation ended with; `IInv` says for each operation what it has gathered when it
  reaches each phase, above all that the accumulator holds the best match among the
  prints compared (`BestSoFar`). Proved: `OperationTypes`, `WholePrints`,
  `ProgressIsRetained`, `GalleryIsDecoded`, `BestIsNamed`, `FreshDecisions`, for any
  target, gallery and scores; `Target` is 12 in the code.

- **`ForestProofs`** (`GraphAssumption`, `MeasureAssumption`): on top of `GraphProofs`, two
  arguments. The triangular index is undone without loss: rows grow (`RowGrows`), so the
  row of an index is unique (`IndexUndone`). And the walk follows strong relations
  only: `StrongFound` shows that samples connected by accepted registrations are
  connected by strong relations, although promotion overwrites some with 0, and
  `WalkInv` that everything walked has a parent it is tied to, and that a root is left only
  when nothing strong leads out of what was walked. Least elements are found by
  well-founded induction on a set, without an induction theorem that takes a predicate.
  Proved: `DecoderTakesAll`, `NothingTornApart`.
- **`GalleryProofs`** (assumptions on galleries, measures and limits): the decision is taken
  from latches and sums, the properties speak of the accepted samples. `IInv` says what
  each latch remembers (`LatchesTrue`), what sum and count say of the accepted samples
  (`Accumulated`). Proved: `GalleryTypes`, `MatchIsEarned`, `BestWorkIsSelected`,
  `RejectsAreBounded`.
- **`BootstrapProofs`** (`BootstrapAssumption`): a reset may rest on a check that is not this
  attempt's question. `IInv` adds that a good verdict of this attempt is queued only after
  its last chunk (`NoVerdictYet`), so that nothing is written between the verdict and the
  reset and the verdict stays true (`VerdictsTrue`), and that every stage from the first
  chunk on is behind the authentication (`Gated`). Proved:
  `BootstrapTypes`, `WritesAreAuthorised`, `ChecksAreTrue`.

  Three more arguments follow, each with an invariant of its own. *Whose check it is*
  (`LagInvariant`, `ChecksAreOwn`): an old check can be taken for the present one only
  if all the answers of an attempt lie in the queue before it asks. `EngineLag` bounds the
  answers that are left over by the probes cut off, `OutsideLag` those that hide behind
  an old version answer and cost a cut of their own, and `StaleLag` says that every
  command answered to the present attempt has used one of them up; `Received` tells
  how many commands that were. *That it ends* (`AttemptsAreBounded`): `Patience` weighs
  the stages, pieces, blocks and chunks before a probe and the packets in its way; every
  step of a probe lowers it. This rests on `PiecesCome`, that every answer about the PSK
  brings a piece of it; an empty answer would make the engine ask for ever. *That it
  goes well* (`NothingRefusedUnprovoked`): while nothing went wrong, the queue holds what
  is about to be read (`Clean`), the answer is that of the sensor as it is now (`Fresh`),
  the pieces are in order, the chunks behind the engine are written and the sensor is
  listening; so a provisioned sensor is never refused.
- **`StandaloneProofs`** (`StandaloneAssumption`): the exposure follows from the key, as in
  `CaptureProofs`; the configuration from acknowledgements that say no more than is true
  now (`Honest`), because whatever takes the configuration away empties the queue. The
  touch needs a count. `Lag` says, phase by phase, which completions may stand in the
  queue in which order (`Has`, `Then`, `ThenThen`) for the number of programs cut off:
  a stale version answer needs one, a stale D2 behind it two, a stale finger-down behind
  both three; an armed detection counts as the answer it is about to give.
  `LagCutOff` is the heart of it: a program cut off in any phase pays, with the one cut
  it adds, for what it leaves to the next. Proved: `StandaloneTypes`,
  `FramesAreOwn`, `FilesAreTrue`.

**Only model-checked**: liveness under fairness, which is out of the prover's reach with
the `ENABLED` it rests on. Of `ActionsEnd`, `IntegrationEnds` and the liveness of
`ImplementsContract` only that half is left: the theorems named `...AreBounded` and
`IntegrationIsBounded` prove that what runs takes finitely many steps. `EventuallyBoots`
and `OpensRecover` speak of attempt after attempt; that one attempt of the first ends
is proved, that one of them gets through, under bounded faults, is for TLC. Every
invariant of a passing run is stated by a theorem, and so is each action property.

## 6. What is not modelled

- The byte layout of packets and templates, checksums, the TGLA wrapper, the cipher and the
  CRC: a packet decodes or does not, a frame passes under its own key only, a template is
  whole or not.
- Feature extraction, preprocessing, the estimation and scoring of registrations and the
  policy programs of the matcher: pure numeric code without state. The models let it
  find anything it can answer.
- The rounding of the Q8 transforms, the novelty and coverage numbers.
- The cold bootstrap and the USB re-enumeration of the standalone path
  (`driver.rs:729-752`, `device.rs:226`): its commands and their order are those of
  `BootstrapEngine`; the polling of the device list needs a clock. Its read-only
  `--load-template` mode.
- What a host that loses its power keeps of a file that was truncated, written or
  flushed; `private_file.rs` does not sync. `StandaloneSession` stops the program only.
- The handoff between two instances of the driver on one port (`goodix550a.c:73`, ten
  seconds of validity) beyond its being armed or not.
- libfprint is assumed to run one action at a time and to leave the gallery of an action
  as it was; the bridge's pointers and buffers are left to Rust and its tests.

The models map 5,500 lines of the 74,000 of the implementation, and a much larger share of
them is out of reach. Some 26,000 lines are generated policy tables
(`verification_flag_policy_program.rs` and its neighbours), another 18,000 image
processing, matching and the fixed-point stages of `verification.rs`; these are
functions of one record or one frame in which no order of events matters, and the
repository checks them against recorded runs. The tests themselves, the tools, the
copies and argument checks of the bridge and the printing of the programs make up
most of the rest. What keeps state from one call to the next, or waits for the
sensor, is modelled.

## 7. Plan

What is left, in order of importance.

1. `BootstrapEngine` in the place of the one bootstrap step of `DriverLifecycle`, as a
   refinement: the packets an aborted bootstrap leaves behind would then be those it
   really leaves, and not any.
2. The composition of `Operations` with `EnrollmentGraph`: a failed integration and the
   samples retained.
3. The cold bootstrap of the standalone path with its re-enumeration, over the sensor of
   `BootstrapEngine`.
4. `Framing`: acknowledgements, completions and checksums of `protocol.rs` as
   operators, checked against a reference definition over short packets.
