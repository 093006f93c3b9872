# pp8k in TLA+

A specification of `pp8k`, a Python driver for the Polaroid ProPalette 8000
film recorder: what its long-running operation, the exposure of a frame, does
under aborts, failing commands, failing callbacks and power cycles; how one
command gets to the recorder and its reply back, through two transports; what
becomes of film tables that are edited, saved and installed; how successive
commands share one recorder; and what a dry run on the mock device shows of it.
The modules follow the code under `src/pp8k/`; paths below are relative to the
repository.

## 1. Inventory

| Component | State it keeps | Operations | Hard part | Correct means |
|---|---|---|---|---|
| Exposure workflow (`exposure.py`) | channel, line, counters of a blocking call; an abort event shared with other threads | `run_exposure`, `_check_abort`, `_emit` | concurrency with the abort event and the recorder; three handlers; commands whose effect is unknown; callbacks that raise | whole frames only are reported complete; lines in order, each once; no line dropped; an abort is prompt and leaves the recorder idle; the call ends |
| Film recorder (firmware, external) | phase, settings, colour tables, buffer, film, Unit Attention, slots | the SCSI commands | calibrates, drains and loses power by itself; drops lines silently | - |
| SCSI commands (`commands.py`, `scsi.py`) | none | one function per command | which errors are swallowed (`stop_print`, `film_name`, `film_aspect`, `test_unit_ready`) and which are not | the recorder gets what the caller asked for, or the caller gets an exception |
| SG_IO transport (`transport.py`) | file descriptor | `open`, `execute`, `close` | host, driver and target errors after the command took effect | a call that returns was carried out, a refused one was not |
| s2pexec transport (`transport.py`) | none (a process per command) | `execute`, `_run`, `_fetch_sense` | sense data fetched by a second command; three time limits; `TimeoutExpired` | the same; the exception describes the command that failed; a power cycle is told; every call ends in time |
| Sense dispatch (`transport.py`, `errors.py`) | none | `_exception_class_for_asc`, `_raise_check_condition` | overlapping ranges of codes | every code gets the documented class |
| Device and session (`__init__.py`) | open transport | `open`, `install`, `expose`, `film_slots_info`, `reset`, `close` | clients that share one recorder and the scratch slot 19 | the frame is exposed with the film table the caller passed |
| Mock device (`mock.py`) | settings, slots, buffer | the recorder's interface | drain arithmetic, only when asked; nothing is refused | what keeps pace on the mock keeps pace with the buffer it stands for |
| Film tables (`flm.py`) | a keystream position shared by the module | `load_flm`, `serialize_flm`, `normalize_masters`, `validate_masters` | byte layout, 16-bit halves and doubles, threads | round trip; a normalised table validates |
| Imaging (`imaging.py`) | none | `get_frame_dimensions`, `image_to_scanlines` | rounding of quotients of floats, extreme aspect ratios | `fit` loses nothing, `fill` leaves nothing bare |
| Command line (`cli.py`) | none | `install`, `expose`, ... | check-then-act on slots; exit status after a failed exposure | - |
| Models and constants | none | - | - | - |

The exposure calls the device object, which passes each call to one function of
`commands.py`, which builds one command and gives it to the transport; errors
come back as exceptions (`SCSIError` and its subclasses from the sense data,
`OSError` from the file descriptor or from starting a process,
`subprocess.TimeoutExpired`, anything else from a callback or a short answer).
Everything is synchronous: the only concurrency is the abort event, other
callers and clients of the recorder, and the recorder itself.

The modules fit together by contract. `Call` says what a caller may expect of a
command; `Transport` implements it; `Exposure` and `Session` start from it
(`Outcomes`, `Replies`: no effect or one, before or after the failure). `Frame`
says what a caller may expect of an exposure; `Exposure` implements it.
`Session` follows whole invocations over the slots of the recorder, with the
exposure reduced to what concerns the film table. `DryRun` is the exposure again
with the numbers that matter to the mock's clock.

## 2. Modules

| Module | Content |
|---|---|
| `Recorder` | the film recorder, as a record and one operator per command; external, derived from the commands, the sense codes of `constants.py` and `docs/scsi_protocol.md` |
| `Exposure` | `run_exposure`: one action per command or look at the abort event |
| `Frame` | what a caller relies on: a frame is opened, lit line by line, advanced or lost, and reported complete only if lit in full |
| `ExposureFrame` | the refinement mapping from `Exposure` to `Frame` |
| `ExposureInvariant` | the inductive invariant of `Exposure`, in named parts |
| `ExposureProgress` | how many steps a call of `Exposure` has left, and that none is taken in vain |
| `MCExposure` | the instances for TLC |
| `ExposureProof` | the theorems about the invariants and the progress |
| `ContractProof` | the theorem that `Exposure` implements `Frame`, and what `Frame` promises |
| `FilmTable` | the bytes of a film table, `load_flm` and `serialize_flm` as operators, layout, master curves |
| `FilmEditor` | a program that edits a table, normalises, saves, reloads and installs it |
| `FilmTableProof` | the theorems about both |
| `Cipher` | `_FilmTableCrypto`: the byte operations and the shared key stream, with threads |
| `CipherProof` | the theorems about it |
| `Session` | invocations of the command line on one recorder, its film-table slots, interrupts and power cycles |
| `SessionProof` | the theorems about it |
| `Call` | what a caller relies on when it gives a command to a transport |
| `SenseDispatch` | sense data, the ranges of codes and the exceptions made of them |
| `Transport` | SG_IO and s2pexec: processes, replies, sense data, time limits, several callers, power cycles |
| `TransportProof` | the theorems about both, and that `Transport` implements `Call` |
| `Imaging` | geometry from an image to the lines of a frame |
| `ImagingProof` | the theorems about it |
| `MockDevice` | the mock, as operators on its state |
| `DryRun` | an image converted and exposed on the mock, beside a buffer that drains all the time |
| `DryRunProof` | the theorems about it |
| `MCFilmEditor`, `MCCipher`, `MCSession`, `MCTransport`, `MCDryRun` | the instances for TLC |

### Exposure and the code

A step is one SCSI command, or one call of `_check_abort`, with the code up to
the next one: these are the points between which the abort event can be set and
the recorder can act. `pc` names the command or check that comes next;
`AfterCheck` says which command each `_check_abort` precedes. `pass`, `y`,
`line_y`, `lines_sent` and `i` are the code's loop variables, reset where the
code resets them. The progress event of a phase is part of the step that
follows it (or, for the event after a burst, of the burst's last line).

* **Commands.** `Outcomes(accepts, done)` is everything a command can do: the
  recorder answers (Unit Attention first, then an acceptance or a refusal), or
  the transport fails by itself with a member of `CommandFaults`, before *or
  after* the recorder acted. `SCSIError` is `"scsi"`, `OSError` is `"os"`,
  anything else (`TimeoutExpired`, a short answer) is `"other"`.
* **Callbacks.** `on_progress` may raise a member of `CallbackFaults` at every
  call, the last one included: what a command may raise, and `"aborted"`, the
  public `ExposureAbortedError`, which no command does. Only `complete`,
  `aborted` and `error` are recorded, in `verdicts`.
* **Handlers.** `abort_*` is the clean-up inside `_check_abort` and `except
  ExposureAbortedError`; `quit_emit` is that same handler reached from a callback
  that raised `ExposureAbortedError`, so that nothing is sent. `err_*` is `except
  (SCSIError, OSError)`, `exc_*` is `except Exception`. An exception inside
  `_check_abort`'s clean-up that it does not swallow goes on to `except
  Exception`; one inside the other two, and a callback's in any of the three,
  leaves the call. KeyboardInterrupt, which none of them catches, is `Session`'s
  `Interrupt`.
* **Recorder.** `Calibrate`, `Drain` and `PowerCycle` may happen between any
  two steps of the call. A power cycle empties everything but the film.
* **History.** `waited` (seconds slept for the calibration), `late` (lines sent
  after the abort), `unclean` (a clean-up command failed by itself) and `quit`
  (the call ended through `quit_emit`) do not influence any step.

Abstractions: the image is its line numbers; MODE SELECT's values are whether
`mode_select` accepts them and whether they are this call's; a sleep takes no
step; text, rates and times of the events are left out.

### Film tables and the code

* **Files.** `File` has the regions of a file that the code looks into: text
  fields as bytes (NUL, ASCII, other), the flags byte as its black-and-white
  bit, filter and the rest, headers by their scales, curves as functions of
  channel and pixel value. `Layout` is proved from the code's offsets and is
  what allows to keep regions apart. Camera type, aspect and the remaining
  bytes are copied and left out.
* **Tables.** `Parse` is `load_flm` and `Serialize` is `serialize_flm`; the
  cipher between them is a constructor with its inverse, which `CipherProof`
  proves it is. A table keeps both parsed fields and the raw bytes they came
  from (`flags`, `raw_extended`, `header`, `encrypted_data`): which of the two
  a function reads is what the properties are about.
* **Editor.** `Replace` is a user's `_replace` of one field, as in the README;
  `SaveFlm` may be cut short and then leaves `Torn`, which `LoadFlm` refuses;
  it is not enabled for a table that `serialize_flm` refuses.
* **Cipher.** A byte is a function from bit positions. `_next_key` is three
  steps, since it reads `_keystream` twice and then assigns it. A thread
  encrypts or decrypts a message and turns the result back.

### Sessions and the code

* **Clients.** `client[c]` is what a process does or did last: its command line
  (`job`), the command that comes next (`pc`) and what it has read so far. A
  process runs one invocation after another; every one begins with the two
  commands of `pp8k.open`. `device.close()` has no effect on the recorder.
* **Commands.** `Replies` is `Exposure`'s `Outcomes` with refusals of sense key
  Illegal Request told apart, since `film_name` and `film_aspect` take exactly
  those for an empty slot. `Poll` stands for all CURRENT STATUS commands of an
  exposure: some loops swallow `SCSIError` and some do not, so both may happen.
  A line is any line; colours, counts and flow control are `Exposure`'s.
* **Interrupts.** `Interrupt` is a KeyboardInterrupt (or the death of the
  process) between any two commands; one during a command is the same as one
  before or after the recorder acted.
* **Recorder.** Where the documents leave it open the recorder may do either:
  accept MODE SELECT for an empty slot or not, wipe its slots on RESET or not,
  be ready or not while it calibrates. Which table it uses is recorded at START
  and again at every line.
* **History.** `call` numbers the invocations, `alone` says that nothing (fault,
  power cycle, interrupt, other client) disturbed this one until now, `stale`
  that the recorder was not idle when it began.

### Transports and the code

* **Calls.** `call[u]` is one `execute`, of a process or thread on one host; the
  recorder takes all of them for one initiator. `start` and `sense_start` are
  the points before a process; through SG_IO the same steps are the ioctl, which
  brings the sense data along. Two commands stand for all: one that is refused
  for an empty slot, one that changes the recorder and is refused for two
  reasons. What the recorder holds is one slot, a Unit Attention and the sense
  data of the last command.
* **Ends.** `Exit` is the reply, `Fail` any other exit status, host or driver
  status, time limit of s2pexec or `OSError` of the file with the answer, before
  or after the recorder acted; `Killed` is `subprocess.TimeoutExpired`. A
  command that no process was started for ends in `OSError` too. `_fetch_sense`
  makes of every failure but an `OSError` at its start sense data with the
  unknown key 0xFF (`NoData`).
* **Time** goes by in whole seconds while a process or ioctl waits; what the host
  does by itself takes none. `Limit` is the number of seconds s2pexec is given
  (rounded up, one at least), `Kill` the second at which `subprocess.run`, five
  seconds later, kills it. A process that was killed has no later effect.
* **Codes** are the real ones; every one of the 65536 has its class.

### The mock, imaging and the code

* **Imaging.** `Rounded` has both neighbours where a quotient is half-way:
  Python's `round` of a float quotient may go either way there. `Paste` is the
  code's floor division, for negative differences too. Pixels, colours and EXIF
  orientation (one more rotation) are left out.
* **Mock.** `since` is the time since `_last_drain`; `CurrentStatus` drains whole
  kilobytes and forgets the rest, `PrintLine` takes 4 KB (also at 8k, where a
  line has 8) and stops at zero.
* **Run.** A step of `DryRun` is a command with the sleep before it; a sleep may
  be `Late`. `used` is the buffer the mock stands for, in ticks of a fraction of
  the time a kilobyte needs. `Install` and `ResetDevice` come between exposures.
  Time between two calls is left out: START fills the buffer anew.

## 3. Properties and runs

Definitions and the code they are about are in `Exposure`, `FilmEditor`,
`Cipher`, `Session`, `Transport` and `DryRun`.

| Run | Checks | Shows |
|---|---|---|
| `Exposure_safety` | `RoomForLine`, `LinesInOrder`, `CompleteMeansWholeFrame`, `AbortedMeansUnfinished`, `AbortBound`, `CleanReturn`, `OwnSettings`, `SettledOrTimedOut`, `VerdictTold`, `IInv` (with the type invariant), `NoStepInVain` | the safety of one call under all interleavings and faults at once; what its steps use up |
| `Exposure_contract` | `ContractSpec`, `AbortEnds`, `Termination` | `Exposure` implements `Frame`; an abort ends the call although the recorder stalls; every call ends if the recorder drains |
| `Film_safety` | type invariant, `SavedIsLoaded`, `SavedIsStable`, `NameEnds`, `NormalizeConforms`, `LoadedIsInstalled` | what is edited and saved comes back, saved files are reproduced exactly, normalised tables validate |
| `Session_safety` | type invariant, `OneCallPerFrame`, `FrameHasItsTable`, `RecorderRecovers`, `ListingIsTrue`, `NoSilentOverwrite` | invocations one after another, each failing or interrupted anywhere, do not mix up frames, tables and slots; after at most one failure the recorder works again |
| `Cipher_one` | type invariant, `RoundTrip`, `OwnKeys` | encrypt and decrypt are inverses, each byte meets the key of its place, one thread at a time |
| `Transport_safety` | type invariant, `CallIsBounded`, `SenseIsOwn`, `PowerLossIsTold`, `OwnLimitFirst`, `CallSpec`, `CallEnds` | both transports implement `Call`; exceptions blame the right command; no power cycle goes unnoticed; calls end, and in time, although processes hang |
| `Dry_run` | `ImagePlaced`, `NothingOverflows`, `MockIsFaithful`, `RunEnds` | images lie on their frames as documented; the mock errs by a bounded amount, a run on it keeps pace with a real buffer, and ends |

Bounds: 3 lines a channel, sent in bursts of 2, so that a channel has a full and
a short burst; a buffer of 4 lines, so that the driver has to wait within and
between channels; 3 polls for the calibration with a minimum of 1, 2 polls
between colours, so that each loop both ends early and times out; all three
kinds of exception from commands and all four from callbacks, without a limit on
their number;
one power cycle (two in `Exposure_contract`, with lines of 2 KB in a buffer of
5). Colour frames and frames of each single channel are all explored.

Film tables: words of 3 bits, so that doubling and the mask both overflow; one
entry with an odd value and one at the limit; a name field of 3 and an internal
name of 2 bytes, so that a text can be short, fit exactly and be cut; four files
(plain, black-and-white with a full internal name, text fields full or with
bytes past the NUL, odd masters); two edits of any kind, in any order with
loads and saves. Cipher: messages of up to two bytes over four, and one of four
bytes, from both a fresh and a used key stream.

Sessions: three slots, the last of them the scratch slot, so that a listing has
a slot before and after a power cycle; two tables; four invocations, so that an
interrupted one can be followed by a refused one, by a third that succeeds and
by another; two power cycles; all three kinds of failures, without a limit on
their number. `Session_safety` has one client: with two that expose, none of its
properties about frames holds, as `Doc_busy` shows for the first of them. With
two of which one only looks (`pp8k status`, `pp8k slots`) they hold as long as
the power stays (theorem `LookingOn`). After a power cycle the TEST UNIT READY of
the one that looks may take the Unit Attention, and the other, between MODE
SELECT and START, exposes with an empty slot without being told: thirteen steps
to a violation of `FrameHasItsTable`. Its tables have names (`Blank` is empty):
one without a name is overwritten without a question.

Transports: two callers, at once through the kernel and one at a time through
s2pexec (`Doc_reentrant` has them at once there too); limits of 1 s for a command
and for REQUEST SENSE, 3 s and 2 s until a process is killed, so that each limit
can be the first to run out and each process be killed; any number of calls, of
power cycles and of failures.

Mock: a buffer of six lines and bursts of two, frames of up to six lines, so
that a channel has several bursts and the driver must wait within and between
channels; three ticks a kilobyte and a second of seven ticks, so that every poll
forgets something; sleeps up to a tick late; images of sides 1, 2, 3 and 7 on
frames 3 and 4 pixels wide and of four shapes, with every rotation and both
transforms, so that both neighbours of a rounding occur. `asked` counts up to 20
polls, more than a run makes before the buffer is empty again.

Fairness: `RunningSpec` assumes only that the calling thread keeps running.
That every command returns is the transport's time limit (20 s by default, 60 s
for START EXPOSURE). `Termination` assumes besides that the recorder calibrates
and drains, which it does by itself; without it the property is false, since the
wait for the buffer has no limit. `Transport`'s `FairSpec` assumes that time
passes and that the host goes on when a process cannot be started or is out of
time; nothing is asked of the recorder or of s2pexec. `DryRun` assumes that the
call keeps running: nothing but its own thread can stop it.

### Where code and documents disagree

Each of these runs checks one sentence of the documents and finds it violated.

| Run | Sentence | Code |
|---|---|---|
| `Doc_outcome_raised` | `Device.expose` raises `DeviceError` "On SCSI communication failure" and `ExposureAbortedError` "If abort was requested" | both are caught, the call returns (and `pp8k expose` exits with 0) |
| `Doc_edit_saved` | README: "Use `_replace()` to build modified copies and write them back with `save_flm()`", with an edited `scale_r` | scales are written from the headers as read; a black-and-white table turned to colour stays black-and-white |
| `Doc_table_installed` | `Device.install`: "Upload an FLM film table to a device slot" | the bytes of the file the table was loaded from are uploaded, also for a changed or normalised copy |
| `Doc_busy` | `DeviceBusyError`: "An exposure is already in progress on this device [...] Wait for the current exposure to complete or abort it before starting a new one" | nothing raises it; the second call is refused by START EXPOSURE and its handler stops and terminates the exposure in progress |
| `Doc_reentrant` | `transport.py`: "`open()` and `close()` bracket the lifecycle; `execute()` is reentrant within that bracket" | an exception of one caller may have the sense data of another's command, or none, since they are fetched by a second process |

Seen while modelling and not run, of the exposure:

* `ExposureAbortedError` means "cleanly aborted", STOP PRINT and TERMINATE being
  sent "before raising" (`errors.py:56-61`), and "aborted" that the "exposure was
  aborted by user" (`models.py:75`). A callback that raises it, as one might to
  stop the exposure, gets to the same handler (`exposure.py:291-292`): nothing is
  sent, the call returns with the recorder exposing (hence `~quit` in
  `CleanReturn`), and raised on "complete" it makes the call say "aborted" of a
  frame that is on film (hence `<<"complete", "aborted">>` in
  `AbortedMeansUnfinished`, `VerdictTold` and `Frame`'s `Correct`). No other way
  leads to either (theorems `Clean`, `AbortVerdict`, `VerdictTheorem`).
* `run_exposure` says that a `ValueError` is "raised before any SCSI traffic",
  and its handler sends STOP PRINT on the way out (`ModeSelect`, `StopPrint`).
* `scsi_protocol.md` says of STOP PRINT "Follow with TERMINATE_EXPOSURE to fully
  clean up"; `except Exception` (`exposure.py:304-310`) sends STOP PRINT only.
  Both handlers swallow their own errors, so that the recorder may be left
  exposing: `CleanReturn` makes no promise for a call that raises.
* `scsi_protocol.md` says to wait for the calibration flag and for 1000 KB
  between channels; the code goes on after 45 and 30 polls, as the comments at
  `exposure.py:51-54` explain. `SettledOrTimedOut` and `RoomForLine` say what
  still holds.

Of film tables and the cipher:

* `validate_masters` reports a file made after the convention above it if Master
  B has odd values, since it wants set 8 to be twice set 9.
* "round-trip byte-perfectly" (`flm.py:312`) is true of the files that were saved
  once (`SavedIsStable`), not of every file that loads, as the comment at
  `flm.py:335-339` and the check in `pp8k flm validate` admit.
* `encrypt` is documented as the inverse of `decrypt`; two threads in the one
  `_crypto` of the module advance each other's key stream, and neither gets back
  what it gave (`RoundTrip` fails in a few steps of `Cipher` with two threads and
  the messages `MCShort`).

Of transports and errors:

* `Transport.execute` documents `SCSIError` only. `subprocess.TimeoutExpired` and
  the `OSError` of a process that cannot be started leave it as they are; the
  exposure's first handler takes `OSError` and not `TimeoutExpired`.
* `HardwareError` documents 0x2400-0x241F (`errors.py:99`); the codes 0x2429 to
  0x24FF get it too (`DispatchTheorem` says exactly which), and so does 0x256D,
  "exposure in process", for which there is a `DeviceBusyError`.

Of the command line, the mock and imaging:

* `pp8k install` takes a slot whose table has an empty name for an empty slot
  (`cli.py:133`) and overwrites it without a question; `NoSilentOverwrite`
  holds of tables with names.
* A short answer to FILM NAME reads as an empty slot, too.
* The mock counts 4 KB for every line, also at 8k, where a line has 8, and an
  upload to it always sets the 3:2 aspect, whatever the table says.
* A square frame at 8k has 8192 lines, more than `HARDWARE_MAX_VRES`, and nothing
  compares them (`DocumentedFrames`); 6x7 at 8k has 6702, which fit.

## 4. Proofs

### Exposure

`ExposureProof` proves, for every height, burst size, buffer size, wait limit,
number of power cycles and set of faults:

* `Invariance`: `IInv`, the inductive invariant;
* `TypeCorrect`, `FlowControl`, `InOrderTheorem`, `CompleteVerdict`,
  `AbortVerdict`, `AbortIsPrompt`, `Clean`, `SettingsTheorem`, `Settled`, `VerdictTheorem`: all
  the other invariants of `Exposure_safety`;
* `StepsCount`: its action property `NoStepInVain`.

Assumptions (named in `Recorder` and `Exposure`): the numbers are natural
numbers, a line fits the buffer, a burst fits `MIN_FREE_KB` (50 lines of at
most 8 KB in 500 KB), the level the driver waits for can be reached, and the
minimum of the calibration wait is below its maximum.

The properties are not inductive by themselves. `RoomForLine` needs that the
*rest* of the burst has room (`RoomInv`), which needs where the loop counters
stand (`LoopInv`). `CompleteMeansWholeFrame` needs that the recorder holds
exactly what the loops have sent (`LaidInv`), for which it must never drop a
line (`RoomInv`) nor be exposing a frame the call did not start (`PhaseInv`).
`OwnSettings` needs that settings are lost only together with the exposure
(`SettingsInv`). The remaining parts carry the history of waits, late lines,
verdicts and clean-up from step to step; for the verdicts it must be known that
only a callback leads to `quit_emit`, and from the body only, before the film
advances or on "complete" (`QuitFacts`, `ToldInv`, `FilmInv`). Each part has a
lemma `...Step`, with one case per action; the `...Facts` lemmas say once what an
action does.

`StepsCount` is the part of `Termination` and `AbortEnds` that does not rest on
fairness. `ExposureProgress` gives a state of the call three natural numbers:
the `Stage` (handlers, last commands, channels, calibration, settings), in it the
`Units` (lines, polls, seconds, commands) and in a unit the steps (`Micro`).
Every step of the call lowers them in that order, whatever fails and whatever a
callback raises; the recorder and the other thread never raise them. The one
exception is a poll that still finds too little room (`Waiting`), which is why
`Termination` needs a recorder that drains. `StepsAfterAbort` is a single number,
at most BURST_SIZE + 7, that every step lowers once the event is set, that poll
included: an aborted call is over after so many commands and checks. That the
next step is taken at all is fairness, and stays with TLC.

`ContractProof` proves `ImplementsContract == Spec => ContractSpec` under the
same assumptions. `StepIsVisible` sorts every step of the call, the recorder and
the other thread, taken from a state of `IInv`, into those a caller cannot see
and those that open a frame, light a line, advance or lose it, tell a verdict or
correct one; `VisibleIsContract` maps each of these to a step of the contract.
The invariant is what rules out the bad cases: a dropped line (`RoomInv`), a
frame advanced with lines missing but told as complete (`LaidInv`).
`ContractPromise` says what the contract is good for, from the steps of `Frame`
alone: at most one frame of film, the complete one if the verdict says so, each
channel in full before the next. `PromiseKept` puts the two together: no call
advances the film twice, also when the answer to a TERMINATE was lost.

### Film tables and the cipher

`FilmTableProof` proves all properties of `Film_safety`, for every number of
curve entries, word size, field size, set of files and of edits: `TablesAreTables`
(the type invariant, which is inductive), `NormalizeTheorem` (derived sets are
functions of the two masters alone, and no value needs more than its word, so
the save's mask changes nothing), `InstallTheorem` (with `Fresh`: until a table
is changed its bytes are its own), and from `DiskIsSaved` `SaveTheorem`,
`NameTheorem` and `StableTheorem`. `FieldFacts` carries the text fields: the
number of prefixes without NUL of an encoded text is the length of what was
kept of it. `Layout` is arithmetic over the code's offsets.

`CipherProof` proves of every byte and key that `BitpermInvolution` and
`ByteRoundTrip` hold, of any number of threads `CipherTypes`, and of one thread
and messages of every length `RoundTripTheorem` and `OwnKeysTheorem`. The
invariant says that after the reset the keys of a call are a fixed sequence, the
call's position in it being the number of bytes done; the second call therefore
meets the keys of the first. The sequence is a function on an initial part of the
numbers (`KeyRun`), which the steps of the model extend by one key each.

`OwnKeys` names the keys by a recursive function. `KeyStream` proves that its
equation has a solution: any two runs agree where both are defined (`RunsAgree`),
there is a run of every length (`RunsExist`), and the function that takes each
key from a run of its own satisfies the equation. Both need induction over the
numbers, which is had without the library's induction theorems: the proper
subsets of a finite set are well-founded, hence every set of numbers has a least
one (`LeastNumber`), and a set with zero that is closed under successor has them
all (`SetInduction`). `CallIsFunctionOfMessage` follows: what a call gives
depends on its message alone, not on the calls before it, which is why the film
tables may have a constructor for the cipher.

### Transports

`TransportProof`, for any number of callers and power cycles, all time limits
and slack:

* `DispatchTheorem`: every code gets a class, each documented code its own, and
  which undocumented ones become a `HardwareError`;
* `TransportInvariance`: `TInv`, the inductive invariant. It relates each call to
  the history of the recorder while the call runs: whether the command was
  carried out, whose the sense data are, how long each process has been waited
  for, and whether the power failed before the call began;
* `TransportTypes`, `SenseTheorem` (for SG_IO with any callers, for s2pexec with
  one at a time), `LossTheorem`, `BoundTheorem`, `LimitTheorem`, and
  `ImplementsCall == Spec => CallSpec`: all safety properties of
  `Transport_safety`, the refinement included;
* `CallStepsCount`: every step of a call, and every second for which it waits,
  lowers a natural number below 7 (`Kill` + `SenseKill` + 2), and no step of
  anybody else raises it. This is `CallEnds` but for the fairness: the two
  processes, with a hang and a time limit each, add up to an end.

Assumed is `TransportAssumption`: limits are positive, the slack is a second or
more, and a REQUEST SENSE runs out of time before its process is killed.

### Sessions

`SessionProof` proves `SessionTypes` for any number of clients, and for one client,
with any number of slots, tables, invocations and power cycles:
`SessionInvariance` and, from it, `OneCall`, `ItsTable`, `Recovery`, `Listing`
and `Overwriting` (this one for tables with names). The invariant has four parts
besides the types. `RecOK`: what is in the gate comes from one call and one
table, and an idle recorder has nothing there. `Mine`: from the upload or the
reading of a table to the last line the table is in its slot, then in force, then
in the frame, unless the power failed, which the next command reports.
`Recovers`: an undisturbed call that began on an idle recorder finds it as the
code expects at every command. `Shown` and `Listed`: what a name or a listing
says is still in the slot, since nobody else writes.

`LookingOn` is about any number of clients, of which one does as it likes and the
others run `pp8k status` and `pp8k slots` at any time: without power cycles
`OneCallPerFrame`, `FrameHasItsTable` and `RecorderRecovers` hold as for one
client. Its invariant (`WriterInv`) is that of one client, for the writer alone,
and that no Unit Attention is pending; a client that looks changes nothing then
(`LookLemma`). Without the last condition it is false (section 3).

### Imaging and dry runs

`ImagingProof` proves `PlacedTheorem` for every image and frame, by bounds on the
rounded quotient alone (each neighbour allowed at a half), and `DocumentedFrames`
by arithmetic on the documented sizes.

`DryRunProof` proves `DryRunInvariance` and from it `OverflowTheorem`,
`FaithTheorem` and `ImageTheorem`, for every buffer, burst, height and pace.
`DInv` says where the mock's count can be: ahead of the true buffer by at most
the time of the print that was just sent, behind it by what polls have forgotten
since the buffer was last empty, less than a kilobyte each. The driver waits for
room in the mock's count, which is the pessimistic one up to that print. Assumed
are `DryRunAssumption` (a burst and one line more fit the room waited for, a
second drains at least a kilobyte), `SizesAssumption` (images have pixels) and
`LateAssumption` (the sleep of 0.5 ms before a print, however late, ends before a
line has drained, which takes 2 ms).

`RunStepsCount` proves that no step of a run is in vain: stage, lines or polls,
and the kilobytes still waited for go down in that order. The mock forgets a part
of a kilobyte at every poll, so this needs that a second shows one at least;
from there `RunEnds` is fairness.

### Model-checked only

Fairness: that steps which can be taken are taken, and with it `AbortEnds`,
`Termination`, `CallEnds` and `RunEnds`; the theorems `StepsCount`,
`CallStepsCount` and `RunStepsCount` say that there are finitely many to take.
And the sentences of the documents, which are false. The other theorems about
sessions are about one client, as is the run: with two that expose they do not
hold (`Doc_busy`). `NothingInVain` and `CallIsUsedUp` (of the counts of steps),
`Promise` and the case of `LookingOn` are in no run; TLC finds no violation of
them on the instances of `Dry_run`, `Transport_safety`, `Exposure_contract`
and, with two clients, two slots and three invocations, `Session_safety`.

## 5. Plan

Done: every component whose behaviour is the program's own logic, each with its
contract where others rely on it, theorems for all safety properties the runs
check, and for the counts of steps that the liveness properties rest on. What
could follow:

1. The late effect of a process that was killed: a command that s2pexec had given
   to the kernel may still be carried out after `TimeoutExpired`. `Transport`
   lets a command take effect before the failure or not at all.
2. Two clients in `Session` that both write, to slots of their own: which
   sequences of invocations do not disturb each other.
3. `Exposure` on `Transport` directly, in place of its `Outcomes`.

Not modelled: argument parsing and printing (`cli.py`), which hold no state
between invocations; resampling, colours and EXIF (Pillow's); the structures of
the SG ioctl and the command line of s2pexec, which are formats; the wording of
errors and events; the mock's answers that nothing in the exposure reads.
