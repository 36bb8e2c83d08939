# tetraudiod: a TLA+ verification project

The repository is an Android service, `tetraudiod`, that converts the four capsule
signals of a tetrahedral microphone (A-format) into B-format, and the program it
was derived from, `tetraproc` 0.8.6, a JACK application for Linux. This directory
holds TLA+ models of both, the TLC runs that check them and the theorems that
TLAPS proves about them. `PROJECT.json` is the index: components, runs, mutants, the
lines of the source that each definition stands for, findings, hazards, theorems.

## 1. Inventory

Paths are relative to `src/`; `up/` is `upstream/tetraproc-0.8.6/source/`.

### 1.1 The Android service

| Component | State | Operations | Interacts with |
|---|---|---|---|
| `TetraudioService` (`server/tetraudiod.cpp`) | `mSize`, `mSrc`, `mDst`, `mConfig`, `mProcess` | constructor, `setSize`, `getSrc`, `getDst`, `reset`, `process` | called by the Binder threads through `BnTetraudio`; calls `ABprocess`; shares memory heaps with the clients |
| `ITetraudio` (`libtetraudio/`) | none | the proxy `BpTetraudio`, the stub `BnTetraudio::onTransact` | carries one synchronous call per client thread; turns results into status codes |
| `tetraudio_test` (`client/tetraudio_test.cpp`) | its two handles | waits for the service, sizes, fetches, fills, processes, reads | the service, and its buffers directly |
| `ABprocess` (`libtetraproc/abprocess.cc`) | filter states, mute, matrix, flags | `reset`, `process`, `set_*` | the service; `ABconfig`, the filters |
| `HP_conf`, `HP_filt` (`libtetraproc/hpfilt.cc`) | ramped frequency, coefficients, states | `setfreq`, `process`, `reset` | `ABprocess` |
| `ABconfig`, `Oscform` (`libtetraproc/abconfig.cc`, `oscform.cc`) | a configuration; a file image with three cursors | `reset`, `save`, `load`; `put_*`, `get_*` | files |
| `LF_filt`, `PM_filt` (`libtetraproc/pmfilt.cc`) | coefficients, states | `init`, `process`, `reset` | `ABprocess` (set, but not applied in this version) |

Hard behaviour: the daemon joins the Binder thread pool, so handlers of different
clients run concurrently, and there is no lock; clients keep references to heaps that
the service has replaced; a client may die at any time; allocations fail half way;
sizes are multiplied in 32 bits; `mSize` is read before it is initialized.

Correct means: the conversion stays within live buffers; what a client is granted is
as large as what it asked for; what it wrote is what is converted; errors are reported.

### 1.2 The upstream application

| Component | State | Operations | Interacts with |
|---|---|---|---|
| `Jclient` (`up/jclient.cc`) | processing state, mute and monitor settings, volume ramp | JACK callbacks, setters | real-time thread; answers `Mainwin` by events |
| `Mainwin` (`up/mainwin.cc`) | what is displayed and selected, timers | event loop, `applconf`, `syncaudio`, `loadconf`, callbacks | `Jclient`, `Confwin`, `Filewin` |
| `Confwin`, `Filewin` (`up/confwin.cc`, `filewin.cc`) | the configuration being edited, update flags, paths | edit, load, save, apply, new | `Mainwin` by callbacks |
| `Convol44`, `Convdata` (`up/convol44.cc`) | partitions, frequency-domain ring, reference counts | `set_conv`, `reset`, `process` | `ABprocess` |
| `ABprocess` (`up/abprocess.cc`) | as above, with the convolution | `set_convol` reads `Impdata` | `Jclient`, `tetrafile` |
| `Impdata` (`up/impdata.cc`) | impulse responses, file handle, section cursor | open, read, write, `sf_*` | files |
| `Kmeterdsp` (`up/kmeterdsp.cc`) | filter, rms, peak, flag | `process` in the audio thread, `read` in the GUI thread | `Jclient`, `Mainwin` |
| `Audiofile`, `Dither`, `tetrafile` (`up/audiofile.cc`, `dither.cc`, `tetrafile.cc`) | file state, dither history | open, read, write, the conversion loop | files |
| widgets (`up/kmeter.cc`, `textmat.cc`, `styles.cc`, ...) | pixels | drawing | X11 |

Hard behaviour: a real-time thread that never blocks and a GUI thread that changes
its data under a handshake (or without one); reference counts by hand; block
sizes that do not match partition sizes; partial loads of a configuration.

### 1.3 Vendored

`fftw3/` is FFTW 3.3.4, unchanged; its transforms are used by `Convol44` only.

## 2. What is modelled

| Module | Models | State | Actions |
|---|---|---|---|
| `TetraudioService` | the daemon with its Binder stub, and clients that make any calls | the members, the heaps and who refers to them, each handler's place and local variables, the last reply and the handles of each client | one per statement of a handler between which the other threads can be seen; `Call`, `Write`, `Exit` of a client |
| `ITetraudio` | the abstract specification: what the interface promises to its only client | the call in progress, the size, whether there are buffers, what the client sees of its two | one per call and outcome, each at once |
| `TetraudioOneClient` | the refinement mapping from `TetraudioService` to `ITetraudio` | | |
| `TetraudioTest` | `tetraudio_test`, any number of processes, on top of `TetraudioService` | `at`: the place in `main()` | `Find`, `Ask`, `Check`, the filling of the buffer, `Quit` |
| `JackSync` | `Mainwin::applconf()`, `Jclient::jack_process()` and the `ABprocess` they share (`up/`) | the places of the two threads, `_state`, `_enable`, `_cerror`, which stages have their data, the events under way | one per statement of `applconf()` and `set_*()`, one per test of `_enable` in `process()` |
| `Meters` | `Kmeterdsp`, its callers in `Jclient`, `Mainwin::handle_time()` | the members of the meter, `_meter`, the places of the two threads | one per statement of `process()`, `reset()` and `read()` |
| `Ramps` | `HP_conf`, the volume of `Jclient::monitor()`, `Virtmic::lincheck()` and `circheck()` | a control, its target, the last request | the setters, one step of the callback |
| `Confwin` | `Confwin`, `Filewin` and the callbacks of `Mainwin` | the two configurations, their update flags, the display, the Apply button, what runs | one per event of the windows |
| `Convfile` | `ABprocess::set_convol()`, `ABconfig::openconvfile()`, the reading side of `Impdata` | the open file, the section, the data, the partitions, `_convol` | opening and each way it fails, `ReadSect`, `CloseConvfile` |
| `Convol44` | class `Convol44` (`up/`) | the buffers of fragments, transforms, products and outputs, the pointers, `_ifrag`, `_ipart` | `Process`, `Reset` |
| `Dither` | class `Dither` | the memory, its beginning, the local variable, the samples left | `Begin` of a call, one sample of each kind |
| `Tetrafile` | `main()` of `tetrafile` with `Audiofile`, on top of `Dither` | the place in `main()`, the files and their positions, the buffers, the output | one per statement that can fail, `Read`, `ReadSecond`, `Process`, `Convert`, `Write` |
| `MC...` | instances of the above for TLC | | |
| `...Proofs` | the theorems | | |

### 2.1 TetraudioService

`pc[t]` names the statement at which the handler that serves client `t` stands, or the
constructor's (`Main`); `frame[t]` holds its local variables. The statements of
`setSize()` are `SetSize` (the test and the call of `setSize(0)`), `AllocSrc`,
`AllocDst`, `Commit`. `getSrc()` and `getDst()` copy a strong pointer in two steps:
they read it, and they count the reference (`TakeSrc`); in between another thread
can drop the last one. `process()` reads the pointer and `mSize` once for the source
(`FSrc`), once for the destination (`FDst`), once more for the length (`Filter`), and
converts (`Store`). A thread that meets a heap that is gone has no further step; the
invariants say that it never gets there.

A heap exists while something refers to it: `heap` is a function over exactly those, so
every assignment to a strong pointer frees what it releases. Samples are abstracted to
the set of client-written blocks they depend on; since the high-pass filters have an
infinite response, `filt` accumulates them until `reset()`. `Bytes` computes in
`uint32_t`: `WordMod` stands for 2^32. `mSize` starts with any member of `Garbage`,
because nothing initializes it. Binder is taken as what it is to this code: a
synchronous call per client thread; its status is computed by `Status` as
`onTransact()` does.

What a client may rely on is stated apart, in `ITetraudio`: calls that take effect at once,
a size, whether there are buffers, and the two buffers as the client sees them. A buffer
that the client holds is the current one or an old one; `process()` reads the current
source and fills the current destination, and leaves old ones alone. `TetraudioOneClient`
maps the service to it: the call in progress (`InCall`) from the place of the handler, the
size asked for (`Wanted`) from its frame, the two buffers (`SeenSrc`, `SeenDst`) from the
handles, the members and the heaps. `KeepsPromises` is the specification of the interface
under that mapping. It holds for one client only: `two_resize` is the counterexample for
two. The interface is as weak as the code is: `size` may start as anything, `reply` to
`process()` says nothing of its success, and after a failed `setSize()` the service may
report a size without having buffers. So `KeepsPromises` does not object to any of these;
section 5 lists them.

For clients that share the service there are four properties. They are about clients that
never ask for more than the default size, and they hold once the constructor has not been
refused memory (`Constructed`; the constructor does not look at the result of its
`setSize()`). `SharedInBounds`, `SharedHandleLive` and `SharedNeverShrinks` hold whatever
`mSize` held at first. `HandleAvailable`, that a `setSize()` answered `NO_ERROR` is followed
by handles, needs also that it held less than the default size: otherwise the constructor's
`setSize()` does nothing and every client is refused.

### 2.2 TetraudioTest

Extends `TetraudioService`; each place of `main()` is one value of `at[c]`. The calls are
those of the service (`Ask` starts one, `Serve` runs its handler, `Check` tests the
reply). `BigEnough` is the comparison the program makes, of bytes with a number of
samples. A process that ends or is killed between two calls loses its handles and is
started again. `TestImplements` proves that a step of the test programs is one of
`TetraudioService` or leaves it alone.

### 2.3 JackSync

The two threads share `ABprocess` without a lock. `applconf()` protects the matrix and
the convolver by a handshake: it sends `EV_GO_IDLE`, waits for the callback to answer,
makes the changes, and does the same with `EV_GO_PROC`. The equalisers alone are changed
without it. A block of samples is abstracted to the set of stages it went through, with
"OLD" for samples of an earlier block and "BAD" for what a stage made of data that were
not set. So `BlockSound` can say that the output is what the enabled stages make of this
block and of nothing else. `process()` tests `_enable` up to seven times for a block, and
each test is a step. The callback takes an event, sets `_state` and answers in one step:
the GUI thread sees only the answer. `dirty` marks the blocks during which an equaliser
was being set; for those the code promises nothing (section 5).

### 2.4 Meters

One of the four meters. `Kmeterdsp::process()` runs in the real-time thread, `read()` in
the GUI thread (every 50 ms, `up/mainwin.cc:153`), and they share four members without a
lock. Each statement that reads or writes one of them is a step, in the order of the
source: the model takes single reads and writes as atomic and in program order, and says
nothing of what a compiler may make of them. The filter is abstracted to the level it
returns, any level while there is input. `Jclient` tests `_meter` twice per block, once
for the input and once for the monitor (`Block`, `Monitor`); `init_proc()` comes after
`jack_activate()`, so the first blocks may find nothing set (`ready`). A callback with
another number of frames than at the start measures nothing (`OtherSize`). The variables in
`ghost` record what has been measured since the last read and serve the properties.

### 2.5 Ramps

Four kinds of controls with one shape; `kind` says which one a behaviour is about. Only
the places at which they differ are conditional: the circle of an azimuth, the factors of
a frequency (its logarithm makes them steps), what is done when the target is near. The
callback may read a target again for the assignment `v = v1`; that is a step of its own
(`VirtmicCopy`). `HP_conf::process()` reads its target up to four times and may write it;
each of these is a step (`Frequency`, `FrequencyFirst`, `FrequencyUp`, `FrequencyDown`,
`FrequencyCopy`), and the GUI thread may set the target before any of them.

### 2.6 Confwin

All of it runs in the GUI thread, so an event is a step; how a configuration reaches the
running audio is the subject of `JackSync`. `main` is the configuration of the main window,
`edit` the one of the configuration window, `disp` what that window shows; `flags` and
`mflags` are the members `_update` of the first two. `Apply` is the whole chain
`disp2conf()`, `CB_CONF_APPL`, `applconf()`, `applyrep()`. `Loaded(C, n)` is what
`load()` makes of a file of which the first `n` packets are read. The Save button, the
status line, the file name and the working directory are left out. `lost` and `mlost`
mark what follows a load that failed: the code then drops the flags and keeps the display,
and the properties say nothing until the next load, New, Cancel or Close.

### 2.7 Convfile

One call of `set_convol()` after the other, with the object of class `Impdata` in the
configuration of the main window. `Mainwin` and `Confwin` copy whole configurations, but never
while that object is open, and a closed one has nothing that the next opening uses: one object
stands for all the copies. A file is a record of what the code tests: whether it exists, its
kind, its header, its numbers of channels, sections and frames, and how many frames can be read.
A frame is its number, so `Loaded` can say that each place of each section holds the frame that
belongs there. Of a file that is too short, what is left over is zeros or an earlier section:
the result of `read_sect()` is not looked at. A `.wav` file of one to three frames is accepted,
with sections of no frames.

### 2.8 Convol44

The unit is a fragment, what the caller writes before a call of `process()`. A transform
is the sequence of the fragments it was made of. The product of an input fragment and a
fragment of a response is two fragments long; its halves are the terms of which an
accumulator or an output is a sum. A sum is the set of its terms, and `doubled` collects
the terms that are added to a sum that has them already, so that nothing is counted twice
unseen. `Forward`, `MulAcc` and `Invert` are what `fwdfft()`, `mulacc()` and `invfft()` do
to the buffers, including the part that `fwdfft()` clears; `Work` composes them for each
call in the code's order. `Convolves` compares what the caller can read with the
convolution by its definition; the fragments arrive with a delay of `2 * (mode - 1)`
calls. `process()` runs in one thread and nothing else touches its buffers then
(`JackSync`: `ConvolLive`), so one call is one step.

### 2.9 Dither and Tetrafile

`Dither` is one object of that class, with its callers: calls of any lengths, one sample a
step. A value is the number of the sample that it belongs to, so `LastFive` says which
errors the noise shaping feeds back. `Tetrafile` extends it with the conversion loop. One
channel of dither stands for the four, which are separate objects converted with the same
arguments; a block is one call of the dither, because 256 frames fit in the buffer of
`Audiofile` (`TetrafileAssumption`). A frame is the file and the number that it comes from.
The program ends in `exit`, with its result, or in `crashed`. `Convolver` says what becomes of
the convolution file: one that does not open leaves no convolver, and a `.wav` of one to three
frames one without partitions (`empty`). `process()` is called all the same; in the first case
it uses the null pointer, in the second `_ipart` wraps around to 2^32 - 1 and `fwdfft()` takes
from far outside of `_fwd_buff` the place to write to (`up/convol44.cc:153`, `269`, `413`).
Failures that the code does not look
at are in the model: a short read of the second file leaves frames of the first one in its
channels, and a full disk ends nothing.

## 3. The runs

| Run | Instance | Shows |
|---|---|---|
| `one_client` | one client, sizes 0 to 3 around the default 2, allocations that fail, three values of garbage | `TypeOK`, `BuffersFit`, `Converted`, and the refinement `KeepsPromises` |
| `shared_default` | two clients, sizes up to the default, allocations that fail, garbage below, at and above the default, all interleavings of statements | `SharedInBounds`, `SharedHandleLive`, `SharedNeverShrinks`, `HandleAvailable` |
| `test_two` | two test programs, killed between any two calls; no allocation fails, garbage below the default | `NeverFails`, `SomeAudio`, `AccessInBounds`, `Passes` |
| `jack_sync` | everything: the model has no parameters | `TypeOK`, `ConvolLive`, `Exclusive`, `BlockSound`, `Resumed`, `ApplyReturns` |
| `meters` | levels 0 to 2, peaks held for 2 blocks | `TypeOK`, `RmsFresh`, `SelectedShown`, `ReadCovers`, `PeakHeld`, `Falls` |
| `ramps` | 16 values, steps of 3, tolerance 2 | `RTypeOK`, `Approaches`, `Smooth`, `Settles` |
| `confwin` | the two sections that exclude each other, one or two parameters and a bad one | `PendingFlagged`, `MainFlagged`, `DarkIsMain`, `MainAccepted` |
| `convfile` | 17 files, one for each way to be whole, short or refused; sections of up to 3 frames | `Accepted`, `Loaded` |
| `convol44` | 1 to 3 partitions of 1, 2 or 4 fragments, three sets of responses, 34 calls | `Convolves` |
| `tetrafile` | files of 0 to 14 frames, blocks of 4, a memory of 5 errors, a convolution file that is good, too short or missing | `LastFive`, `LastRandom`, `Outcome`, `Aligned` |
| `two_resize`, `meter_highest` | as `one_client` with two clients, as `meters` | the findings of section 5 |

Bounds. Sizes matter only by comparison with each other and with the default: one smaller,
equal, and one larger than the default, and 0, give every outcome of the test in `setSize()`. No
size of a run wraps around: with `WordMod = 64`, 4 would be the first. In `shared_default` no
client gets beyond the first test of `setSize()` while `Constructed` holds, so its three heaps
are one more than are ever in use. Behaviours in which the constructor was refused memory are
not followed further there (`CONSTRAINT Constructed`): `Constructed` stays false then, and the
four properties say nothing of them. In the other runs of the service five heaps suffice for two
in the service, two held by a client from before, and one being allocated; they are
interchangeable, hence the symmetry (not in the run with a liveness property, where symmetry is
not sound; the refinement in `one_client` is a safety property). Two clients are enough for
every pair of handlers to overlap. `Last = 16` has a point opposite on the circle, and 3 does
not divide it. Three levels let a peak be equalled and topped while it is held. Files of 14
frames are three whole blocks of 4 and a part of one, and go more than twice around a memory of
5; their errors come within a block. 34 calls go more than twice around a ring of three
partitions of four fragments; `Calls` and `MaxSamples` are the only bounds in guards, and
`MaxSamples` is what the longest file of the run has, so it is never met. No other counter is
cut off: every variable is bounded by itself, since `mSize` only takes requested values and an
event is sent once (`TypeOK` of `JackSync` says so).

Deadlock is checked except in `jack_sync`, where the program may end, or wait for a JACK
server that has gone away, and in `confwin`, where it may crash (`Orphan`). `Tetrafile` has
the step `Stopped` for a program that has ended.

Fairness. `TetraudioTest`: the kernel schedules each process and Binder the thread of
each call that has arrived; none waits for another, hence weak fairness per process and
per handler, and none for `Quit` or for what a client may choose to do. `JackSync`: the
GUI thread is scheduled when it can run, JACK calls the callback in every period and the
callback never blocks; nothing obliges the user to apply, or JACK to shut down. `Meters`:
the callback and the timer of the GUI thread, and `init_proc()`, which follows in
straight-line code; nobody need switch the meter. That includes the assumption that JACK does
not change its number of frames for ever, which would leave the levels where they are; there
is no fairness of `OtherSize`. `Ramps`: JACK calls the callback, and the callback gets as far
as the control: for the frequency, the audio is not left idle or with an error flag for ever.

Every property of a passing run has a mutant in `PROJECT.json`: a definition that a
plausible mistake in the code would change, for which the run reports that property.

## 4. The theorems

TLAPS proves the following for every value of the constants that the named assumptions
allow.

`TetraudioServiceProofs`. `TypeCorrect`: types, and exactly the referenced heaps exist.
The safety of the buffers is not inductive by itself, and it does not hold without a
condition (finding `two_resize`). `Exclusive` states the condition: while a thread
replaces the buffers no other call is in progress. Under `[]Exclusive` the inductive
invariant is `Core`: each thread's local variables agree with the members as far as its
place says (`InStep`: what `setSize()` has allocated so far, what `process()` has read so
far), the buffers hold `mSize` samples, no client was promised more than `mSize`, and
what it was given fits. That gives `SafeWhenExclusive` and `NeverShrinksWhenExclusive`.
Two theorems then discharge the condition: `OneClientSafe`, because a single client makes
one call at a time and the constructor is done before; and `SharedDefaultSafe`, because
when nobody asks for more than the default size (`DefaultSizes`) and the constructor's
allocations succeed nobody replaces the buffers (`DefaultKept`). It allows any garbage in
`mSize` and any allocation to fail; that the constructor's have not is the condition
`Constructed` inside the properties. `SharedDefaultAvailable`: nobody is refused a handle
then, if besides `mSize` was below the default size at first, which `HandleAvailable` says. Its
invariant adds that the published service has both buffers (`Supplied`). All assume `NoWrap`:
the sizes in use times 16 fit in a word.

`OneClientRefines`, in the same module: `Spec => KeepsPromises` for one client, with
any sizes, garbage and failing allocations. It has one lemma for each statement of a handler,
which is a step of the interface or leaves it alone. Beyond `Core` they rest on the invariant
`Steady`: the client's two handles and the service's two buffers are different heaps
(`Apart`), there is no source without a destination except while one is being allocated
(`Paired`), what `setSize()` has just allocated is not held by the client yet (`Fresh`), and
the client waits for the constructor (`Waits`). `OneClientConverts`: with `Converts`, what
`process()` has filtered when it is about to store it, the destination holds the conversion of
what the client wrote.

`TetraudioTestProofs`. `TestImplements`: the test programs implement `TetraudioService`
with arbitrary clients, so the theorems above apply, and so do their conditions: the three
that follow say that sizes do not wrap around, that `mSize` was below the default size at
first, and that the constructor was not refused memory. (Without the last two every program
may fail, as it should: the service has no buffers.) `TestsNeverFail` and `TestsStayInBounds`:
any number of them, started and killed in any order, print no error and
stay within their buffers. The invariant `TInv` adds to the service's what each place of
`main()` says of the handles and the last reply. `TestsHearSomething`: what they read back
comes from something that was written. Its invariant `Audio` speaks of the two shared buffers
rather than of one program: once some program is past its filling, the source is not empty
(`Poured`), and once `process()` has answered one, nor is the destination (`Filtered`); what
the others do in between can only put other audio there.

`JackSyncProofs`. `ConvolverLive`, `ChangesExclusive`, `BlocksSound`, `AudioResumed` and the
types (`SyncTypeCorrect`). `JackSync` has no parameters and TLC covers it; the proof says why
it works. The invariant has six parts beside the types: in which direction an event is under
way, and that `_state` is `S_IDLE` from the answer to `EV_GO_IDLE` until `EV_GO_PROC` is taken
(`Handshake`); that `process()` then does not run, nor with an error flag (`Calm`); that every
enabled stage has its data, except the one that is being set or has failed (`Complete`); that
the branch `process()` is on agrees with `_enable`, unless an equaliser was set meanwhile
(`Branch`, `Marked`); and what a block has passed at each place (`Passed`).

The same module has the theorems about `Ramps`, which these threads share without a
handshake: `RampTypeCorrect`, `RampsApproach` and `RampsSmooth`, for every range, step and
tolerance. The circle is the difficult case: `MovedCircle` shows that a limited step along
the shorter way stays on the circle and shortens the distance.

`MetersProofs`. `MetersTypeCorrect`, `DisplayFresh`, `SwitchShown`, `NothingMissed` (of blocks
that no reset of the meter has dropped) and `PeaksHeld`, for any number of levels and any time
of holding. The inductive invariant has one part per question: when the flag is set or being
taken, what is left in `_rms` (`Cleared`, `Fresh`), that `_rms` or what was copied from it
covers the blocks that are due (`Covers`), from which source it stems (`Chosen`, `Shown`), and
that the count and the blocks since the last rise of the peak add up to at least the hold
(`Held`).

`Convol44Proofs`. `OutputIsConvolution`: for every number of partitions, all three divisions of
the work and any set of responses. It has two halves. The one is about the convolution alone:
`Terms(j, k, b)` is what input `j` adds to output `k` in the round whose last partition begins
with fragment `b`. `Whole` says that the first half of a round and the second half of the round
before it together are exactly the terms of the convolution, and `Apart` that no term is in two
of the sums that are added. The other is about the buffers, as an invariant between two calls:
where the pointers are (`Pointers`), which fragments of the next partition have been written and
which are put aside (`Inputs`), that the transforms, read upwards from `_ipart` with the wrap
around, are those of the last `npar` partitions (`Rings`), what the accumulators already hold of
this round (`Sums`), and what has been made of it and of the round before (`Outputs`). A call
that ends a round (`LastCall`) and each call before (`EarlierCall`) is shown to keep it by the
effects of the three operations (`ForwardsDone`, `MulAccsDone`, `InvertsDone`).

`ConvfileProofs`. `ProperAccepted` and `LoadedInPlace`, for all files. `ProperAccepted` needs
`Phases`: when no call is running the object of class `Impdata` is not in use, whatever the
last call failed at. `LoadedInPlace` needs `Reading`: during section `i` the data are frames
of an earlier section of this file, or zeros.

`ConfwinProofs`. `NothingForgotten`, `FailedTriedAgain`, `DarkShowsMain` and
`OnlyAcceptedApplied`, and the types (`ConfwinTypeCorrect`), for any of the four sections, which
TLC checks for two. The invariants are inductive as they stand, but only together:
`PendingFlagged` after Cancel is `MainFlagged` before it, and `MainFlagged` after an Apply is
`PendingFlagged` before it.

`TetrafileProofs`. `ShapedByLastFive` and `DitheredByLastRandom` are about `Dither`, for every
size of the memory from 4 on and every division of the samples into calls. The invariant
`InOrder` says of the memory that from its beginning on it holds the errors of the samples in
descending order, up to its end and in the copies behind it. `DithersAsSpecified` shows that
`Tetrafile` uses it as one of the callers of `Dither`. `FramesAligned` and `OutcomeTold`: for
all sizes of the blocks and files and of the disk. Their invariant relates the positions of the
two input files, the length of the output and the size of the block (`Counted`), says what the
buffers hold (`InPlace`), and what has been tested at each place (`Tested`). The second file
may be ahead of the first, but only when that is at its end. `FramesAligned` covers a second
file that cannot be read to the end too: from there on the second pair of channels is that of
the first file, which is the short read that the code does not look at. `OutcomeTold` says that
the program crashes exactly when there is a frame to convolve and the convolution file does not
open or is too short, and that a full disk is not told from success.

Only model-checked: the liveness properties (`Passes`, `ApplyReturns`, `Falls`, `Settles`),
because the prover reasons neither about fairness nor about ENABLED. Every other property of a
passing run has its theorem.

## 5. Findings

Each has a run that shows a behaviour in which what the source says is violated.

- `two_resize`: `setSize()` has no lock; two clients that grow the buffers at once, and
  the one that asked for more gets the smaller buffer.
- `meter_highest`: `read()` is to return the highest value since the last call
  (`up/kmeterdsp.cc:127`), but a block that has begun before a call and ends after it is cleared
  by the flag of that call and never shown. `ReadCovers` is what does hold.

Observed while modelling, without a run of their own.

In the service:
- `mSize` is not initialized; with garbage of at least the default size the constructor sets
  nothing and the service is published without buffers.
- After a failed allocation `mSize` keeps its value; a later `setSize()` of no more than that
  reports success although there are no buffers.
- `setSize(0)`, which is to free the old buffers, is always ignored, so that old and new
  buffers exist at once.
- The stub drops the result of `process()`, so a client cannot tell a conversion from a
  refusal; the interface has no place for it.
- From 2^28 samples on, the number of bytes wraps around and the buffer is too small.
- `reset()` of one client while `process()` of another is running is lost.
- `HP_conf::process()` ends a ramp with `_w1 = _w0`: the target becomes the current
  frequency instead of the reverse, and a request made just before is lost.

In the upstream application:
- The equalisers are enabled before their coefficients are set, under running audio.
- The GUI waits for ever if the JACK server goes away between a request and its answer
  (`ApplyReturns` allows it).
- The configuration window can be closed while its file window is open; the answer then uses
  a configuration that is gone (`Orphan`).
- After an apply that failed, Cancel makes the Apply button dark although what runs is not
  what is shown (`MainFlagged` says that it will be set by the next Apply).
- The file window that is opened a second time leaves the working directory changed.
- `save()` ignores the results of its writes (`up/abconfig.cc:148`); `load()` takes a
  truncated file for the end of the file (`up/abconfig.cc:185`).
- A `.wav` file of one to three frames gives a convolver without partitions; its index
  `_ipart` is then decremented from zero (`up/convol44.cc:269`). `Outcome` says that
  `tetrafile` crashes with it; `JackSync` and `Convol44` leave such files out.
- A load that fails has already reset the configuration and the update flags, but the window
  still shows what it did: what is applied next is not all that is shown (`lost`, `mlost`).
- The conversion to 16 bits stores the rounded value in an `int16_t` before it clips
  (`up/dither.cc:57`, `78`, `106`).
- `tetrafile` does not report a full disk or a short second file, and crashes when the file of
  the convolution does not open (`Outcome`, `Aligned` say so).

## 6. What is not modelled

About 290 000 of the 299 000 lines of C in the repository are FFTW 3.3.4, vendored without
changes: most of it generated transforms. They are used by `Convol44` through three
functions and are taken there as what they compute.

The arithmetic of the filters (`LF_filt`, `PM_filt`, `HP_filt`), of the matrix, the meters
and the virtual microphone: numerical behaviour is out of TLC's reach. X11 drawing, the
ports of JACK, the marshalling of Binder: no state that the properties depend on. The
packets of `Oscform`, and so the versions of the configuration file: `Confwin` models what
`load()` delivers. `Audiofile::seek()` and `get_buffer()`, and the writing side of
`Impdata`, have no callers in these programs.

## 7. Plan

What is left, most important first.

1. `Convol44`: the reference counts of `Convdata`, with `set_conv()` as an operation.
2. `ConfigFile`: `ABconfig::save()` and `load()` over the packets of `Oscform`, with reads
   and writes that fail: what is loaded is what was saved, or an error is reported.
