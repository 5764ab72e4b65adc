# Verification of aw64

aw64 is the interpreter of *Another World* (*Out of This World*) for the
Nintendo 64. This directory holds TLA+ models of it, configurations that check
small instances of them with TLC, and theorems about them, proved with TLAPS.
Every definition is translated from the C++ sources; the table `map` of
`PROJECT.json` says from which lines.

1. The parts of the program
2. The modules
3. The runs
4. The theorems
5. What the program does that its comments do not say
6. What is not modelled
7. Plan

## 1. The parts of the program

| part | state | operations | with whom |
|---|---|---|---|
| main loop (`engine.cpp`) | input, clock | `Engine::run`: requests, input, frame | calls all others |
| threads (`vm.cpp`) | 64 program counters, freezes, requests, one call stack, the part request | `checkThreadRequests`, `hostFrame`, `executeThread`, `op_*` | asks the resource manager, the mixer and the video for everything else |
| resource manager (`resource.cpp`) | the state of each entry of the memlist, one block of memory with two pointers, four segments | `loadPartsOrMemoryEntry`, `loadMarkedAsNeeded`, `invalidateRes`, `invalidateAll`, `setupPart` | the others keep raw pointers into its block |
| banks (`bank.cpp`) | a resource in memory, the bits of the word being read, a checksum | `read`, `unpack` | called by the resource manager |
| mixer (`mixer.cpp`) | four channels | `playChannel`, `stopChannel`, `stopAll`, and `mix` in an interrupt | scripts and the music write the channels |
| music player (`sfxplayer.cpp`) | the module, its order, a timer | `loadSfxModule`, `start`, `stop`, and `handleEvents` in an interrupt | plays on the mixer, marks a variable of the scripts |
| variables (`vm.cpp`) | 256 signed words | moves, arithmetic, shifts, `op_jnz`, `op_condJmp`, `inp_updatePlayer` | the music writes the mark, the controller the variables of the input |
| video (`video.cpp`) | four pages, three pointers, a palette request, the polygon being filled | `fillPage`, `copyPage`, `copyPagePtr`, `updateDisplay`, `drawString`, `readAndDrawPolygon` | called by the instructions |
| system layer (`sysImplementation.cpp`) | the controller at its last scan, the last key, the ticks, the timers, two audio buffers | `processEvents`, `sleep`, `addTimer`, `removeTimer` | runs the two audio interrupts and the tick, hands buffers to the audio interface |
| save states (`serializer.cpp`), files, tables, `main.cpp` | | | |

What makes it hard:

- **Requests.** Threads never act on each other directly: jumps, kills, freezes
  and changes of part are posted, and applied between two frames. Correctness is
  about who sees what when, with any script.
- **One of everything.** All threads share one call stack that is never cleared,
  and all resources one block of memory where nothing is freed one by one, while
  channels, music and segments keep raw pointers into it.
- **Interrupts.** `mix` and `handleEvents` come between any two writes of the
  main program, which takes no lock; the tick moves the clock between readings.
- **Numbers.** Positions in 8.8 and 16.16 fixed point, compared for equality; two
  pixels in a byte; signed and unsigned words of 8, 16 and 32 bits.
- **Polling.** Buttons are only seen as changes between two scans.

`PROJECT.json` lists these hazards one by one (`hazards`), at their lines, with
the properties that cover them or the reason why none does.

## 2. The modules

### VmThreads, FrameScheduler, VmThreadsProofs

`VmThreads` has the threads: `pcOffset`, `requestedPc`, `currState` and `requestedState` are
the two rows of `threadsData` and of `vmIsChannelActive`; `scriptStackCalls`, `stackPtr`,
`scriptPc`, `gotoNextThread` and `threadId` the state of the interpreter. Actions:
`CheckThreadRequests` (with `SwitchPart`, which is `initForPart`, when a part was requested,
and `RefusePart` when it does not exist or one of its segments cannot be read), the loop of
`hostFrame` (`SkipThread`, `StartSlice`, `EndSlice`, `EndFrame`), and one action per
instruction that touches threads, stack or request: `Jmp`, `Call`, `Ret`, `PauseThread`,
`KillThread`, `SetVect`, `ResetThread`, `RequestPart`, `InvalidOpcode`; everything else is
`Straight`. The code key of the player is `CodeKey`. `error()` is an endless loop: `phase =
"halted"`.

The bytecode is not a constant: at every step any instruction may come next, so
that what holds does so for every script. `_scriptStackCalls` has as many cells as
there are threads, but `op_call` tests against 255: `StoreStackCell` writes where
the store really lands, in `threadsData`, when the index is beyond the array.

`FrameScheduler` says what scripts may rely on: a frame chooses the threads that
run when it begins, runs each of them once in order, and what they post takes
effect when it ends. `VmThreads` implements it (`ImplementsFrameScheduler`) by
a mapping of the loop index to the set of threads still to run.

### ResourceMem, ResourceStore

Pointers are offsets from `_memPtrStart`; a cell of memory holds the number of the
entry that was last read into it, so that overwritten data are visible.
`RequestEntry` and `RequestPart` are `loadPartsOrMemoryEntry`; `SetupPart` is
`setupPart` up to the loading; `LoadOne` is one turn of `loadMarkedAsNeeded`, with
its choice by rank, the entry that does not fit, the entry without a bank, the
picture and the bank that cannot be read; `EntryDone` and `PartDone` are what
follows the loop; `InvalidateRes` the release.

`ResourceStore` is the promise: resources become readable, stay so until a release
or a change of part, and the segments of the part that is played are readable.

### Game, GameProofs

`Game` composes `ResourceMem` with those that read from its block. `heard` is what the
channels have pointers to, `sfxMod` the music that `_sfxMod` was filled from, and `ticking`
says that a timer goes on with it: `PlaySound`, `PlayMusic` and `Note` add to what is
`Held`, `SoundEnds`, `SongEnds` and `StopMusic` take from it, and `ReleaseAll`
(`op_updateMemList(0)`) and `InitForPart` stop everything before the memory is given to
others (`Silence`). `op_playMusic` does not look whether a music plays, and starts a
timer even if it has loaded nothing: then `stop()` may leave a timer that it does not know
(`StopTimer`), and `orphaned` records it. `SetPalette` only notes a number, in any part;
`UpdateDisplay` reads the colours later, through the pointer of the part that is then
played. The steps of the interrupts, which `SoundPlayer` has one by one, are one step here.

### SoundPlayer, Music, SoundPlayerProofs

The writes of the main program to the channels and to the player, one by one, with
both interrupts between any two: `PlaySound` and `StoreField` are `playChannel`
(its four fields in any order, as nothing fixes it), `Stop`, `ForgetMusic`,
`RemoveTimer`, `StopNext` and `Release` the way of `op_updateMemList(0)`, `Start`
and `LoadSfxModule` that of `op_playMusic`, for any music at any time. What a start
should be is `MayStart`, which nothing in the code tests: the variable `unruly` records a
music that was started over another one, whose timer nobody then knows, or without being
loaded, and the properties are about behaviours without one. `Mix`, `PlayPattern` and `LastPattern`
are the interrupts. A field holds the sound that its value was taken from.

`Music` extends it with the place in the music, `curOrder` and `curPos`, and so with
what decides between `PlayPattern` and `LastPattern`: `HandleEvents` is the handler as a
whole, `LoadAt` and `StartMusic` set the place, and nothing else does (`Elsewhere`).

### Mixer, AudioOut, AudioOutProofs

The other half of the sound: the values. One step of `MixSample` is one sample of every channel,
with positions in 1/256 of a byte, the two ends, the interpolation, the volume and
the conversion to 16 bits; `PlaySound` and `Pattern` are what scripts and musics set.

`AudioOut` extends it with where the samples go. `BeginMix` is the test of the status in
`the_audio_callback`, `NextSample` a turn of the loop of `mix`, `Submit` the rest of the
callback; meanwhile the audio interface, which is external, comes to the end of what
it plays (`Played`). It holds two buffers at most, and is full when it does.

### FrameLoop, FrameLoopProofs

`Engine::run` as the player meets it. `held` is what the player holds, `scanned`
what the controller said at the last scan; `ProcessEvents` is `pressed_key` and
`released_key` on the difference. `Blit` is `op_blitFramebuffer` up to the pause,
`PauseLoop` its loop, `CodeKey`, `Delay`, `StartSleep`, `Sleep` and `Stamp` the
rest, split where the clock is read. Time is counted in ticks since the last picture.

### Variables, VariablesProofs

The instructions that compute: `vmVariables` holds signed words, `Half` of them negative, to
which every result is cut (`Signed`); shifts and masks take them without their sign, masks
as the set of their bits (`Bits`). The bytecode is free, as in `VmThreads`. `CondJmp` has
the way past the protection in it; the conditions that mean nothing are `"invalid"`.
`passing` records that the protection was passed and no instruction has written a symbol
since. `Mark` is the music's interrupt, `UpdatePlayer` what the engine writes once a frame:
the variables of the input (`HeroOf`) and the last key (`KeyAfter`, `TakeKey`).

### Bank, BankFormat, BankProofs

`Read` is `Bank::read` with the head of `unpack`, `OpenFails` its end in `error()`. A word
is the set of its bits, so that `Rcr` shifts a set. `NextChunk` is a turn of `getCode`, that
is one bit; `need` and `stage` say how many bits are missing and what they are for, and
stand for the place in the nested calls. `Header` decides on the kind of a run, `Literal`
and `CopyByte` write a byte of it, `EndOfRun` goes on or looks at the checksum.

What the packed data are was up to a program that is not in this repository. `BankFormat`
says it, so that it can be an assumption of the theorems: a resource has `runs`, and its bits,
numbered through its words (`FileBit`), spell their heads, bytes and offsets
(`SpellsHead`, `StoredByte`, `SpellsOffset`); the runs follow each other and end with the
bits and with the bytes (`InSequence`); they stand for the bytes that are meant
(`StandsForPlain`); every bit is in an even number of words (`ChecksumHolds`); and each byte
has its place above what is unread when it is written (`LeavesRoom`). `FormatAssumption`
demands all that; of a damaged resource, that it still has runs, and a checksum that does
not hold. `MCBank` packs its resources by itself, and TLC evaluates the assumption on them.

### Video, Screen, VideoProofs

`Video` has the four pages as one block of bytes, each the pair of its two colours,
and the three pointers into it. `Line` is the common form of `drawLineN`,
`drawLineBlend` and `drawLineP`: a half byte, whole bytes, a half byte. A shape is
drawn from the sequence `todo`, which stands for the recursion of
`readAndDrawPolygonHierarchy`: `OpenGroup` puts the members of a group in front,
`StartPolygon` is the head of `fillPolygon`, `NextEdges` takes the next pair of
edges, and `Row` draws a row. The edges are followed with the real 16.16 numbers.
`CopyPagePtr` puts a picture, four planes of bits, onto page 0. `CopyPage` reads the byte
that says what to copy as the code does: bit 6 is masked, bit 7 asks for a scroll. Also a
page that is scrolled onto itself is copied, by a `memcpy` over its own source, which works
`"upwards"` or `"downwards"` (`Taken`), as C leaves it open. `drawn` is a history variable:
the instruction or the row that was drawn last, with its operands as they were asked for.

`Screen` is the promise, in pixels, of each instruction with its operands (`op`): the whole
of the page that is named, the text at its column and height, the point, the row from one
edge to the other in its ink, on the row below the one before, on the page that is drawn to;
the copy of the source that the byte names, moved down by as many rows as asked for; and
which pages are shown. Each has one outcome, but for what a page gets that is scrolled onto
itself. `Video` implements it with `drawn` as `op` and `_hliney` as the row. The edges of a
row are what `Video` computes: that they come out at the vertices is `EdgesMeet`.

## 3. The runs

| run | instance | distinct states | shows |
|---|---|---|---|
| `vm_threads_safety` | 2 threads, 2 addresses, calls 2 deep, 3 parts and an invalid id | 935,712 | a frame runs exactly the threads that were eligible when it began; returns stay in the slice; a slice changes no other thread; no request survives a change of part; the refinement |
| `vm_threads_live` | the same, without calls | 207,304 | a jump that was requested is made in the next frame |
| `vm_stack_spill` | calls one deeper than the stack | 419, up to the violation | a violation, see 5 |
| `game` | 11 entries, 6 cells, 2 parts and an invalid id, a music with an instrument | 349,112 | what is loaded, played or held by a segment is whole, no gap, loading ends, the refinement, the colours of the part |
| `music` | 2 sounds, a music of 2 orders with 2 rows, 2 channels, 2 timers; effects and music apart | 173,576 | nothing released is read, timers are owned, channels are whole, the music stays in its orders and ends |
| `sound_shared_channel` | the same, sharing a channel | 17,385, up to the violation | a violation, see 5 |
| `mixer` | a channel, sounds of 1 to 4 bytes, up to one byte a sample, buffers of 2 samples | 47,364 | no read behind a sound, no clipping, sounds end, mixing goes to a buffer that is not being played |
| `mixer_fast` | the same, only sounds without a loop, at the highest frequency | 57, up to the violation | a violation, see 5 |
| `frame_loop` | a direction, three buttons, four parts, slices of 1 and 2 ticks | 483,328 | input follows the controller, one press has one effect, pictures stay, the loop goes on |
| `video` | pages of 6 by 3, six shapes, two texts, a picture, six bytes that ask for copies, two instructions | 30,769 | the refinement of `Screen`, edges meet at vertices, drawing ends |
| `bank` | 8 resources of up to 43 bytes | 3,750 | bits come in order, the resource is restored, in place; wrong bits are noticed |
| `variables` | words of 3 bits, two symbols, a counter, three parts | 77,824 | conditions follow one order, loops end, every symbol is passed after the first, a letter is taken once |

Why the bounds are enough:

- *Threads.* What can go wrong takes a thread that runs and another one, before or
  behind it, that it acts on; the theorems have any number. The last part, the
  first, one between and one that does not exist are all the cases of the code.
- *Memory.* Six cells hold the segments of either part and some of the demanded
  entries, but not all: entries that fit, that do not and that are dropped occur, and
  ranks force an order other than that of the list. `SegmentsAssumption` and
  `DemandAssumption` are what the memlist and the scripts of the game satisfy:
  segments have types that a release keeps, and scripts demand sounds, musics and
  pictures only. Part 22 leaves room for the sound or the music, not for both, so that
  a music without its instrument occurs. Scripts play any of the entries `Played`,
  whatever its type. After a music was started as it should not be they only stop it and
  release the resources (`NothingMore`), as nothing more is said of them.
- *Sound.* Two timers suffice to tell a lost timer from a removed one. After a start that is
  not as it should be the scripts load, play and start nothing more (`NothingMore`), but
  stop and release, and the interrupts go on. `orderTable` has two entries, so that
  `curOrder` has four values (`OrderTable`). A music is begun at either of its orders
  (`Positions`), and a row can be the last one of an order, of the music, or neither; that
  no music begins behind its end is `MusicAssumption`.
- *Mixer.* Channels only meet in the sum, so that one channel is enough for what
  happens to a channel, and `NoClipping` speaks of the contribution of one. The
  frequencies are entries of `frequenceTable`. Two samples make a first and a last
  one of a buffer.
- *Variables.* Words of three bits have all that matters about 16: a sign, an overflow and
  numbers that only one of the two readings takes for positive. The symbols of the
  protection are two pairs instead of four: the one that is compared first and one of those
  that are compared by later instructions. Symbols are moved right and wrong. The buttons
  include opposite directions at once, and a letter with and without another key.
- *Bank.* Each way to encode a run occurs, at the ends of its lengths, with words
  that end within a run; `MCTight` is packed so that the writing comes as near to the
  reading as it can. The damaged resources differ in one bit, early or late.
- *Frame loop.* The four directions are treated alike. `MaxTicks` stops the clock
  where the picture is already late, but not in `sleep`.
- *Video.* Six columns are the fewest for a line with two half bytes and a whole one between
  them. Copies have bit 6, a scroll, both, or neither, and come from the page that is shown
  last or next; `PageIds` has one that means nothing. The shapes have slanted edges on both
  sides, a flat pair in the middle (`h == 0`), and lie across all four borders. Two
  instructions let one see what the other left (what page 0 has, a copy of what was drawn).
  The shapes satisfy `ShapesAssumption`, which is the commented-out assertion of
  `readVertices` and the equal heights that `fillPolygon` takes for granted, and with the
  zooms `TableAssumption`: `calcStep` looks a quotient up by the height of an edge, and does
  not see the end of the table. The run may stop, as `MaxInstructions` is spent: hence
  `CHECK_DEADLOCK FALSE`.

Fairness. The program is a loop that nothing can hold up, and so its own steps
are weakly fair. `vm_threads_live` also assumes that a slice ends (`Release`):
`hostFrame` says that a thread must feature a break, and nothing enforces it; the
strong fairness of `EndFrame` in `FrameLoop` is the same assumption, for a script
that goes on showing pictures. The tick is weakly fair, as the timer is continuous.
The player is never fair: `GameGoesOn` holds unless Start is held, or left
alone, for ever. `loadMarkedAsNeeded` is weakly fair (`GameSpec`), as it is a loop of
the main program. A timer goes off again and again, and what it calls comes to an end:
hence `HandleEvents` in `Music`, and `BeginMix` and the steps of the callback in
`AudioOut`, where the audio interface plays what it has been given, too.

Every property of a passing run has a mutant in its module, a definition named
`X_...` beside the definition `X` it could replace, under which TLC finds that
property violated (`mutants` in `PROJECT.json`). The type invariants, and some invariants
that others rest on, are not among the runs' properties but proved (4).

## 4. The theorems

**`VmThreadsProofs`.** For any number of threads, any size of the code and any script:
`TypeCorrect`, `FrameComplete`, `StackOfTheSlice`, `Isolation`, `Returns`,
`PartsBeginClean`, and `Refinement`, that `VmThreads` implements `FrameScheduler`. The hypothesis is
`ShallowCalls`: calls are nested no deeper than `_scriptStackCalls` has cells. It
is needed: the run `vm_stack_spill` shows what happens otherwise. The invariant
`IndInv` adds to the properties that a thread behind the loop index still has the
program counter and the freeze it had when the frame began, that a thread is in a
slice only if it could run, and that the stack is below its end. The refinement
goes action by action: instructions that only move `scriptPc` stutter, and so
does `SkipThread`, which skips no thread of the abstract `todo`. `JumpsAreKept` is
what `JumpsAreMade` says without fairness: a jump that is due when the frame begins
(`JumpDue`) stays due, for its target, until the thread runs from there, and the frame
does not end before.

**`GameProofs`.** For any memlist, of the resource manager alone: `TypeCorrect`,
`LoadedStaysIntact` and `NothingLeaks`; and, if every part fits in the memory (`PartsFit`),
`SegmentsStayIntact` and `ImplementsStore`, the refinement of `ResourceStore`. The invariant
is that blocks are disjoint, lie below `_scriptCurPtr`, and fill what is below it, that the
mark separates the types that a release keeps from the others, and, while a part is loaded,
that the room that is left is at least the sum of what is still marked, whence nothing of it
is dropped. The refinement needs that one, too: the promise to load the segments of a part
could not be kept if one were dropped. It goes action by action; what is only marked is not
yet in the store. `LoadingRunsOut` is `LoadingEnds` without fairness: while an entry is
marked there is one whose turn it is (`SomeIsNext`: of the entries with the highest rank,
the last), and each turn leaves fewer of them marked, or halts.

In the game, for any musics: `HeldStaysIntact`, that what the
channels and the music timer have pointers to is loaded and whole, also while the next part
is being loaded, unless a script has started a music over another one or without its being
loaded (`orphaned`): the timer of the first one is then lost, no release stops it, and it
reads what others have put there. Without such a start it rests on the same invariant: only
a release or a change of part makes room, and both stop the sounds and the music first. With
`PartsFit`: `GameImplementsStore`, that those who read from the block do not break the
promise of `ResourceStore`, and `ColoursFromPart`, that a picture is shown with colours
of the part that is played, although the request of the palette may be older. It
rests on `SegmentsIntact` and on the type of the segment, a palette of that part
(`GameAssumption`).

**`FrameLoopProofs`.** For any buttons, parts and times: `TypeCorrect` (`sleep`,
whose argument is unsigned, is never called with a time that has passed),
`InputFollowsController`, `OnePressOnePause` (from: a pause that is asked for comes
from a press without effect so far) and `PicturesStay` (from: what has been slept
and what remains make up the slices, at every stage).

**`SoundPlayerProofs`.** For any sounds, musics and channels: `TypeCorrect`; and, up to
the first start that is not as it should be (`~ unruly` in the properties),
`ReleasedIsSilent`, `NoTimerIsLost` and `TwiceOnlyLate`, even where effects and musics
share channels; and, if they do not (`Apart`), `ChannelsAreWhole`. Without `Apart` it
is false, as `sound_shared_channel` shows. The invariant says what is known of the
timer at each stage of the main program (`TimerInv`: none is left once a release
gets to the channels), that a music with a timer is loaded with its instruments
(`MusicInv`), and that the fields that `playChannel` has already written come from
something loaded, while a release has silenced the channels that it passed
(`ChannelInv`). The interrupts are treated once, by what they can do to a channel:
stop it, or put a note of the music on it (`InterruptEffect`).

Also there: `OrdersOfTheMusic`, for musics of up to the 128 orders of the table. The steps
of `Music` are steps of `SoundPlayer`, so that the invariant above holds; with it, while
there is a timer or there will be one, the order is one of the music that is loaded
(`PositionInv`). Also these are about behaviours without an unruly start. That a music is
begun within its orders is `MusicAssumption`. `MusicGetsOn`: each call of `handleEvents`
takes one of the rows that are left, or ends the music, and nothing else moves it.

**`AudioOutProofs`.** For buffers of any length: `MixingIsUnheard`. What has been handed
over and not yet played is nothing, the buffer that is not next, or both in turn, and
while samples are written it is at most one (`Alternate`). For any sounds, frequencies
and volumes: `TypeCorrect`. If no channel moves by more than a byte a sample
(`StepsOfAByte`): `ReadsStayInChunk`; without it this is false, as `mixer_fast` shows. If no
instrument is louder than 64 (`ModuleVolumes`, which holds of the files of modules):
`NothingClips`, and, with up to eight channels, `NothingWraps`, that the sample is
the sum of the channels times 32 and no more. The invariant (`ChannelsInv`) is
that what a channel plays is one of the sounds, its position on a multiple it can reach,
and its volume one that the effects leave. That sum is a fold over the set of the
channels; the bounds on it go by induction over the subsets (`SumExists`, `SumRange`):
the finite sets are well-founded by inclusion, and there a set of counterexamples
has a smallest element (`WFMin`). With `StepsOfAByte` there is also `SoundsPlayOut`: a sound without
a loop gets on by `chunkInc` with each sample and stops at its last byte, which it does
not step over, although `mix` looks for it by equality.

**`VariablesProofs`.** For words of any size, any scripts and buttons: `LoopsRunAsCounted`,
`JumpsKeepOrder`, `EverybodyPasses` and `LettersComeOnce`, from the invariant that every
variable is a signed word (`VariablesInv`), which every instruction cuts its result to.
`EverybodyPasses` is about the comparisons that follow the first: the invariant is that
while `passing`, each symbol that was entered is equal to the right one. All of them have
been made so by the comparison of the first one, and nothing but an instruction that
writes one of them ends it: no music, no frame, no change of part, no input.

**`BankProofs`.** For any resources, damaged ones included: `BitsComeInOrder`. What is
left of a word, of which `n` bits have been taken, is the rest of its bits, moved down
by `n`, and one bit behind them (`Remaining`); that one alone means a new word.

For resources that are packed as `BankFormat` says: `RestoresPlainAlways`, that what is
unpacked is what is meant and that only damaged resources end in `error()`, and
`UnpacksInPlace`, that it goes on in the memory of the resource, over nothing that is
unread. The invariant (`UnpackInv`) is that there is a run such that

- its bits have been read up to some place in it (`ReadingInv`): the number that is being read
  is one that the run has at this stage, `code` is what its first bits spell, and
  `iBuf`, `chk` and `crc` are what reading so many bits makes of them (`BitsRead`);
- as many of its bytes have been written as `count` says, and `oBuf` and `datasize` are
  what that leaves (`WritingInv`);
- below `iBuf + 4` the memory still has the packed data, and above `oBuf` what is meant
  (`MemoryInv`).

`BitsRead` takes a bit of `crc` for the parity of the number of words that have it
(`ChecksumGrows`), so that `crc` is empty in the end just if the checksum holds
(`ChecksumAtEnd`). There is a lemma per action; those of `Literal` and `CopyByte` share
`PutStep`, where `LeavesRoom` is needed, and `EndStep`, which goes on to the next run. What
a number of `n` bits is goes bit by bit, up to the twelve that the longest has
(`SpellingGrows`, `CodeIs`).

`UnpackEnds`: nothing bounds the loops of `unpack` and `getCode`, but each step makes
`LeftToDo` smaller, which adds up bits, bytes and the steps between them and is never
negative; and no number turns up that no branch is there for (`Understood`). That is all
of the termination of `unpack` but for the fairness. `OneWrongBit`: the checksum does
not hold if one bit of one word, the checksum included, is wrong. So the assumption about
damaged resources is true of each such bit, unless it changes the runs.

**`VideoProofs`.** For pages of any size and any shapes, texts and pictures: `TypeCorrect`,
that pages keep to the colours in use. As bytes from outside of the pages have no
colours, this says that no line, point or copy reads one, whatever is clipped or
scrolled. The invariant says of the polygon that is being filled (`FillInv`) that
it has as many edges left as `n` says, which are taken from both ends of its points,
so that each has its two points, and that the row is not below the page.
And `NeighboursMeet`, for edges up to a size (`SmallEdges`): a row's ends, in 16 bits,
are those of the vertices whenever a pair of edges ends. Here the invariant
(`EdgesInv`) says at every row where the edge would be after the rows that are left, if
all their steps were added up; that it is the vertex, by less than half a pixel, is
`StepsAddUp`, and that both edges have the same height comes of the points in pairs
(`Facing`). `FillingRunsOut`: every turn of the two loops of `fillPolygon` leaves
fewer points, or as many and fewer rows, though the number of points is counted down in
eight bits to just zero. The text of `drawString` is a fold over its characters; that the pages keep
their type from one to the next is again an induction over subsets (`WritingExists`,
`PenSteps`).

Also there: `DrawsOnScreen`, that `Video` implements `Screen`, each instruction with its
operands, for pages of up to 510 columns, as a line counts its bytes in 8 bits, and for texts
whose places fit in 16 bits (`ShortTexts`). All of it comes down to where a pixel is: pixels
of different pages, rows or bytes have different addresses (`PixelAt`), so that a step that
paints half bytes paints just the pixels that they hold. Then there is a lemma for each way
to write. A row: which columns are left of those between the edges when it is clipped
(`ClippedRow`), how many bytes that is (`SpanCount`), and which pixels the two half bytes and
the bytes between them hold (`SpanBytes`). A copy: rows that are copied (`CopiedRows`), which
is the shift that was asked for (`ShiftIsStep`) or, of a page within itself, at least nothing
else (`SmearIsStep`). A picture: bytes that come of four planes (`HalfPlanes`). A text: the
rows of a character (`InChar`), what the pen has written after `k` characters, and where
it is then (`PenMoves`).

Only model-checked: all liveness and everything that needs fairness, which is out of the
reach of the prover. What of it is safety, that each step of a loop leaves less to be done
and that nothing leads away from what is due, is proved of the threads, the loading, the
unpacking, the musics, the sounds and the filling (the theorems above that no run checks).
It is not proved of `GameGoesOn`, whose script may show any number of pictures before it
ends its turn, nor of groups of shapes, whose depth is induction over data. Every invariant
of the runs that pass is proved, too, and every action property and refinement. Nothing is
assumed but the named `ASSUME`s, which TLC evaluates on every instance, and the hypotheses
that are in the statements: `ShallowCalls`, `PartsFit`, `Apart`, `StepsOfAByte`,
`ModuleVolumes`, `NumChannels <= 8`, `W <= 510` and `ShortTexts`; and those that are in the
properties themselves: `~ unruly` and `~ orphaned`, that scripts start musics as they
should, and `SmallEdges`.

## 5. What the program does that its comments do not say

Each of these has a run that must find the violation (`findings`):

- `op_call` stores up to 256 return addresses in an array of 64
  (`vm_stack_spill`): the one after the last is the program counter of thread 0,
  which so moves in the middle of a slice.
- `playChannel` is not synchronised with anything, although `main.cpp` demands it
  (`sound_shared_channel`): on a channel that effects and music share, a note
  between two of its writes leaves a channel with the fields of two sounds. In
  the same window `mix` can end the new sound with the length of the old one.
- `mix` ends a sound without a loop where the index is equal to that of its last byte, but
  moves by up to three bytes (`mixer_fast`): it steps over it, does not stop the channel,
  and reads behind the sound. The end of a loop is looked for in the same way.

Also, without a run: `op_playMusic` starts a timer whether or not a music plays already and
whether or not one was loaded, and `stop()` removes the last one only; at the end of a loop
`mix` sets a position in 1/256 of a byte to one in bytes (`mixer.cpp:115`), so that the loop
begins near the start of the sound; it puts the sample for the two sides together from a
number that may be negative (`mixer.cpp:149-150`), and one side is then -1; `bank.cpp` has
the assertion `_oBuf >= _iBuf`, commented out, which three bytes more would make strong
enough, as the next word to be read has four; `main.cpp` says that one call and return is
possible, but calls nest; `resource.cpp` says that what is marked is loaded, but what does
not fit, has no bank or is a picture is not; `sleep` and the tick say 1 ms, the tick is 10
ms long.

## 6. What is not modelled

- *Save states*: `Serializer::saveOrLoadEntries` is empty in this port, and
  nothing sets `input.save` or `input.load`.
- *Files, endianness, `main`, tables*: I/O and data. Tables appear as constants.
- *Time in the music* (`_delay`): rows only follow each other. `op_playMusic` can change
  `_delay` while a music plays, but it is only looked at when the timer is created.
- *removeTimer* frees what the callback is passed before it deletes the timer; the
  removal is one step of `SoundPlayer`, so that an interrupt in between is not seen.
- *Display buffers and bits of colours*: `display_lock` and the conversion of pixels
  (`sysImplementation.cpp`), and the 12 bits of a colour in `changePal`. `copyRect`
  copies a page to the display.
- *Damaged banks*: only bits of bytes that are stored as they are. A damaged header of a
  run may lead the unpacking out of its memory, and nothing prevents it. The same
  is true of a resource whose first bytes are packed in too short a run: what is
  unpacked then overtakes what is to be read. The packer must have seen to it.
- *Variables* that the engine only sets to constants (0xDC, 0xE4, 0xF7), shifts by
  32 and more, which the language leaves undefined, and, in `Variables`, the scans
  of the pause loop, which are in `FrameLoop`.
- *Resources of type 7* are in `ResourceMem`, but not in the instance of `game`.
- *Segment 2 of a part that has none*: the pointer of the part before stays; the
  scripts do not use it.
- *What scripts never do*: a channel above 3, a thread above 63, an id that is the number
  of entries.
- *After a music was started over another one, or without being loaded*, the models go on,
  but no property speaks of what the lost timer reads. That it may interrupt
  `loadSfxModule` is left out; `_sfxMod` is taken to be anything before the first music.
- *The read pointer of the shapes*: members of groups are identifiers, so that it is
  not seen to come back after each of them. *Writes behind the four pages* have no place in
  the model.

## 7. Plan

All parts of the program that decide something are modelled, and all that the runs check
of safety is proved. What is left: the hazards in `PROJECT.json` that no property
covers. The sound after a loop (`mixer.cpp:115`) and the order in `removeTimer` would need
a finer model of the sound, the shared read pointer one of the bytes of the shapes; parts
that do not fit, a part without its second segment and an odd number of points depend on
data that the code takes for granted.
