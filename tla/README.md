# A TLA+ model of jpr-mc

jpr-mc is a mod for the Bedrock edition of Minecraft as the Linux and macOS launchers run
it: a shared library that is loaded into the game's process, hooks the function that is
called when the player is hurt, and reacts with a press of the jump key that looks like a
person's.  This directory models it in TLA+, checks the models with TLC and proves with
TLAPS every safety property of the run time and its threads, of the reload and the
settings, of the signatures and of the hooks, both decoders and the pattern parser
included.

`PROJECT.json` lists the runs, the faults each property is known to catch
(operators marked `Fault:` in the modules), the source lines behind every
definition, the hazards of the code and the theorems.

## 1. The system

### Components, their state and their operations

| Component | State | Operations | Modelled in |
|---|---|---|---|
| **AutoJumpReset** (`modules/auto_jump_reset.cpp`), the one module there is | the settings; `active_`, `holding_`, `heldKey_`, `pressesLeft_`, `nextActionAt_`, `cooldownUntil_`, debug key and auto-fire state | `settings()`, `onConfigured()`, `onLocalPlayerHurt()`, `onTick()` with `pollDebugKey()`, `abortSequence()` | `AutoJumpReset`, `SequenceRaces` |
| **Key queue** (`keyboard.cpp`) | `gPending`, `gHeld`, `gMode`, the game's `Keyboard` objects | `press()`, `release()`, `flush()`, `releaseAll()`, `setInjectMode()`, `gameKeyDown()`, `ready()` | `Keyboard`, `KeyChannel`, `TickThreads` |
| **GameActivity backend** (`keyboard_gameactivity.cpp`) | the captured activity and its callbacks table | `onCreateHook()`, `live()`, `send()` | `Keyboard`, `Heartbeat` |
| **Tick sources** (`tick.cpp`, `game_window_api.cpp`) | `gRunning`, `gGameThreadSource`, the timer thread, `gFrameLive` | `start()`, `timerLoop()`, `pump()`, `onSwapBuffers()`, `stop()` | `Heartbeat`, `TickThreads` |
| **Configuration file** (`config.cpp`, `Config`) | `root_`, `lastModified_`, `loaded_`, and jpr.json on disk | `load()`, `reloadIfChanged()` | `ConfigReload` |
| **Setting binding** (`config.cpp`, `SettingSet`; `module.cpp`) | the bound members, the claimed names | `boolean()`, `integer()`, `chance()`, `range()`, `key()`, `choice()`, the unknown names | `SettingBinding`, `KeyNames` |
| **Key names** (`keycodes.cpp`, `game_activity_abi.h`) | none | `parseKeyName()`, `keyName()`, `androidKeyCode()` | `KeyNames` |
| **Signatures** (`signatures.cpp`, `game_hooks.cpp`) | the targets and the addresses they resolved to; which hooks are in | `load()`, `parse()`, `resolveAll()`, `installHooks()` | `SignatureTargets` |
| **Scanner** (`sigscan.cpp`) | none | `parsePattern()`, `scan()`, `countMatches()` | `SigScan` |
| **JSON** (`json.cpp`) | none | `parse()`, `find()`, `set()`, `dump()` | `JsonText`, `JsonEdits` |
| **Status file** (`status.cpp`) | the counters, `gPhase`, `gLastWrite`, the file | `markLoaded()`, `count…()`, `writeThrottled()`, `write()` | `StatusReport` |
| **Inline hooks** (`inline_hook.cpp`, `removeHooks()`) | the patched bytes, the trampolines, `gInstalled` | `install()`, `removeAll()` | `InlineHook` (life cycle), `Trampoline` (what is moved) |
| **Decoders** (`inline_hook_x86_64.cpp`, `inline_hook_aarch64.cpp`) | none | `decode()`, `relocate()` | `X86Decode`, `A64Decode`, `Trampoline` |

### How they interact

`mod_init()` loads the config, resolves the signatures, installs the hooks and
starts the ticks.  From then on three kinds of thread enter the mod:

* the **timer thread** runs `pump()` every few milliseconds until a game thread
  source has shown up;
* the **game thread** enters through the damage hook (`emit()` calls
  `onLocalPlayerHurt()`), through the hooked `game_tick` or through the
  launcher's per-frame callback (both run `pump()`);
* the thread that unloads the library runs `shutdown()`: `tick::stop()`,
  `keyboard::releaseAll()`, `removeHooks()`.

`pump()` re-reads jpr.json when its time stamp changed and rebinds every setting,
hands over what the last tick queued, ticks the module and, on the game thread
only, hands over what this tick queued as well.  `flush()` takes the queue under
`gMutex` and delivers it outside of it.  The fields of the module have no lock.
An editor may touch jpr.json at any moment, and the player's fingers share the
game's key states with the mod.

### What is hard

A key that stays down in the game is the failure this program must not have, and
many things can cause it: a reload in the middle of a hold, a hit in the middle of
a hold, an activity that comes and goes, two threads that deliver, a shutdown.
Next come the patching of running code (trampolines, threads in them, failed
restores, instructions measured wrongly), a file edited while it is read, and the
many forms a hand-written setting may take.  `PROJECT.json` has all hazards, each
at its line, with the properties that are about it.

## 2. The modules

### Heartbeat, AutoJumpReset, Keyboard: the mod at run time

`Keyboard` is `keyboard.cpp` and its GameActivity backend as operators on a record
`kb`: `held` (`gHeld`), `pending` (`gPending`), `mode`, the captured callbacks, and
what the game was told (`states`, `events`).  `AutoJumpReset` adds the record `seq`
with the sequence fields, and the handlers as operators from a world `[seq, kb]` to
a world or a set of worlds (draws within a range are choices).  Deadlines are kept
as the time that is left until them; a time that only has to be "long enough" stops
at `MaxAge`.

`Heartbeat` is the state machine over them: `TimerPump` and `GamePump` are one whole
`pump()` each (reload, `onConfigured()`, flush, tick, second flush on the game
thread), and may take up to `MaxLag`; `Hurt` is the damage hook, `OnCreate` the
captured activity, `PlayerKey` a finger, `Shutdown` what `shutdown()` does to the
queue, `Elapse` the clock.  `heartbeat_frames` leaves out of `Next` what its constants
rule out (`FramesNext`).  A reload may bring any of `Configs` at any pump.
What is pending has no bound in the code; `MayPump` stops the ticks at `MaxPending`
as long as the game is out of reach, and never otherwise.
Handlers are atomic here; the next modules but one take that apart.

### StatusReport: what status.txt says of it

`StatusReport` composes `Heartbeat` with `status.cpp`: the mod from `mod_preinit()` on,
each action of `Heartbeat` joined by what it adds to the counters and, for a pump, by
`writeThrottled()`.  Of the file it keeps the advice under WHAT TO CHECK, of the
counters whether they are nought, which is all the advice looks at.

### TickThreads and KeyChannel: the queue between threads

`TickThreads` gives the timer thread, the game thread and the thread in `stop()` a
program counter each.  `flush()` asks whether the game can be reached, and returns if
not; takes the batch under `gMutex`; and hands it over outside, where `send()` asks once
more.  The game is reached by exported objects, by an activity that is captured some time
or never, or by one that may be lost again at any step.  What a reload, a synthetic hit
and the tick ask of the key, in this order, is arbitrary, so that it holds for any module.
Nothing in the code bounds the queue while the game is out of reach; in the model the mod
asks for no more from `MaxPending` on, and only then.  `KeyChannel` is the abstract
specification: presses and releases alternate, each reaches the game exactly once if it
listens at that moment, and in order as long as one thread at a time hands over.  The
property `InOrder` says that `TickThreads` implements it, with the three batches and
`gPending` laid end to end as the channel's contents.

### SequenceRaces: the sequence fields between threads

With the damage hook in and the timer as tick source, `onLocalPlayerHurt()` runs on the
game thread while `onConfigured()` and `onTick()` run on the timer thread. `SequenceRaces`
has one step per read or write of a shared field: the draw, the clamp and the count-down
of `pressesLeft_` are two or three each, and `abortSequence()`, which a hit, a reload and
a synthetic hit of `pollDebugKey()` call, is six.  Which of the two debug settings makes
that hit is left open.  The interleavings are those of a sequentially consistent machine:
what a compiler or a weaker memory may add to this data race is outside of it.

### ConfigReload, SettingBinding, KeyNames: settings

`ConfigReload` has one step per system call of `load()` and `reloadIfChanged()`, and an
editor that saves, truncates, finishes or removes the file between any two.  The template
the mod writes may be cut short or not written at all, two writers may leave a mixture,
and in some starts (`opens`) a file that is there may fail to open at any try, which
`load()` takes for no file.  What a text says is the constant `Reading`, of which it
assumes that a part of a document that parses says what the whole does
(`PartsAssumption`). `MCConfigReload` gives it what `JsonText`, the parser, makes of real
texts, and TLC checks the assumption of them. `SettingBinding` is one binding pass after
the other over a section that is edited in between, one setting of each kind; numbers are
hundredths.  `KeyNames` has the three tables of key codes; a name is a word's place in the
table, or a letter, digit, function key or numeral with its number.

### JsonText and JsonEdits: the text of the file

`JsonText` is `json.cpp` on sequences of bytes: a recursive-descent parser as operators
from a place in the text to the place behind, the writer, `find()` and `set()`.  A
number is a decimal, its digits and its exponent.  `JsonEdits` holds it to its promise:
it starts from the tokens of a document as RFC 8259 spells it, which knows nothing of
the parser, and lets an editor put comments between them, trail commas, spell strings
and numbers in other ways and repeat a name.

### SignatureTargets and SigScan: finding the game's functions

`SignatureTargets` chooses the file, keeps the targets that can be looked for,
resolves each by symbol or by pattern, and installs what `installHooks()` installs.
`SigScan` has `parsePattern()` and the scanner as operators next to the set of matches
they are held to.  An entry of a file carries what its author means by the pattern next
to how it is spelt; only the properties look at that.

### InlineHook, Trampoline, X86Decode, A64Decode: patching code

`InlineHook` is the life of the hooks against calls of the game's threads, with
restores that may fail.  `Trampoline` is `install()` from the point of view of the
instructions it moves, for both architectures: addresses are small integers and an
immediate reaches 16 or 8 bytes where the machines' reach 2^31 and 2^20, and the
x86-64 jump of 14 bytes is that long while the AArch64 one is scaled to 8.  AArch64
immediates are counted as the encodings count them (words for LDR, pages for ADRP)
and put back through `signExtend()`.  `X86Decode` is the byte-wise decoder, as
operators; `Trampoline` measures instructions with it that were put together part by
part, so that their length, and whether and where they have a relative operand, is
known without it.  `A64Decode` has the masks of the AArch64 one over the first byte of a
word, next to what the Arm manual has in that byte, and the immediates as they are split,
signed and written back.

## 3. What is checked

Every property has at least one fault, a plausible slip in the code, that TLC finds
it to be violated by.

| Run | Shows | Bounds, and why they are enough |
|---|---|---|
| `heartbeat_frames` | Ticks on the game thread with exported `Keyboard` objects: holds belong to a sequence, the game follows the queue in all three inject modes, press and release never share a frame, a key stays down at least `hold_ms` less what one pump takes; every sequence ends | seven configs one edit apart, one of them with the jump key as its own trigger, so that every reload of two consecutive pumps switches off, renames the key or changes the mode in mid-hold; ranges that let two presses follow each other; `MaxAge` above every deadline |
| `status_activity` | The GameActivity backend from the entry points on, the timer first and frames later, player and trigger keys, `cancel_on_new_hit`, auto fire: no key stuck in the game, shutdown lets go; the report is brought up to date again and again; auto fire gets presses to a game that stays in reach, and the report to say so | two configs that a reload may swap at any pump; activities without callbacks and with both, so that one is captured late, lost and captured again; one transition pending per key when a pump starts out of reach; a write is due after two units, a pump comes at any time |
| `threads` | The channel refinement; the queue stays short while the game is in reach; `stop()` returns, with the key up where no frames go on and the activity is kept; the timer stands down | one key (the threads never relate two); nine starts: timer alone with shutdown, game thread alone by both entries, takeover, frames that go on during a shutdown, and the first three over an activity that is captured late or lost again; four pending transitions, one more than there ever are in reach |
| `takeover_stuck_key` | **violated**: the frame callback takes over under a running timer and a key stays down | as above |
| `races` | Unlocked fields: with the file left alone a held key belongs to the running sequence, and that has a press left; with edits the module still finishes | two keys, two presses, so that a count-down can lose one; both values of `cancel_on_new_hit` and of the debug settings with the file left alone, an edited file with cancelling hits: two million states |
| `config_watch` | Settings once loaded give way only to what the text at hand says, and come from a whole document; no endless reloading; edits by a patient editor take effect where the file opens | three edits and four seconds: an edit, one inside the load that follows, and one after it; two good documents and one that is only good at its beginning, cut in a comment, a string, a number and behind a value |
| `config_lost_edit` | **violated**: an edit may never be loaded | two edits in two seconds suffice |
| `settings_bind` | Usable values whatever the file says; removed lines go back to the default; no two key codes share an Android key, and names read back as their code, digits excepted | any two edits, among values at and beyond every end of every range and of every wrong type, every word of the key table |
| `targets` | Hooks go in exactly when their own target is located and `install()` takes it, but for the one on every mob, which needs a way to tell the player; the scanner finds the occurrence asked for | any subset of five targets in misleading forms; the patterns of four bytes with up to two wildcards, four being the fewest the code takes, in every text of seven over two byte values: overlaps, the last position, more matches than are counted all occur; each of them in five styles of writing, and what is no pattern |
| `hooks` | A patched function always has its trampoline; everything is put back; a call finds its trampoline while the mod runs, and none is skipped before the mod is gone | the three functions that are hooked and two threads |
| `trampoline` | Copies mean what the originals meant, only whole instructions are moved, refusals leak nothing | every opcode of the one- and two-byte maps as the first instruction, with no prefix, 66, F3 and 2E 66, with and without REX and REX.W, with every form of ModRM and SIB; every first byte of an AArch64 word with every immediate of the scaled width; distances at and beyond every limit |
| `json` | Hand edits are read as what the document means; a document that lost a bracket or was cut short is refused; what is written reads back | four documents (the config's shape, every escape and bytes beyond ASCII, numbers of every form, empty and nested lists) and any two edits of each; of the cuts, every one |

`CHECK_DEADLOCK FALSE` is set in `config_*` (edits and seconds are bounded), and in
`targets`, `trampoline` and `json` (one resolution and one installation per behaviour,
and a bounded number of edits: there is an end).  In every other run a deadlock would be
reported.

### Fairness

* `Heartbeat`: weak fairness of the timer's pump while it is the source, of the game
  thread's once it is, and of time.  The timer loop never blocks longer than its
  interval; a game that renders calls the callback every frame.  A game that stops
  rendering after it took over breaks this, and with it `SequenceEnds`: nothing in the
  code hands the ticking back.
* `StatusReport`: the same, and `mod_init()` gets to its end.  `ReportKeptCurrent` is
  claimed while the mod runs; `AutoFireShows` of a module with auto fire and a chance of
  100 that does not cancel (with `cancel_on_new_hit` hits that come close together keep
  the press from ever coming), once the game stays in reach.
* `TickThreads`: each thread goes on with what it has begun.  Frames and hits need
  never come.
* `SequenceRaces`: the timer goes on, a hit that began is dealt with, deadlines pass.
  `SequenceEnds` is claimed once hits stop.
* `ConfigReload`: the mod's next system call happens, and a save that truncated the
  file is finished.

## 4. What is proved

`HeartbeatProofs` proves of `Heartbeat!Spec`, for every set of keys, every set of
configs and ranges, any backend, any tick source and any bound:

* `TypeCorrect`: `Spec => []TypeOK`;
* `HoldsAreAccountedFor`: `Spec => []HeldBySequence`, the answer to "may the mod
  forget a key it pressed?";
* `NoKeyIsLeftDown` and `ShutdownLeavesKeysUp`: `[]NoStuckKey` and `ShutdownLetsGo`,
  as long as no activity takes presses alone (`WholeActivities`; 5 of section 5 is what
  happens then);
* `GameFollowsQueue`: `[]GameAgrees`, if besides the game can be told of every key
  of the mod (`Told`: the exported objects take all of them, an activity those with an
  Android code).

`HeldBySequence` is not inductive.  A release only reaches `gHeld` for a key that
`queue()` lets through, so the invariant must say that a held key is injectable; and
the clean-up of a mode change must not disturb what the sequence believes.
`WorldInv` therefore is: the world is well typed; each held key is injectable and
is the one the running sequence holds (`HoldInv`); each key of the mod is seen by the
game as it is once its pending transitions have been delivered, or the game was never
told anything of it (`AgreeInv`, from `Tracks`); an active sequence has a press left.
It is stated of a world `[seq, kb]`, not of the variables: each handler gets a lemma
that it preserves `WorldInv`, and an action, which composes handlers, follows from these
(`PumpedPreserves` chains reload, flush, tick and flush).  The lemmas before it are about
the queue alone: what `Queue`, `Flush`, `ReleaseAll` and `SetInjectMode` do to the type,
to `held` and to agreement.  An activity that is lost keeps what it last heard, which is
why agreement is of the queue's end and not of the present.

The later sections of the module are about whole handlers:

* `CooldownIsFull`: `Spec => []CooldownStartsAtTheEnd` if no config sets
  `cancel_on_new_hit` (`NoneCancels`).  Within a handler the cooldown may be armed at the
  instant the sequence ends, so the invariant is one of the middle of a handler,
  `Cooled(w, late)`: the cooldown of an active sequence is over by `late`, the instant the
  handler was entered at.
* `FramesStayApart`: `Spec => []NoCollapse` with exported objects and `game_tick` hooked
  (`Framed`).  Up to the tick a pump only lets keys go; the tick presses once at most; the
  second flush hands that press over before anything can be queued behind it.  Without
  that flush, on the timer, the property is false (3 of section 5).
* `HoldsAreHonoured`: `Spec => HoldHonoured`, where moreover no config cancels and all ask
  for the same shortest hold, no longer than `MaxAge` counts (`Steady`; a reload that asks
  for a longer one comes too late for a key already down).  The invariant relates
  the clock of the game to the module's: the time since the last press was handed over
  and what is left of the hold make up `hold.min` less `MaxLag` (`LongEnough`), between pumps nothing is
  queued, and mode and key are those of the settings (`Follows`).  The press reaches the
  game at the end of the pump that read the clock, hence the `MaxLag` (22 of section 5).
* `ReportedRunsLetGo`: `NoStuckKey` and `ShutdownLetsGo` for the mod with its report, from
  the entry points on.

`ConfigReloadProofs` proves of `ConfigReload!Spec`, for any documents, any beginnings of
them a reader may get, any clock and any number of edits:

* `TypeCorrect`: `Spec => []TypeOK`, which includes that `load()` never parses a text it
  did not get;
* `SettingsSurvive`: `Spec => LastGoodKept`;
* `PatientEditsAreNotMissed`: `Spec => [](patient /\ opens => InForce)`, the safety half of
  `PatientEditsTakeEffect`: a good file whose time stamp the mod takes for read is the one
  the modules are configured from.  Between the steps of a load it needs what
  `Undisturbed` says of each: what is about to be parsed is the file or the template.
  That the pump gets around to a file not yet read is liveness, and TLC's.

That `root_` comes from a document that was meant is not inductive: a text may be on disk, half
written or in `load()`'s hands long before it comes into force.  `Accounted` says of each
of these that it is the whole or the beginning of a document that was meant, or no JSON;
what such a text brings into force is then what that document `Says`, for a document
that parses by `PartsAssumption`.

`InlineHookProofs` proves of `InlineHook!Spec`, for any set of hooks and of threads:
`TypeCorrect`, `NoJumpIntoNothing` (`JumpsLeadSomewhere`), `AllIsPutBack` (`PutBack`) and
`CallsReachTheGame` (`CallsGoThrough`): whatever calls the removal meets, none is skipped
before the mod is gone.  What makes them inductive is where a removal stands and what each
call relies on (`SafeCall`: in a replacement, its pointer; in a trampoline, that there is
one).  Where pages can be written, the batch `removeAll()` works through holds every
hook that still has a trampoline, and the head of the batch has its own code again
before its trampoline goes.

`TickThreadsProofs` proves of `TickThreads!Spec`, for any set of starts of which none is
taken over by a late frame callback and none shuts down a game thread that ticks
(`OneSource`):

* `QueueIsAChannel`: `Spec => InOrder`, the refinement of `KeyChannel`;
* `OneSourceLeavesNoKeyDown`: `[]NothingLeftDown`, the property `takeover_stuck_key`
  violates where the condition fails, if besides an activity is kept once captured;
* `TypeCorrect`: `[]TypeOK`, with its bound of three pending transitions while the game is
  in reach.

The argument is `Alone`: whoever is about to take a batch, or hands one over, is the only
thread that has one, although no lock says so; it follows from where the threads can be
(`Apart`).  Then what is underway is that one batch and what is pending; taking a batch is
a stutter of the channel, a hand-over its `Arrive`, `queue()` its `Ask`.

`SequenceRacesProofs` proves of `SequenceRaces!Spec` `TypeCorrect` and
`NoHoldWithoutSequence` (`[]HeldBySequence`) for any keys, presses and files.  Its
invariant `Kept` says who keeps a running sequence while a hit takes it down and starts
it again: only the tick ends one for good, after its own release, and a hit that clears
`active_` is about to set it.  `PressLeft` says who will look at `pressesLeft_` next when
it is nought: whoever wrote it last has still to clamp it or to end the sequence.  Both
are of a file that is left alone: an abort of a reload on its way through can leave a
running sequence with `pressesLeft_` at 0, which then plays one press.

`SettingBindingProofs` proves of `SettingBinding!Spec`, for any settings a module may
describe and any values the file may have for them: `TypeCorrect`, `PassFollowsTheFile`
(`FollowsTheFile`) and `CodesKeepTheirNames` (`[]CodesAndNamesAgree`).  A pass binds one
setting after the other, so the invariant says that those before `next` already hold what
the section of this pass says (`Follows`); the rest is arithmetic of clamping and
ordering, and a walk through the three key tables.

`SignatureTargetsProofs` proves of `SigScan` that `scan()` returns the occurrence it was
asked for, for every text and every pattern of bytes and wildcards
(`ScanFindsTheOccurrence`), and of `SignatureTargets!Spec`, for any pair of files and any
exported symbols: `TypeCorrect`, `OnlyThePlayersDamageIsSeen` (`OnlyThePlayersDamage`),
`EveryTargetForItself` (`TargetsStandAlone`) and `TheOccurrenceIsFound`
(`FindsTheOccurrence`).  Its invariant follows the phases: what has been kept is the usable
entries up to the place `parse()` has reached, the first of each name (`Kept`); the resolved
ones are a prefix, each as its own entry says (`ResolvedInOrder`); a hook is in, or
refused, or its phase is still to come (`HooksInv`).  `TheOccurrenceIsFound` supposes that
the parser reads each pattern as its author meant it (`ReadAsMeant`), and the rest of the
module that it does.  A pattern is written in words: a blank, `\x` or `0x`, `?` or `??`, two
hexadecimal digits; each means a symbol or nothing.  `PatternsReadAsWritten` says that
`parsePattern()` makes of any words joined what they mean, in any order and mixture, and
`NoPatternIsRefused` that it gives up where no word lies, however many lie in front.  Both
ask that a single `?` is not followed at once by another (20 of section 5).  The induction is
from the last word to the first (`WordsAreRead`), with the rest of the spelling read as
`ParsedFrom` has it; one word is `WordIsRead`.  `OnlyWordsAreTaken` closes the circle: words
can be found in any text up to its end or up to where none lies (`OneMoreWord`,
`WordsGoSomewhere`), so what is taken at all is what some words mean.  `WhatIsWrittenIsFound` is
`TheOccurrenceIsFound` from the words alone (`WrittenAsMeant`).

`TrampolineProofs` proves of `Trampoline!Spec`, for any architecture, reach, page size,
prologue and choice of `mmap()`: `TypeCorrect`, `ARefusalLeavesNothing` (`NothingLeaks`)
and, where the decoder is right about the instructions it is given (`DecodedRight`),
`WholeInstructionsMove` (`WholeInstructions`) and `CopiesMeanTheSame` (`OperandsKept`).  The
invariant (`Typed`, `Measured`, `Mapped`, `Copied`) says that what was measured is the sum
of the lengths, that it was not enough before the last instruction, and that each copy
so far is the original re-based from where it stood and within its field.  For x86-64 the
hypothesis is then proved: `DecodeIsRight` says of every instruction put together from
any number of prefixes, any REX, any opcode of the three maps, any ModRM, SIB and tail that
`decode()` measures it right exactly if it is `Charted` (11 of section 5), finds its
RIP-relative displacement where it is, and lets no relative branch through.  It goes from
the bytes to the fields they are made of (`DecodeSees`), from there to one row of the tables
per kind of opcode (`RowIs`, `AddressingIs`) and to the answer (`AnswerIs`).
For AArch64
`A64DecodeIsRight` says of every word of Armv8.0 that the masks tell branches, ADR, ADRP and
literals from all the rest and that the immediate is read as the number it stands for, and
`CopiesAreWritten` that the word `relocate()` writes is the same instruction on the same
register with the immediate `Trampoline` gives it: the immediates of `Encoded` are those of
words.  A mask is compared bit by bit (`BitsOf`), an immediate is a number in two's
complement (`SignedIs`).  `HookedCodeIsKept` puts these together: what is hooked, on either
architecture, is kept, with nothing supposed of the decoders.

Induction over data is done with the set of the numbers that satisfy the claim and the
least one outside of it (`ByInduction`), which the provers can follow; so what recursive
functions compute, `parsePattern` and `scan` among them, is proved.

Proving corrected the models where TLC, on its instances, could not tell: CASE
expressions whose arms overlapped, as code that returns early never does (`X86Decode`,
`JsonText`); key names of more digits or letters than there are; recursive operators where
a recursive function says the same.

What stays with TLC: liveness; `NoCollapse` and `HoldHonoured` on the GameActivity backend,
where the game need not be there to take a press, and with `cancel_on_new_hit`; the
channel under a takeover; and `JsonText` and `JsonEdits`, whose recursive operators are
beyond the prover.

## 5. Where code and documents part

Found while modelling.  Those with a run are in `PROJECT.json` as findings; the
others are in the models as the code has them, and the properties are stated for the
rest of the behaviours.

1. *Takeover* (`takeover_stuck_key`, `tick.cpp:45`).  The timer tests the source, then
   pumps; a first frame in between races it over the queue.
2. *Lost edit* (`config_lost_edit`, `config.cpp:385`).  The time stamp is taken after
   the read and in whole seconds.
3. On the timer a press and the release a reload adds can be in one flush:
   `tick.cpp:106-108` promises they never share a frame, but only the game thread
   flushes again after the tick.  `NoCollapse` is checked for the game thread.
4. Presses made while injection is not ready are delivered once it is, not "dropped"
   (`auto_jump_reset.cpp:104`, `keyboard.cpp:219`).
5. `live()` asks for `onKeyDown` only (`keyboard_gameactivity.cpp:77`): an activity
   without `onKeyUp` gets presses that are never released.
6. The cooldown is armed at the end of a sequence (`auto_jump_reset.cpp:164`), so a new
   hit restarts a running one however long `cooldown_ms` is, which the description of
   `cancel_on_new_hit` (`:53-55`) denies.
7. `load()` writes the template whenever the file cannot be read, not "on first run"
   (`config.h:94-95`, `config.cpp:359-361`): a file that is removed during a reload
   comes back.
8. `removeAll()` unmaps a trampoline at once (`inline_hook.cpp:201`), though a thread may
   be in it or on the way to it.
9. After a failed restore `removeHooks()` clears the pointer the still reachable
   replacement needs (`game_hooks.cpp:158-159`), and the game's function is skipped.
10. A tick between the lines that start a sequence (`auto_jump_reset.cpp:124-130`)
    presses the key of the one before; after a rename that key is let go by nobody.
    Hence the condition in `SequenceRaces!HeldBySequence`.
11. The decoder files EMMS, PINSRW, PEXTRW and SHUFPS a byte off, and ignores REX.W for an
    immediate that a 66 prefix shortened, instead of refusing.  `WholeInstructions` is stated
    for all the others (`Charted`).
12. An LDR literal is re-based like ADR and refused when out of reach; the header of
    `inline_hook_aarch64.cpp` says it becomes an absolute load.
13. "1" to "9" as key names are taken for the codes 1 to 9 before the digit line of
    `parseKeyName()` (`keycodes.cpp:64`) is reached: "8" is backspace, and the key that is
    reported as "8" does not read back, which `CodesAndNamesAgree` has as an exception;
    nor does "Every key name the config accepts must map to something real"
    (`tests.cpp:581`) hold of them.  Codes from 256 up parse and are never injected
    (`keyboard.cpp:58`), although `keycodes.h:6-7` calls that bit irrelevant.
14. A `damage_cause_offset` written as the signature files show it has neither symbol nor
    pattern and is dropped by `parse()` (`signatures.cpp:148`).
15. The damage hook goes in whether or not a module asks for it (`game_hooks.cpp:135`
    against `module.h:44-46`).
16. The advice "Presses are being queued and written" (`status.cpp:197`) looks at
    `gPressesQueued` only: with a key `androidKeyCode()` does not know, presses are queued
    and none is ever written.  `AutoFireShows` has both for a key that is known.
17. "The game has not started" (`status.cpp:184`) is also said of a game that replaced its
    activity by one whose callbacks table is empty.
18. `keyboard::init()` sets `gInitialised` before it looks for the game's library
    (`keyboard.cpp:101-107`): if that is missing the report says that no setting changes
    anything, not that startup failed, and a second `init()` never looks again.
19. With the jump key as `debug_trigger_key` and the exported objects, the module takes its
    own press for the player's (`auto_jump_reset.cpp:182-189`, `keyboard.cpp:203-208`).
    Without `cancel_on_new_hit` that is ignored, as `heartbeat_frames` has it; with it each
    press starts the sequence over, for ever, after a single hit.
20. The signature files say "Wildcards are ?? or ?", but two single ones with no blank between
    them are read as one (`sigscan.cpp:54`), and all behind them is looked for a byte early.
    The runs write a blank behind a single one.
21. `isBranchImmediate()` takes 0x54 for a B.cond only with bit 4 clear
    (`inline_hook_aarch64.cpp:35`).  Armv8.8 put BC.cond where it is set, so that "every branch
    form is rejected" (`:6-7`) holds of the words up to Armv8.7, which are those
    `A64Decode` is stated for.
22. A hold counts from the time the pump started with (`tick.cpp:95`,
    `auto_jump_reset.cpp:150`), but the press reaches the game with the flush at its end
    (`tick.cpp:117`), after a reload that may read and write files.  The key is seen down
    for `hold_ms` less what that pump took; `hold_ms` is "How long the key stays held".
23. `readFile()` does not tell a file that cannot be opened from none (`config.cpp:264-266`).
    `load()` then goes on with the template, writes it over the file if that opens by now,
    and notes the file's time stamp (`config.cpp:356-364`, `385`): the user's settings are
    not read until they are saved again.

## 6. What is not modelled

* The log, and the lines of the status file that print what other modules have.  A
  directory that takes no report: `write()` warns and goes on.
* Of a JSON number, digits beyond the ten the writer prints.
* The reference file `jpr.defaults.json`, except that what `dump()` writes reads back.
* The generator behind `Random`: draws are choices within the range that was asked for.
* `dlsym()`, `/proc/self/maps`, `mprotect()`: what they come to is a constant or a choice.
* Half-written jumps: hooks are installed before the game runs.
* The structure layouts `game_activity_abi_check.cpp` asserts: the compiler's business.
* Weak memory, for the data races of `SequenceRaces`.

## 7. Plan

Order of work: run time first (`Heartbeat`, then its threads), the settings that steer
it, then the hooks that feed it.  That is done.  To come, in this order:

1. `Random`: the clipping and rounding of `pick()`, exactly.
2. Key settings without an Android code in `status_activity`, once a run of its own can
   show what the advice makes of them (16 of section 5).
