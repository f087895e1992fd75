# winhookupp in TLA+

Models of winhookupp, a C++ library that hooks functions of a Windows process:
a call of a *target* is made to run a *detour*. The library has four hooking
methods behind one interface and a memory manager for executable buffers. This
directory holds the models, their TLC configurations and the proofs. Everything
is about the internal x64 build unless said otherwise.

## The system

| Part | State | Operations | What makes it correct |
|---|---|---|---|
| `Hook` (include/hook.h) | `enabled_` | `Enable`, `Disable`, destructor disables | a call made while the hook is enabled runs the detour, before and after it the target |
| `Int3Veh` (src/int3veh.cpp) | two maps shared by all objects under `g_mutex`; handler handle and installed flag without lock; first byte of each target | `Enable`, `Disable`, `VehHandler` | maps, code bytes and handler agree; original byte comes back; the handler outlives the last hook |
| `Veh` (src/veh.cpp) | map under a mutex of its own, handle, flag, page protections | `Enable`, `Disable`, `VehHandler` (redirects, re-arms the guards on single step) | a guard set on the pages with hooks, or a thread about to set it; no exception without a handler. (A failed `Enable` leaves its entry in the map) |
| `Trampoline` (src/trampoline.cpp) | per object: slot, relay, backup of the patched bytes | `Enable`, `Disable`, `CreateTrampolineFunction` | the moved instructions do what they did, the patch leads to the detour, `Disable` restores |
| `Vmt` (src/vmt.cpp) | per object: vtable, displacement, original entry | `Enable`, `Disable` | the entry patched is the one of the target, and gets back its value |
| `Memory` (src/memory.cpp) | list of blocks, free lists inside them | `AllocateBuffer`, `FreeBuffer`, `Read`, `Copy`, `Patch`, `IsCodePadding`, `IsExecutableAddress` | slots disjoint and near their origin; page protections come back |
| hde | none | disassembles one instruction | third-party, an input here |

How the parts meet: every hook kind calls `Memory` (a process-wide singleton) to
read and patch code; `Trampoline` takes its slots from it. The two exception
handlers are called by the system on the thread that trapped, whatever that
thread was doing, and take a lock the enabling threads take too. Two objects
meet in the process-wide maps and in the code bytes of a common target.

What is hard: threads run the code that is being patched; the handler runs
between any two instructions of `Enable` and `Disable`; part of the shared state
is outside the lock; several objects may share a target or a page and be
disabled in any order; calls fail half-way; and the building of a trampoline is
arithmetic at boundaries (2, 5, 14, 16, 50, 64 bytes).

## Modules

| Module | What it is |
|---|---|
| `HookContract` | abstract: what callers of a target are promised |
| `Int3Veh` | the INT3 hook, detailed; implements `HookContract` |
| `Int3VehProofs`, `Int3VehPinProofs` | theorems about `Int3Veh`: types and consistency; what the owners of map entries and a hook that stays guarantee, and the refinement |
| `Veh`, `VehProofs` | the page-guard hook with the page protections, and its theorems |
| `VehChain`, `VehChainProofs` | both exception handlers and both kinds of hook in one process |
| `BufferPool` | abstract: disjoint buffers within reach of their origin |
| `Memory`, `MemoryProofs` | blocks, slots and their lists; implements `BufferPool` |
| `TrampolineBuild`, `TrampolineBuildProofs` | `CreateTrampolineFunction` and the patch of `Enable` |
| `HookStack` | abstract: several objects on one target, and their original addresses |
| `Trampoline`, `TrampolineProofs` | the life of trampoline hooks on code that runs; implements `HookStack` |
| `Vmt`, `VmtProofs` | the vtable hook; implements `HookStack` |
| `MCInt3Veh`, `MCVeh`, `MCMemory`, `MCTrampolineBuild`, `MCTrampoline`, `MCVmt`, `MCVehChain` | instances for TLC |

### Int3Veh

Threads are admins (they call `Enable` and `Disable`) and callers (they call
targets). `pc[p]` names the statement a thread is at; each action is what runs
between two points at which another thread can observe a difference: the locked
section is three steps (lock and search, map, byte), because the code bytes and
the handler list are visible to threads that do not take the lock. The check of
the installed flag, `AddVectoredExceptionHandler` and the assignment of the flag
are steps of their own, as are the removal of the handler and the reset. `obj`
holds the fields of the objects; `targetPatchPos_` always equals `target_` and
is not kept. `~Int3Veh` is `Disable`.

A call goes through fetch (`Trap` or `Execute`), dispatch by the system, the
handler's locked section, and, because the handler sets the trap flag, a
`STATUS_SINGLE_STEP` after the first instruction. The system and the processor
are modelled from what the handler relies on: a breakpoint is reported with the
instruction pointer on the `INT 3` byte, an exception without handler ends the
process, registration can fail when no handle is left, removal fails for a
handle that is not registered. An object is used by one thread at a time.

The constants `PinHook`, `PinTarget`, `PinDetour` describe a hook that is enabled
before the threads start and is never disabled; they are `NULL` in the runs that
start without one. `MaxOps` bounds the number of `Enable` and `Disable` calls.

`HookContract` has two variables, the hook of each target and the call of each
thread. In the mapping a target is hooked while its byte is `INT 3`, and a call
is decided when the handler moves the instruction pointer or when the target's
own first instruction executes. So `Enable` takes effect at the write of the
byte and `Disable` at its restoration. What is promised of single steps
(`ImplementsContract`) and that every call is decided and returns
(`CallsComplete`) are two properties, because only the first can be proved.

### Veh

Admins and callers as in `Int3Veh`. Every section locked by the mutex of
veh.cpp makes one change of the map, so each is one action and the lock is not a
variable. `prot` is the protection of every page and `PageOf` says which
functions share one. A function is a first instruction, where a hook can
redirect, and a rest, which may trap too when its page is guarded. `Trap` takes
the guard away, as the processor does, and `SingleStep`, `Rearm`, `RearmEnds`
are the loop that restores the guards: it starts from the map as it is and
visits one entry at a time without the lock. When another thread erases an entry
the loop has still to visit, the loop may visit it, end early or fault, and
`raced` records it: what happens from then on is undefined in the code, and no
property speaks of it. `raced` also records an `Enable` of a target whose entry
another thread's `Disable` has erased without having given the page its old
protection yet: that `Disable` then takes the new hook's guard away. It takes
three objects and two threads, and was found in the attempt to prove
`HookStaysArmed`, not in a run. An insertion during the loop is harmless for the few
entries of an instance (the container has more buckets and relinks nothing).

One hook is enabled at the start; in the behaviours with `pinned` no thread
disables it. `VirtualProtect` fails only on the pages of `Fallible`, and the
registration of the handler may fail any time. `Careful` says that clients call
`Enable` and `Disable` of an object alternately, which the code does not check;
without it an object whose `Enable` was refused can take away another one's
hook, and restores a protection it never saved.

### VehChain

What the two exception-based kinds do to each other, once each works by itself.
`chain` is the system's list of handlers; both files register theirs as the
first. `Taken` says which of them an exception ends at: guard violations and
breakpoints are passed on by the handler they are not for, the single step by
neither. One thread enables and disables hooks of both kinds; its call is a list
`todo` of statements, among them the read of the first byte in
`Int3Veh::Enable`, which traps on a guarded page (`Read`, which puts the single
step in its place, and `ReadStep`), and the three steps of `Memory::Patch`, during which a single step of another thread
can guard the page again. Callers run as in `Veh` and `Int3Veh`. The loop over
the guards is one step here, calls into the system succeed, and the flags
`g_veh_hook_installed`, with one thread enabling, equal `Registered`. `Remove`
takes the handler out of the list and closes it up.

Two history variables say what the properties depend on. `ordered`: no `Enable`
of an INT 3 hook was about to add that kind's handler while the one for page guards was
registered, that is, clients enable the first INT 3 hook before the first
page-guard hook (and never come back to a first INT 3 hook while there are
page-guard hooks). The handler for page guards then stands first whenever both are
registered, with hooks of both kinds in force: that is derived (`VehFirst` in the
proofs), not assumed. `quiet`: at most one page-guard hook on a page;
no call or exception in progress when there is no handler for it; nobody on
the page, and no exception in progress, while `INT 3` is written on a page with a guard; no
exception in progress while a page-guard hook is enabled. The last condition was
found by the model: the entry is in the map before `VirtualProtect` returns the old
protection, so a single step of another thread can guard the page first, and
`Disable` later restores a guard nobody handles. What follows other use is not
explored.

### Memory

The free lists and the list of blocks are sequences, head first; addresses are
numbers. The walk of `GetMemoryBlock` over the blocks is one action per block,
and at a block out of range it is a step that changes nothing, which is what
the code does. `VirtualAlloc` may refuse any region, so a new block may be any
free granule the two searches can reach. `~Memory` is `Destroy`. `FreeBuffer`
is called with buffers that are in use; on any other address it does nothing.
`Remove` is the list without one of its blocks. The assumption on the sizes is
what the numbers in memory.h have in common: slots divide blocks, blocks divide
granules, and a block holds at least two slots.

### TrampolineBuild

One pass of the loop is one action, one operator for each branch of the code and
`Emit` for the common end. The instructions of the target are chosen when they
are read: the loop reads each position once. After the loop the number of
padding bytes behind the moved code and the state of the bytes above the target
are chosen. An instruction relative to RIP has at least six bytes (opcode, ModR/M
and four of displacement): a shorter one could not be one. `Enable` then computes position, size and displacement of the jump.

A jump *back* over a short branch that was already lengthened keeps its
displacement and lands inside the new branch: the code guards only the
instructions before the farthest forward destination, so `ForwardJumpsLand`
speaks of forward jumps. And the displacement of the long jump is computed for a
jump at the target before the jump is placed five bytes above it, so in that
case it lands five bytes before the relay. `CallsReachRelay` follows a call of
the target through the short jump and the long one; `trampoline_above` finds it
violated.

### HookStack

What class `Hook` promises when objects share a target. `top[t]` is what a call
of `t` runs, `below[h]` what the original address of `h` runs, `on[h]` the target
`h` is enabled on. `Enable` pushes, `Disable` pops, and a detour may go on to
call the original also after its object has been disabled.

### Trampoline

One thread enables and disables (nothing in the library lets two: `Memory` has
no lock), the others call targets and are never stopped. A target is its first
two instructions, which the patch overwrites, and a body on the same page. `code`
holds an opcode and an operand, because `Enable` writes them in two calls of
`Patch` (and `Disable` copies the backup byte by byte). A call of the library is
a list `todo` of statements, executed one action each: `VirtualProtect` before
and after every `Read` and `Patch`, the reading of each instruction, the backup,
the two writes, the assignment of `*origin`. The lists are written out, one for
each point of the call from which the rest is known. `slot` says which detour the relay
of a slot jumps to and where its trampoline goes on; when the moved instruction
is the jump of an earlier hook that is the relay of that hook.

A thread that fetches from a page without the right to execute, or half a patch,
or an instruction in the middle of one, faults. `Careful` says what the code
relies on, and the history variable `proper` that it has held so far: an object
is enabled only when it is not enabled and nobody runs its detour (the detour
would find `*origin` unset); it is disabled only while it is the last on its
target; while a call of the library works on a target no thread is in the
target's first bytes, and while the instructions are read none is anywhere on its
page, because `Read` makes the page `PAGE_READWRITE`. Nothing is asked of threads
in detours, in trampolines, elsewhere on the page during the writes, or of those
that come back into a disabled object's trampoline. Without `proper` the run
still explores everything, faults included, and checks `TypeOK` and `SlotsStay`.

The jump above a short target (two more writes) is in `TrampolineBuild` only.

### Vmt

The read-only data of the program is a sequence of words, a vtable a place in
it. `EnableThunk` takes the entry from the displacement of a thunk, `EnableSearch`
begins a search, each comparison is an action, `PatchEntry` saves and writes the
word, `EnableReturns` sets `*origin` and `enabled_`: callers run between all of
them. `Memory::Patch` copies the address byte by byte (`__movsb`). Until the first
byte that differs is written a call still loads the old address, and from the
last one on the new: in between (`torn`, from `PatchEntry` or `Disable` to
`PatchEnds`) it loads a mixture and jumps to no function (`CallTorn`). `disp` is a number modulo 256. `Enable` that is refused and `Disable` of an
object that is not enabled change nothing a later call reads. `IsExecutableAddress`
is a test of whether a word is one of `Code`. `vtabel_` is read from `inst_`; the three-argument
`Enable`, private in `Vmt` but reachable through `Hook`, uses the instance
of an earlier call. `example/main.cpp:123` takes an address inside the object for
the second target; it is no code and `Enable` refuses it.

`proper` records that objects on one entry were disabled last first, that no
detour used its original address before `Enable` returned, and that nobody called
through an entry while it was being written: nothing in the code prevents that, so
clients have to. The properties that speak of `proper` histories cover calls
through every other entry meanwhile, through this one up to the write and from its
end on, and detours that are still running. `RightEntry` states
under which conditions on the program the entry is right: for a search a word
behind the vtable that is no address of code; for a thunk that the target is one,
and not a method that begins like one because it ends in a virtual call on the same
object, and that its displacement fits a byte (for 256, the 33rd method, entry 0 is
patched and `Enable` returns true). A search that finds code in all 32
words that `disp_` can reach, and not its target, goes round for ever, as for
the 33rd method of a class: `EnableCompletes` excludes that state (`Endless`), and
the code really does not return from it.

## Runs

| Run | Shows | Bounds |
|---|---|---|
| `int3_two_admins` | maps and bytes agree outside the locked window; a target nobody hooks gets its byte back; every `Enable` and `Disable` returns | 2 admins, no callers, 3 hooks on 2 targets, 2 handles, 4 operations: handler lost, removal failed, refusals and entries erased by the wrong object all occur |
| `int3_pinned` | with one hook that stays, the handler stays: all hooks are in force, all calls of its target reach its detour, nothing is unhandled, `HookContract` is implemented, and so every call is decided and returns | 2 admins, 1 caller, 3 hooks on 2 targets, 4 operations |
| `veh_pinned` | with one hook that stays, every enabled hook is in the map with a handler and its page is guarded or about to be; nothing is unhandled; a call runs the target's own code only while another thread is between its trap and its single step | 2 admins, 2 callers, 2 hooks, 2 targets on pages of their own of which one may fail, 3 operations, with and without the pinned hook; threads and handles symmetric. Every disjunct of `Next` occurs |
| `chain_handlers` | with hooks of both kinds in force, the first INT 3 hook enabled before the first page-guard hook and hooks changed quietly: guards survive the breakpoints, reads and patches of the other kind, nothing is unhandled, and a call of a hooked target runs its own code only in the window of a page guard | 2 callers, 2 targets on one page and one on another, each hooked by either kind or both, enabled and disabled any number of times. Targets of a page and callers symmetric |
| `memory_ranges` | every slot accounted for; `BufferPool` is implemented | 5 free granules, 3 slots each, two origins whose ranges overlap in two granules, 4 buffers: blocks fill, empty and are shared |
| `trampoline_patch` | for careful clients no thread runs into the patching, the code and the page protection come back, what is in a slot stays there, and callers see `HookStack`: a hook takes effect when the operand of its jump is written and ends when the operand is restored | 2 hooks, 2 targets on one page, 2 callers, 3 slots: a third `Enable` uses the last slot, a fourth is refused; both objects on one target and on two, enabled again after a disable, disabled in either order. Hooks and callers symmetric. (Three hooks with four slots give 4.5 million states and no violation.) |
| `vmt_hooks` | the right entry is patched where the conditions above hold; every entry gets its value back; callers that keep off an entry while it is written see `HookStack`; every `Enable` returns whose search can meet its target or a word of data | 2 hooks, 1 caller, 3 classes over 37 words: a vtable that another one adjoins, that one, closed by data, and one of 33 methods; a thunk for its second method, itself a method of the first class, and one whose displacement is 256; 3 calls of `Enable`, so an object is used again |
| `trampoline_build` | what is built fits its slot, moves all it overwrites and keeps forward jumps | all sequences of 25 instructions: the lengths 1 to 6 and every destination around the patched bytes |

Runs that find a disagreement between the code and what the repository says
(`PROJECT.json`, findings, quotes the lines):

| Run | Disagreement |
|---|---|
| `int3_race` | with two admins an enabled hook can be left without handler |
| `veh_page` | two hooks of a page disabled in the order they were enabled leave a guard without handler |
| `memory_far_block` | a block that is too far is not skipped, and one at the highest address the search for a region accepts counts as too far: the allocation never returns |
| `trampoline_above` | the jump placed above a short target misses the relay by five bytes |

Some behaviours of this kind need no run of their own. The first
`Int3Veh::Enable` writes `INT 3` before the handler is registered, and the last
`Disable` removes the handler while a thread may have its breakpoint still to be
dispatched: `int3_pinned` therefore keeps one hook enabled. `Veh` takes the guard
away for every thread until the single step of one: `OwnCodeOnlyInWindow` says
that nothing else lets a call through. In
`VehChain` the other order of the handlers is the one `AddLast` gives: the handler
for INT 3, first, takes the single step that the other one needs, a guard is never
set again (veh.cpp:46, int3veh.cpp:50), and an enabled page-guard hook is out of
force. For the backward jump see `TrampolineBuild`, for what `disp_` cannot hold `Vmt`.

The runs that say `CHECK_DEADLOCK FALSE` may really stop: the process ends at an
unhandled exception, the bound on operations is used up with nobody calling, or
`Enable` has returned.

Fairness. `Int3Veh!FairSpec` assumes weak fairness of each thread's steps: the
system keeps scheduling threads that can run. Nothing is assumed about who gets
a lock that several threads want. What keeps a waiting thread from being
overtaken for ever is the bound on operations, and that there is one caller: the
liveness results say that nobody waits for a lock that is never given back, not
that the lock is fair. Beginning an operation or a call is never fair.
`Memory!FairSpec` and `Vmt!FairSpec` say that a call that has begun keeps running
(in `Vmt` the end of a write, `PatchEnds`, is such a step too): it waits for nobody. `Veh` has no
liveness property: callers that keep restoring a guard may delay another for
ever.

Each property of a passing run is paired with a bug (operators introduced by "A
bug to compare with") under which the same run reports it violated.

## Proofs

Every passing run is about an instance; the theorems are about every value of
the constants. They rest on the named assumptions of the modules, which TLC
evaluates in the runs, and on what is said here. In each module the inductive
invariant is a conjunction of named parts, and the proof has one lemma or step per
action and under it one step per part that the action can disturb.

| Module | Theorem | States |
|---|---|---|
| `Int3VehProofs` | `TypeCorrect`, `Consistency` | `TypeOK`, `CodeMatchesHooks` |
| `Int3VehPinProofs` | `Restoration` | `CodeRestored` |
| | `Interception`, `Handled`, `Detoured` | `HookIntercepts`, `NoUnhandled`, `CallsReachDetour` |
| | `Implementation` | `ImplementsContract` |
| `VehProofs` | `TypeCorrect`; `ArmedHooks`, `Handled`, `Window` | `TypeOK`; `HookStaysArmed`, `NoUnhandled`, `OwnCodeOnlyInWindow` |
| `VehChainProofs` | `TypeCorrect`, `ArmedHooks`, `Handled`, `Window` | `TypeOK`, `GuardsKept`, `NoCrash`, `OwnCodeOnlyInWindow` |
| `MemoryProofs` | `TypeCorrect`, `Accounting`, `PoolImplemented` | `TypeOK`, `SlotsAccountedFor`, `ImplementsPool` |
| `TrampolineBuildProofs` | `TypeCorrect`, `SlotSuffices`, `OnlyMovedOverwritten`, `ForwardJumps`, `BranchesKept` | `TypeOK`, `FitsSlot`, `OverwritesOnlyMoved`, `ForwardJumpsLand`, `NoBranchLost` |
| `TrampolineProofs` | `TypeCorrect`, `SlotsKept`, `Survival`, `Restoration`, `StackImplemented` | `TypeOK`, `SlotsStay`, `NoFault`, `CodeRestored`, `ImplementsStack` |
| `VmtProofs` | `TypeCorrect`, `Restoration`, `RightPlace`, `StackImplemented` | `TypeOK`, `EntriesRestored`, `RightEntry`, `ImplementsStack` |

### Int3Veh

`TypeCorrect` and `Consistency` hold with or without a pinned hook and for any
first bytes (a target may even begin with `INT 3`), from `ConstantsAssumption`
alone (targets are not detours, `NULL` is none of the other values). Neither is
inductive. A byte written back has a type only if the map of saved bytes has an
entry for it, and that entry agrees with the map of hooks only because no other
thread was between the two updates. `IInv` adds what is needed: a thread in a
locked section holds the mutex (`LockInv`); an object is worked on by one thread,
with its addresses set (`WorkInv`); a breakpoint points at a target
(`RaisedInv`); inside the window the code is still what the change of the map
found (`WindowInv`).

`Int3VehPinProofs` adds ownership. An entry of the map belongs to an object from
its insertion to its erasure (`Owner`, `OwnedInv`), so a target no object is
enabled for or working on has no entry, and by consistency its own byte:
`Restoration` needs no more, and no pinned hook. With one (`PinHook # NULL`, the
hypothesis of the others) the map is never empty, so no thread is ever on the
way to remove the handler: `PinnedInv`, the reason why the race of `int3_race`
cannot happen. `OwnersInv` says that the entry of an object at rest is its own,
`CallInv` where a call can be. `Implementation` maps each statement to a step of
`HookContract` or none; it also needs `NoInt3`, that no function was compiled with
`INT 3` as its first byte, because `HookContract` reads "hooked" off that byte.

### Veh

`TypeCorrect` holds whatever the clients do. The others assume `Careful`
(`Enable` and `Disable` alternate) and `OwnPages` (no two targets share a page;
`veh_page` shows why), and speak of histories that are `pinned` and not `raced`;
`Window` also that `VirtualProtect` does not fail on the pinned page. They do not
bound threads, objects, targets, handles or calls. `PinInv` says who owns an
entry (`OwnerInv`), that the pinned object stays enabled and no thread can be
removing the handler (`UseInv`, `HandlerInv`), that the loop of the single step
has only entries of the map left to visit (`TodoInv`), and that the page of an
enabled object is guarded or among those a thread is going to guard (`GuardInv`,
stronger than `HookStaysArmed`: it speaks of objects in use as well). Like the
runs they are about maps that an insertion does not rehash while the loop of a
single step walks them: the model has no buckets, and lets an insertion leave a
loop alone. With more entries than the container has buckets (8 at first) this is an
assumption.

### VehChain

The four theorems hold for any callers, targets and pages, and `NoCrash` in any
order of the handlers. `VehFirst` derives the order from what clients do (`Ordered`):
a handler is registered as the first, and the one for INT 3 never comes while the
other is there. `QuietInv` says of every variable what it is in terms of
the statements left of the call in progress (`Pending`): which hooks are in the
map and which handler in the list (`HookInv`, `ChainInv`), where `INT 3` is
(`PatchedInv`), the protections (`PageInv`: a guarded page has a hook, a writable
one a patch in progress, and no `Enable` ever saves a guard), where each thread
was when its exception was raised (`FlightInv`), and who is going to guard each
hook's page again (`ArmedInv`, stronger than `GuardsKept`: while a hook is being
enabled only its own page may be without guard). `Advance` says once what
executing a statement does to `Pending`. The conditions of `Quiet` are used where
one expects them: in `Guard`, that nobody can have guarded the page first; in
`Remove`, that no exception is in flight.

### Memory

`PoolImplemented` says that buffers are disjoint and near their origin for any
sizes; it needs that the start of a block is a multiple of its size and that
slots are where a multiple of the slot size is. `SlotsAccountedFor`, with `TypeOK`
and the fact that an idle walk is at the first block, is inductive as it stands;
the lemmas before it are about multiples and about lists that lose an element.

### TrampolineBuild

For any set of instructions, any padding and all addresses. `LayoutInv`: copies
follow each other and are as long as the two positions say. `JumpInv` is the
heart of `ForwardJumps`: while the destination of a copied jump is still ahead,
everything since was copied with the length it had. `EndInv`: the copy ends behind
every destination. The type theorem shows that the `UINT8` positions of the code
do not overflow.

### Trampoline

`TInv` holds whatever clients do: what is left of the call in progress
determines the protections (`ProtInv`) and which half of a patch is written
(`WholeInv`); slots are filled in order and never again (`SlotInv`). That is
enough for `TypeCorrect` and `SlotsKept`. `ProperInv`, for careful clients, is
about the chain of the objects on a target. Every `Enable` takes a slot larger
than all before, so slots tell the age of objects: the target holds the jump of
the youngest (`TopInv`), and the backup of each the jump of the next older
(`OnInv`). `StackImplemented` follows with `*origin` and the program counter of
every thread in the mapping.

### Vmt

From `WordsAssumption`: a vtable begins with an address of code and ends
somewhere, the 32 words `disp_` can reach from it are in the data, displacements
are multiples of the size of a word, and addresses of code, of detours, data and
`NULL` are told apart. For the types, `UseInv` adds that a patched object knows a
vtable, an entry that was linked as code and an address that was there; the words
that are data never change, which is why a search stays among the words `disp_`
can reach and no word of data is ever written. `EntriesRestored` says what is
in an entry and where the origins lead, but not that the objects on it form *one*
chain, so it is not inductive: `Disable` writes back an origin, and that has to be
the hook now on top. `RankInv` gives every patched object a rank, the number of
the `Enable` that patched it: an entry holds the object of the highest rank, the
origin of each is the one of the next rank, and the lowest has the linked value.
The lemmas `Push` and `Pop` show that for stacks on functions, without
the program's state; the lemmas after them that each action pushes, pops or does
neither. For `RightPlace`, `PlaceInv` says that a word holds a detour or what was
linked there, and that a search has passed no thunk and not the end of a closed
vtable. `StackImplemented` adds `ToldInv`: the origin a client was told is the
one its object writes back.

### What is only model-checked

The liveness properties `OperationCompletes`, `CallsComplete` and
`EnableCompletes`: fairness is out of the prover's reach. And the properties
of the runs that find a violation. Every invariant and every action or refinement
property of a passing run is proved.

## Not modelled

The external build: the repository declares it a TODO, and as it stands there is
no working behaviour to check. `CopyEx` reads instead of writing, so the
trampoline never reaches the other process, and the singleton `Memory` keeps the
handle of the first one. Two threads that enable trampoline or vtable hooks at once are
not modelled: `Memory` has no lock, and nothing says that they may. hde is third-party code. The x86 build differs in the sizes of the
instructions and has no relay and no ranges. RIP-relative displacements are not
numbers in the model, so their truncation to 32 bits is not covered.

## Plan

Done: every component of the inventory that is not listed above as not modelled,
and a theorem for every safety property of a passing run. Left:

1. `Veh`: the theorems for clients that are not careful, as far as they hold
   (`HookStaysArmed` does not); targets that share a page but are disabled last
   first; `OwnCodeOnlyInWindow` of every enabled hook, not only the pinned one.
2. Of `Int3Veh`, the refinement for targets that begin with `INT 3`, which needs
   another reading of "hooked".
3. Lemmas the proofs of `Vmt` and `Trampoline` have in common (a stack on every
   target) in one place.
4. The truncation of RIP-relative displacements to 32 bits.
