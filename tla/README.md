# Verification of the OpenOCD remote-bitbang JTAG mock

The program is a TCP server that OpenOCD drives as a JTAG adapter. It simulates, in one thread,
a JTAG TAP with a RISC-V debug transport module (DTM), the debug module (DM) behind it and a
small CPU that executes one instruction per resume request. The modules here are translated
from the C++ source; line numbers are those of `src/`, and `PROJECT.json` maps every definition
to its lines.

## Inventory

| Component | State | Operations | Hard behaviour |
|---|---|---|---|
| TAP state machine (`tap_state_machine.cpp`) | `tsm_current_state`, not initialised | `transition`, `tsm_reset` | power-on garbage; resets at any moment |
| DTM (`set_pins`, `reset`, register side of `state_entered` in `remote_bitbang.cpp`) | pins, IR and three data registers, each a container and a shift register, `shift_amount` (8 bits) | pin writes with TCK low and high, reset | scans that pause and resume; the skipped first shift; counter wrap |
| Debug module (DMI side of `state_entered`) | the DMI container, `dmcontrol`, `cmderr`, `data0..11`, `arg1`, `dpc` | one handler per register, abstract commands | answers fetched later; nop scans that re-execute; block reads |
| CPU (`riscv_assembler`, a submodule that is absent) | `pc`, `reg`, memory segments | `cpu_step` | external |
| Server (`accept`, `tick`, `execute_command`, `main`) | `client_fd`, `quit`, socket buffers | start-up, one command per tick | pipelining, full buffers, clients that leave, a quit with commands unread, loops that do not return |
| The whole target with its client (`execute_command` over the three above) | all of it | the commands of a session | a client that cannot see the TAP's state, answers that belong to the scan before, scans cut off |
| Intel HEX loader (`ihex_loader.cpp`) | - | - | every line is commented out |
| Printing and register names | - | - | no state |

How they interact: `main` calls `tick` until `quit` is set; `tick` calls `accept` or
`execute_command`; a pin command calls `set_pins`, which on TCK = 1 calls `transition`, which
calls back `state_entered`; entering UPDATE_DR with the dmi instruction runs the DM's handler,
which may call `cpu_step`. R answers with `tdo`.

What makes each correct:

* TAP: five ones reset it; nothing else forgets where the scan is.
* DTM: a scan moves exactly the client's bits, on the register it captured, and commits them once.
* DM: an answer is true when it is fetched; what the debugger writes is what it reads; the hart
  steps as often as asked; block reads walk the memory.
* Server: each reply answers its own command; the process ends only when it should; what a
  client that stays asks for is done.
* The whole target: pins, clock and TAP states are invisible; a debugger sees atomic exchanges.

## Modules

| Module | Models | Notes |
|---|---|---|
| `TapStateMachine` | `TSMStateMachine` | `Successor` is the switch of `transition`; `OUT_OF_RANGE` stands for every power-on value that is no enumerator. |
| `JtagDtm` | `set_pins`, `reset`, `state_entered` without the DM | A register is the sequence of its bits, least significant first. `container` and `shift` hold the three data registers. An UPDATE_DR of dmi leaves any reply of the shape the DM can give (`DmiReplies`). |
| `ScanHistory` | the client's view of `JtagDtm` | Only history variables: what was captured, sent and seen since the last capture. |
| `DebugModule` | the DM | A 32-bit word is a pair of 16-bit halves (TLC's integers are 32 bits wide). One action per handler. The members of `dmcontrol` are one word; members and locals that are only printed are left out. `segments` is `cpu->segments`, a map from the upper half of an address to the words known of that 64 KiB segment. |
| `DebuggerView` | the debugger's view of `DebugModule` | Only history variables. |
| `JtagMock` | `set_pins` and `execute_command` with DTM and DM together | The code's one `dmi_container_register` is kept both as bits (`container["dmi"]`) and as fields (`dmi_container_register`); `Encode` and `Decode` relate them and `OneContainer` says they agree. |
| `JtagPort` | what the target promises a debugger | Abstract: an instruction selects a register, a scan of a register is one atomic exchange. |
| `OpenOcdSession` | `JtagMock` driven by OpenOCD | The client is external: its commands are cut from the session at `README.md:249`. |
| `BitbangChannel` | what the server promises its client | Abstract: one session, a FIFO of commands, each executed once and in order. |
| `BitbangServer` | `main`, the socket set-up, `tick`, `accept`, `execute_command`, the sockets and the clients | The target behind the pins is reduced to the number of commands that have driven it, so that a reply says which commands it reflects. |
| `MC...` | | Constants and bounds for TLC. |
| `JtagDtmProofs` | | Lemmas about the transition table, shifts and the types of `JtagDtm`. |
| `ScanHistoryProofs` | | Theorems about `ScanHistory`. |
| `DebugModuleProofs` | | Lemmas about words of two halves, and that every handler of `DebugModule` keeps its types. |
| `DebuggerViewProofs` | | Theorems about `DebuggerView`. |
| `JtagMockProofs` | | Bits and fields of a request; theorems about `JtagMock` under any commands. |
| `JtagPortProofs` | | Theorems about `JtagPort`: what is written is read back. |
| `OpenOcdSessionProofs` | | Where scripts lead and what they leave in the registers; theorems about `OpenOcdSession` and its refinement of `JtagPort`. |
| `BitbangServerProofs` | | Theorems about `BitbangServer` and its refinement of `BitbangChannel`. |

`JtagDtm` EXTENDS `TapStateMachine`, `ScanHistory` EXTENDS `JtagDtm`, `DebuggerView` EXTENDS
`DebugModule`; `JtagMock` EXTENDS both `JtagDtm` and `DebugModule`, `OpenOcdSession` EXTENDS
`JtagMock`. Two specifications are shown to implement an abstract one: `OpenOcdSession` implements
`JtagPort` and `BitbangServer` implements `BitbangChannel`.

Operators whose comment calls them a mistake (`ShiftInLeft`, `AnswersEcho`, ...) stand before the definition they would replace and are used by no specification: they are the
plausible bugs with which the properties are tested.

### From the wire to the port

`OpenOcdSession` drives `JtagMock` one command at a time. Its client is the OpenOCD of the
recorded session: `B b r b B` and seven ones at first; TMS paths of `2 6` and `0 4` that end with
one more low write; `1 R 5` or `0 R 4` for each bit of a scan, TMS rising with the last. It is
given no look at the target: where the TAP is, it knows from what it sent (`at`), and of a register
it knows the bits that R returned. Between scripts it chooses freely what to do next: restart
with or without r, select a register or an unknown instruction, scan the selected register, end in
RUN_TEST_IDLE or PAUSE_DR.

The mapping to `JtagPort` is

| `JtagPort` | `OpenOcdSession` |
|---|---|
| `selected` | `Selected`, the register `instruction_container_register` stands for |
| `id` | `container["id_code"]` |
| the DM's variables | the same |
| `transcript` | the history `transcript`, one entry for each entry of UPDATE_DR or UPDATE_IR |

The exchange takes place when an update state is entered: the step of `Transact`, `ScanIdcode`,
`ScanDtmcs` or `Select` is that one rising edge, r and TEST_LOGIC_RESET are `Reset`, and every other
pin write is a stutter. What the client read in a scan must then be what the register held
when the scan was updated, although it was captured many commands earlier. A scan that is left in
the pause state is exchanged by the ones of a later restart, or never if the restart begins with r.

The session sends a command and sees its effect in one step. That the real client may instead write
many commands ahead of the replies is the other half: `BitbangServer` implements
`BitbangChannel`, so commands are executed in order and once, and the reply to an R is the TDO at
its place in that order.

### From the sockets to the channel

| `BitbangChannel` | `BitbangServer` |
|---|---|
| `session` | waiting until a client is accepted, connected while `peer` is open, then over for good |
| `queue` | `wire` |
| `target` | `tdo` |
| `answers` | `replies`, and `tdo` after them while the server is about to write it |

The read of an R executes it; the write of the reply is a stutter. Once the session is over
answers and commands may be lost, never before. After a quit with commands still unread, `close()`
resets the connection and any tail of the replies on their way may be lost (line 1666).

### Correspondence worth knowing

* Every pin write is one atomic step, as in the code: the transition and the callback run before
  the next command is read.
* The first falling write in SHIFT_DR moves no bit (`shift_amount >= 1`); in SHIFT_IR every
  write moves one. BYPASS and unknown instructions select no register: capture and shift then do
  nothing.
* The all-zero scan leaves the container, whose old content is decoded again (line 502). The
  request executed is therefore `Request(scan)`, not the scan.
* `dmi_op = 0x02` at line 883 is an assignment in a condition. The local is not used again, so
  `hartinfo` behaves as if it were a comparison, and the model has nothing to show for it.
* A read looks its segment up in the map and allocates one that is missing (`Segment`; lines
  1416-1421). Neither the read nor the loader initialises all of a segment, so `segments` maps to the
  words that are known: those of the loader (`LoadedProgram`, line 38 of `remote_bitbang_main.cpp`) and those
  a read has returned. Any other cell holds some word of `MemoryWords`, and the one a read meets is
  recorded. A second allocation of a segment would lose its words. A `cpu_step` may store anywhere; the
  segments stay, their words are unknown again.
* `2 << (aamsize - 1)` is undefined for `aamsize = 0`; the Makefile builds without optimisation
  for x86, where the shift leaves 0.
* `accept` and the read loop do not return without a client or a command: their steps
  `AcceptAgain` and `ReadAgain` stay where they are.
* `aborted` stands for `abort()` and for SIGPIPE; `peer` says what is left of the connection.

## Runs

Passing runs:

| Run | Question | Bounds |
|---|---|---|
| `MCScanHistory` | Do scans exchange the client's bits with the registers, whatever path they take from whatever power-on state? | IR of 2 bits, data registers of 1, 1 and 4 bits, `shift_amount` modulo 5, two captures, six falling writes in a scan, six ones in a row. A scan of four bits needs five falling writes; the sixth wraps the counter; two captures let the first scan's update meet the second's capture; six ones exceed the five that reset. |
| `MCDebuggerView` | Do answers, data registers, steps and memory reads agree with what the debugger asked? | A session is one of two kinds. Mixed: all sequences of four requests out of 35, one of each kind the code tells apart; write, command, read and a nop after it fit in four. A block read: sequences of seven requests, an address, up to five reads over the end of a segment, interleaved with reads of data0 and data1, nops, a read without postincrement and a resume. The loader has made one segment, with a word in the first cell read and garbage in the second; the segment after it has to be allocated. |
| `MCOpenOcdSession` | Does the wire add nothing to the port, and does the client know where the TAP is? | The program's own sizes: 32, 32 and 41 bits, a counter of eight. Three restarts or selections, three data scans, one of them left in the pause state, five of all these together (a pausing scan counts twice). Select, write, read and fetch take four; one more leaves room for a pause, a restart or another register. The chain is examined with 300 ones, which is longer than the counter. The scans sent to dmi are one write, one read, one command and the all-zero scan. All sixteen power-on states and none of them. |
| `MCBitbangServer` | Is the server one ordered channel, and does it answer, abort and stop when it should? | Six commands, four in the receive buffer, three replies in the client's, two clients waiting. The client fills both buffers, and has more to send after. |

The bounds of `MCOpenOcdSession` are few jobs but long ones: a dmi scan alone is 123 commands, the
examination 900, and the longest behaviour has 2833 states. The smaller widths of `MCScanHistory` meet every path between shifts,
which the client here does not take.

Violation runs show where the code does not do what the repository's own text says; each
checks one property, and `findings` in `PROJECT.json` quotes the text:

* `_FiveOnes`: an uninitialised TAP state outside the enumeration is kept for ever.
* `_Idcode`: UPDATE_DR overwrites the identification word for good, with whatever its shift register
  holds.
* `_Skew`: `shift_amount` wraps and drops a bit of a long scan.
* `_Nop`: an all-zero scan executes the previous request again.
* `_Inhibit`: a command runs, and clears the error, although `cmderr` is set.
* `_Store`: a memory write stores nothing; a cell whose word is known keeps it.
* `_Tick`: `tick()` does not return while its client is silent or gone.
* `_WriteStatus`: a write of data0 that is carried out reads back op 2, a failed operation.

Differences the modules state as they are and no run checks: a transition is made on every write
with TCK high, edge or not (line 166, where `README.md:339` speaks of the change from 0 to 1); a
register read of an unsupported size sets `cmderr` and copies the register all the same (lines 1087
and 1119); a memory access without postincrement overwrites data1 with the command word (line
1449, where the comment at 1427 speaks of `aampostincrement` being set); a long scan of
anything but ones would lose a bit at the wrap of `shift_amount`, which the examination with ones
does not notice (`WideWordsAssumption`: no other scan of the session is that long).

### Fairness

Only `BitbangServer` has liveness properties; the refinements are of safety. It assumes weak
fairness of the server's steps (one runnable thread that the operating system schedules) and of `Receive` (OpenOCD reads the
reply it waits for). Clients need not connect, send or close. `EveryReadIsAnswered` and
`QuitStops` speak of clients that stay: a client that closes may lose what it sent. A quit behind an
R does not take its reply away, unless the client sends still more after the quit (`late`).

### What a client is assumed to do

`Window` bounds the replies a client lets be outstanding, and is at most what its buffer holds.
Without that, `write()` meets a full buffer and the process aborts, since the code does not
retry EAGAIN there (line 1649). OpenOCD reads the replies of a scan before it sends the next.

## Proofs

TLAPS checks seven groups of theorems. They hold for every value of the constants that satisfies the
named assumptions of the modules, not only for the bounds of the runs: `ConstantsAssumption`
(registers of any width, the dmi register longer than its address and op), `DebuggerAssumption` and
`NoWordAssumption` (requests, words, loaded programs and memory contents of any kind), `BitbangServer`'s (buffers and
windows of any size), for the session `WideWordsAssumption` (words of 32 bits or more, of any content
up to the wrap of `shift_amount` and all ones beyond it), and, from `JtagMock` on, `ProgramConstants`, which are the sizes, codes and
initial contents of the program itself.

### Scans (`ScanHistoryProofs`)

All seven properties of `MCScanHistory`. They are not inductive, so `ScanHistory` has `ScanInvariant`,
the conjunction of

* `TypeOK`;
* `OnesApproachReset`: the ones seen so far plus the distance to TEST_LOGIC_RESET are at most
  five, and TEST_LOGIC_RESET comes with the IDCODE instruction. `FiveOnesReset` follows;
* `ScanKeepsItsRegister`: needed because a shift is conserved only if it hits the register that
  was captured;
* `AmountCountsFalls`: until it wraps, `shift_amount` is the number of falling writes, so code
  and client agree on which shifts move a bit;
* `ScanConservesBits`: `seen \o register = captured \o sent`;
* `LengthsAgree`: both sides have parts of equal length, so a scan of the full width can be split
  into its two equations (`FullScanExchanges`).

There is one lemma per action; `state_entered` has two more, for the types and for the scan. The
heart is `ShiftConserves`: a right shift moves the head of the register to the end of `seen` and
the new bit to the ends of the register and of `sent`. The two action properties follow from the
invariant before the step and `ContainersChangeOnEntry`.

`ScanConservesBits` holds up to the wrap of `shift_amount` only (`NotWrapped`); beyond it the
run `_Skew` shows that it fails.

### The debug module (`DebuggerViewProofs`)

All seven properties of `MCDebuggerView`, for sessions and block reads of any length. Three of them are
not inductive, and `DebuggerInvariant` adds what they rest on:

* `WritesArePresent`: what the debugger may rely on is in `abstract_data` itself, not only in an
  answer that happens to wait; with `RepliesAreCurrent` it gives `ReadReturnsWritten`;
* `ResumesAreAnswered`: no resume request is left in the container, where the next nop scan would
  run the hart again. This is what `DmcontrolWrite`'s answer with op 00 is for, and
  `StepsAreRequested` fails without it.

* `SeenIsPresent`: what the loader put or a read met in a cell is still what a read of it would find. `MemoryReadsAgree` compares
  only words the debugger saw, at moments with any number of allocations between; what carries them
  from one to the next is that a read adds to the map and replaces nothing known
  (`SegmentsWithCells`).

There is one step lemma per conjunct, over all handlers. `WalkReadsConsecutively` is arithmetic:
`Plus` carries from the low half into the high one and wraps at 2^32, and n increments of 4 are one
of 4n (`PlusPlus`), over the end of any segment and of the address space.

### The server (`BitbangServerProofs`)

The four invariants of `MCBitbangServer` and `ChannelIsImplemented`, for every buffer size, window,
number of commands and listen queue. `ServerInvariant` adds to the properties

* `SessionMatchesServer`: the server holds a descriptor for exactly the one session it serves;
* `Outstanding <= Window`: what the client lets be outstanding, from which a full buffer can be
  excluded (`AbortOnlyWithoutClient`);
* `StreamIsAccounted`: every R that was sent is answered, being answered or in the buffer,
  every pin write is in the target or in the buffer, and each R in the buffer will meet the target
  its client expects. It is itself a property of the run; `RepliesAnswerReads` speaks of replies only
  and needs it for the reply that is made next.

The counts are of positions in the buffer (`Ahead`); `AheadOfTail` and `AheadOfAppend` say what taking
and sending a command does to them. The refinement has one lemma per action: which channel step it
is, or why the channel does not see it.

### The target (`JtagMockProofs`)

Whatever commands arrive, in whatever order:

* `MockTypeCorrect`: the registers keep their widths and `OneContainer` is invariant, so that the
  two guises of `dmi_container_register` never part. It rests on `EncodeDecode`: encoding
  the fields of any 41 bits gives them back, which is the arithmetic of `DecodeBits`, digit by digit;
* `MockAnswersHaveShape`: an UPDATE_DR leaves the request or an answer to the same address with op
  00. `RequestHandedOver` shows that the all-zero test on the bits and the one on the fields agree;
* `MockImplementsDtm`: therefore `JtagMock` implements `JtagDtm`. `ScanHistory` adds only history
  variables to `JtagDtm`, so what is proved of its scans holds of the scans of the whole target.

### The session (`OpenOcdSessionProofs`)

`TypeOK`, `DmiAnswersHaveShape` and `ClientKnowsState`, for sessions of any length, any power-on state, any
requests and data scans of any length. `ClientKnowsState` speaks of the end of a script only. What
holds in the middle of one is `SessionInvariant`:

* `Leads(script, tsm_current_state, at)`: there is a route of states along the commands that are
  left, from where the controller is to where the client expects it. Sending the first command
  leaves the rest of the route (`RestLeads`);
* `PlanFits`: a planned scan starts in the shift state of its column, has bits to shift, and ends
  in a state its exit has a way to; without a plan the controller rests where the client's table
  has an entry.

That the scripts the client composes lead where it thinks is `MovesLead` (a move follows its TMS
path, each bit written twice), `ShiftBitsLead` (a scan of any length stays in the shift state until
the last bit) and `ScriptsLead` (one script after the other), with the walks of the tables
`ToShift` and `FromExit` written out state by state. `SessionIsMock` says that the
client does nothing to the target but send commands, which gives it the results above.

### The port (`JtagPortProofs`)

`ReadsBack`, for transcripts of any length: a word written to a data register is in the answer that the
exchange after the read fetches, with any resets, instructions, scans of other registers and harmless requests
between. It speaks of three exchanges of the past; what carries it from one to the next is
`PortInvariant`:

* `WrittenIsKept`: after an undisturbed write the word is in `abstract_data`, and the request in the
  container, which an all-zero scan would execute again, does not change it;
* `AnswerWaits`: after the read, until the next transaction, the container holds the answer.

### The refinement (`OpenOcdSessionProofs`)

`PortIsImplemented`: every step of the session is a step of `JtagPort` or changes none of its variables. A
scan is many commands, so the invariant must carry its bits through the script.
`RefinementInvariant` is `SessionInvariant` with

* `Context`: the register the client believes selected is the one selected, except on the way of the
  scan that selects it and on the way of a reset; a planned scan is one the client may send; nothing
  writes dtmcs;
* `Underway`: the script is one of three kinds.
  `Resetting`: what is left ends with the seven ones.
  `Shifting`: what is left is `ShiftBits` from bit i on, with that bit still to be written, on TDO or read
  already, and the way out. `Scanned` says that `bits \o register = container \o the bits sent` so far
  and that `shift_amount` has counted them.
  `Moving`: the rest of a move, which neither leaves nor enters a shift state with half a scan. `Passing`
  says what it carries along: between the exit and the update the scan is complete, so what was read is
  what the register held and the register holds what the update commits; between the capture and the
  first bit it holds what was captured.

`ShiftingRefines`, `MovingRefines` and `ResettingRefines` follow the script command by command; each bit is
`ShiftConserves`. A scan longer than the modulus passes the wrap of `shift_amount`, where nothing moves and
the bit before is read once more: `WrapConserves` shows that among ones this is the same.
`DataUpdateRefines` and `InstructionUpdateRefines` are the one step that the port sees: a scan of any length
leaves and reads what `LeftBehind` and `ReadThrough` say (`ScanExchanges`), and a request arrives as it was
sent (`DecodeEncode`).

`ReadsBackOverTheWire` is `ReadsBack` of the implemented port, so it holds of everything the client
reads bit by bit. The lemmas `Same...` say that the debug module of the port is the one of the target, action
by action: the provers take the names of an instance for different symbols.

## Only model-checked, and not modelled

* `EveryReadIsAnswered` and `QuitStops`: liveness under fairness is beyond the prover.
* The properties of the violation runs, which do not hold.

Not modelled: the HEX loader (no code), the CPU's instructions (absent submodule; an
external nondeterministic step), printing, data scans behind an instruction that selects no register
in `OpenOcdSession` (they are in `JtagDtm`), and 64-bit parts of
data registers that no scan can reach. The width of TDI and of the shift registers above the
register's own size is constant zero in the code and absent here.

## State

Modelled, checked and proved: the TAP and the DTM, the DM, the server, the target and the session with its
client; both refinements, of the port and of the channel. What remains with TLC are the liveness
properties. What no module says anything about are the instructions of the CPU, whose simulator is not in
the repository.
