# Kiaro Game Engine: models, model checking and proofs

This directory holds TLA+ models of the Kiaro Game Engine (`src/apps/engine`),
the TLC configurations that check them on small instances, and TLAPS proofs of
the properties that matter most. `PROJECT.json` maps every definition to the
lines it stands for; all line numbers below are of files in
`src/apps/engine/`, given without that prefix.

Contents: 1 the system, 2 the modules and the code, 3 what the runs check,
4 fairness, 5 what is proved, 6 findings, 7 what the code does beside its
documentation, 8 what is not modelled, 9 the plan.

## 1. The system

A program is one process with one thread. `main` (source/EngineMain.cpp) parses
the command line and invokes a responder per flag; the responder of `-game`
makes the engine (`CoreSingleton`), which runs as a local client, as a client
that connects to a server, or as a dedicated server. `CoreSingleton::run` then
loops: start a timer, update the scheduler, update the client or the server,
sleep, stop the timer; an exception goes to a handler inside the loop. The
processes of a client and a server talk through ENet.

| Component | State | Operations | Talks to |
| --- | --- | --- | --- |
| `Support::BitStream` | array, offset, length, ownership | constructors, `write*`, `read*`, `readString`, `raw`, destructor | packets |
| `Network::PacketBase`, `Packets::HandShake` | identifier counter, fields | `packData`, `unpackData`, length check | BitStream, both network ends |
| `Support::Time` | timer stack, 32-bit simulation time | `startTimer`, `stopTimer`, `getSimTimeMilliseconds` | loop, scheduler, map division |
| `Support::SchedulerSingleton` | set of events; per event a time and a flag | `schedule`, `cancel`, `update` | Time, delegates of the game |
| `CoreSingleton::run` (loop) | where the tick is, its timer | one tick, the handler | everything above |
| `Network::ServerBase`, `Game::ServerSingleton`, `IncomingClientBase` | client set, objects, last sender, running flag | ENet's events, reply, `stop`, the handler's disconnect | ENet, packets |
| `Network::OutgoingClientBase`, `Game::OutgoingClientSingleton` | host, peer, connected flag, stage | `connect`, `update`, `disconnect`, destructor | ENet, packets |
| `Support::CommandLineParser` | flags and their words | constructor, queries, `invokeFlagResponders` | responders of `main` |
| `CoreSingleton`, `main` (life cycle) | mode, pointers, singletons, libraries | responders, `run`, destructor | all singletons, PhysFS, ENet, Irrlicht, CEGUI |
| `Support::MapDivision` | levels of squares | `Get`, constructor, `Destroy` | Time |
| EasyDelegate (`DelegateSet`, delegates, `CachedDelegate`) | vector of delegates, who owns each | `push_back`, `insert`, `erase`, removals, `invoke`, destructors | functions of its user, which may use the set again |
| `Support::EventManager`, `Support::Array` | events with their lists; cells of each array | `Get`, `Destroy`, `BindEvent`, `EmitEvent`; `Insert`, `Append`, `Prepend`, `Remove`, `Resize`, `[]` | each other |
| `Support::String` | stored buffer, length, `is_const` | constructors, `Concat`, `+`, `+=`, `Sub`, `Format`, `StripChar` | nobody |
| Logging | table of hooks, the log file | `Initialize`, `AddHook`, `Write` | PhysFS, hooks of its user |
| Endian utilities | | `SwapEndian...` for each width, `SwapEndianArbitrary` | nobody |
| Entities, game mode, components, file reading | | | not modelled, see section 8 |

The classes from EasyDelegate to the endian utilities are the engine's library.
Of these only the delegates themselves are used by other code (the command line
parser and the scheduler keep one per flag and event); the others wait for a caller.
`EndianUtilities.hpp` includes a header the repository does not have
(`EngineCommon.h`), so its model is of the text as it would compile with the
types of `engine/Common.hpp`.

What is hard in it, and what correctness means:

* **Buffers and offsets.** One offset serves writes and reads, the array grows
  by the size of a write and not to its end, and its new length is cut to 32 bits.
  Right when: the offset stays in the array, reads give back what was written in
  reverse order and nothing else, and every allocation is deleted once.
* **Two classes per packet.** Packing and unpacking are written by hand in
  opposite orders across a base and a derived class; other programs send any
  bytes. Right when: what this program packs is accepted with the same values,
  and nothing is accepted from too few bytes.
* **Exceptions between pairs of calls.** Delegates and packet handlers throw
  between `startTimer` and `stopTimer`, in the middle of the walk over the
  events and in the middle of the event loop of ENet. Right when: time is counted
  once, nobody else's event is lost or run twice.
* **A walk over a set that changes.** The scheduler erases the event its
  iterator stands on; delegates schedule and cancel meanwhile. Right when: nothing
  runs early, after a cancel or twice, and nothing is lost. What is due runs in the
  end only as long as removals do not go on for ever (section 7).
* **Three owners of a connection.** ENet's slot, the object and the set of
  clients must agree while slots and addresses are reused and either end is lost
  at any time. Right when: no deleted object is used, every handshake is answered
  once, and what is gone is deleted.
* **Order of life.** Four modes, a failure at each step, a destructor that
  must fit all of them, responders in the order of an unordered map. Right when:
  what runs has what it uses, hosts are closed before ENet is, and the game asked
  for is run once.
* **Library code that calls back.** A set of delegates and a table of hooks are
  changed by the functions they are calling. Right when: each delegate has one
  owner, a removal takes every match and nothing else, nobody who was in the set
  from the beginning is called twice or out of order, and every hook gets the
  message.
* **Memory moved by hand.** Arrays move cells around a gap, strings share
  buffers and keep lengths beside them, swaps move bytes by masks and shifts.
  Right when: what is kept stays what it was and nothing outside is touched.
  Some of this code is not right; the models say from where on (section 7).
* **Widths.** 32-bit microseconds, 8-bit timer identifiers, 32-bit resolutions
  and `size_t` differences wrap.

The hazards, each at its line with the properties that watch it, are in
`PROJECT.json`.

## 2. The modules and the code

```
ByteStack  <--refines--  BitStream  <--EXTENDS--  HandShakePacket, MCBitStreamTests
SimTime  <--EXTENDS--  TickLoop  --INSTANCE-->  Scheduler  --refines-->  JobQueue
SimTime  <--EXTENDS--  MapDivision
ServerNet  <--EXTENDS--  Session  --INSTANCE-->  ClientNet
                            Session  --refines-->  Admission
CommandLine  <--EXTENDS--  Engine
BitStream, MapDivision, Delegates, EventManager, Strings, Logging, Endian
    <--EXTENDS--  SupportClasses  <--EXTENDS--  MCSupportClasses
HandShakePacket, ClientNet, Scheduler
    <--EXTENDS--  ClientSide  <--EXTENDS--  MCClientSide
```

Proofs about a module `M` are in `MProofs`, with these exceptions:
`HandShakePacket` is in `BitStreamProofs`, `ServerNet` in `SessionProofs`,
`CommandLine` in `EngineProofs`; `Delegates`, `EventManager` and `Logging` share
`SupportProofs`, and `Scheduler`, `Endian`, `Strings` and `MapDivision` share
`UtilityProofs`. A definition named `BugX` is a
plausible fault of `X`: putting it in the place of `X` must break the property
that watches it.

* **ByteStack** is the abstract specification: what users of a stream may rely
  on. Push appends, Pop takes the last bytes, a pop of too much is refused and
  changes nothing.
* **BitStream** (source/support/BitStream.cpp): the variables are the members
  of the class, plus `owned` (allocations not yet deleted), `destroyed`,
  `inputArray` (what became of an array the stream was given) and
  `result` (what the last call answered or threw). `GrownLength` keeps the new
  length modulo `U32Mod`, since the code keeps the sum of two `size_t` in a U32; a
  write whose two `memcpy` do not fit into the array of that length sets `overrun`,
  after which nothing is defined and the stream has no step. Every `writeX` is `Write` with
  its bytes, in place or growing; every `readX` is `Read(n)` with its refusal;
  `ReadString` keeps the scan above the offset and its wrapped difference; `Raw`
  is a read of everything. A byte of `new[]` memory is `Unwritten`, which a scan
  may take for any byte. The refinement maps the stack to the array up to the
  offset; an overrun leaves the stack as it was.
* **HandShakePacket** (include/game/packets/HandShake.hpp,
  include/network/PacketBase.hpp) runs over the stream byte by byte: a U32 is its
  four bytes. A process packs handshakes, hands `raw()` and `length()` to ENet
  and unpacks what arrives, its own packets or another program's payload.
* **SimTime** (source/support/Time.cpp): the stack of readings, the counters
  modulo their widths, the identifiers cut to their width and compared uncut, as
  `stopTimer` does. `busy` is a history of the time with a timer running.
* **JobQueue** is what users of the scheduler may rely on: jobs are submitted with
  a delay, withdrawn, started one at a time and not before their time; one that
  fails stays. A doomed job, withdrawn or by the garbage in its flag, is discarded.
* **Admission** is what a client and its server promise each other: one question
  goes to the server, one answer comes back, hearing it admits the client, and only
  an end that loses the connection loses either.
* **Scheduler** (source/support/SchedulerSingleton.cpp): one action per step of
  `update()`'s walk. `mIsCancelled` starts with any value, because the
  constructor sets none. After an erase the iterator is incremented on a freed
  node, which is undefined: the walk may go on at any event, end, or crash. The
  refinement takes the set for the waiting jobs and the flagged ones for the doomed.
* **TickLoop** (source/engine/CoreSingleton.cpp:170-226): the loop with SimTime
  as its clock and Scheduler as its scheduler, whose `simMS` is the wrapped
  simulation time in milliseconds. Delegates and the network part may throw.
* **ServerNet** (source/network/ServerBase.cpp, source/game/ServerSingleton.cpp,
  source/network/IncomingClientBase.cpp, the handler of `run`): one action per
  ENet event. `peerState`, `peerData` and `inbox` are ENet's; the head of the
  module says what the code relies on. `getLastPacketSender` is the one of the
  base class, because it is not virtual.
* **ClientNet** (source/network/OutgoingClientBase.cpp,
  source/game/OutgoingClientSingleton.cpp): `connect` with its early returns, the
  wait inside it, `update`, `disconnect`, the destructor. `run` calls `connect`
  once; the module allows more calls, since the class does.
* **Session** joins one client's process to its server and adds other programs
  and the transport: reliable, in order, until a connection breaks, and each end
  learns of that by itself.
* **CommandLine** (source/support/CommandLineParser.cpp) and **Engine**
  (source/EngineMain.cpp, source/engine/CoreSingleton.cpp, the `getPointer` and
  `destroy` of each singleton): all arguments, the walk in every order of the
  map, the responders, the modes, what is created and destroyed. In Engine a
  tick is one action; its inside is TickLoop, ServerNet and ClientNet. A NULL
  pointer that is followed leads to `pc = "crashed"`, an exception nobody catches
  to `"terminated"`, the missing `return` at the end of `run` to `"returned"` or
  `"undefined"`.
* **MapDivision** (source/support/MapDivision.cpp): the constructor's loops step
  by step. A column is known by its number of squares.
* **Delegates** (include/easydelegate.hpp): a set, the delegates it owns and the
  cached delegates. A delegate is the number of its allocation, `deleted` the
  ones freed. The removals by function, member and object are one loop,
  `RemoveDelegates` to `EndRemoval`, with the request that tells them apart.
  `invoke` is a loop whose body is a call: from `BeginCall` to `CallReturns` or
  `CallThrows` the function runs and may remove and add delegates of the set as
  often as it likes (`FunctionRemoves`, `FunctionAdds`). After a removal the iterator
  stands on the next but one; a vector that grows may move, and when the function
  returns then, the loop is lost. `added` is the history of what functions added.
* **EventManager** (source/support/EventManager.cpp, include/support/Array.hpp):
  an Array is the sequence of its cells; `Insert` and `Remove` compute with the
  offsets of the code, wrong ones included, and a write outside makes
  `heap = "corrupt"`. `BindEvent` calls itself again after it has made a list.
  `intended` is the history of what each array ought to be.
* **Strings** (source/support/String.cpp): objects point to buffers, and the copies
  the compiler makes share them. Every constructor leaves `is_const` set, so
  nothing is ever freed. Lengths are kept beside the buffer and go stale, as in
  the code.
* **Logging** (source/engine/Logging.cpp): `Write` is the loop over the table, in
  which a hook may add hooks; the table is full at `MaxHooks`.
* **Endian** (include/support/EndianUtilities.hpp): a word is the sequence of its
  bytes named by their first places, a mask and a shift move one of them.
* **SupportClasses** puts these, BitStream and MapDivision side by side: a behaviour
  uses one of them. **ClientSide** does the same with the parts that a client has
  next to its main loop: HandShakePacket, ClientNet and Scheduler. Session and
  TickLoop are where those meet the others.
* **MCClientSide** and **MCSupportClasses** only give constants their values.
  **MCBitStreamTests** states what the comments say of `readString` and of the array
  a stream is given.

External, modelled from their use: ENet (slots, events, delivery), gettimeofday,
Irrlicht's device, CEGUI's and PhysFS's outcome, and what a function that a
delegate set or the log calls does in turn.

## 3. What the runs check

| Run | Instance | What it shows |
| --- | --- | --- |
| `client_side` | packet: real byte values; own packets, two in a row, and payloads of 0 to 16 bytes of either type. Connection: 3 packets that arrive, 3 calls of `connect`, good and bad addresses. Scheduler: 2 addresses, waits 0 to 2, 3 ms, any number of calls | `RoundTrip`, `NoJunkOnTheWire`, `AcceptedIsComplete`: 15 bytes are a full handshake, so every length on both sides of each check occurs. `ClientInv`, `StageIsOfThisConnection`: three calls are a failure, a retry and one more. `SchedInv` (with it, that nothing runs twice), `CancelledNeverRuns` and the refinement `ImplementsJobs` (nothing starts early, nothing is lost), with an address reused and the walk going anywhere after its iterator broke |
| `tick_loop` | simulation time modulo 6, identifiers modulo 3, 4 timers, 2 events | `SimTimeIsBusyTime`, `OnlyUppermostCounts`, `FrozenOnceLeaked`, `NeverEarlyInLoop`, `DueEventRuns`, `LoopServesJobs`. `schedule` and `cancel` are called without a bound. Both counters wrap several times; more timers leak than identifiers count |
| `session` | 2 slots, 2 object addresses, 2 connections, 3 packets to the server | `ServerInv`, `AnsweredOnce`, `OneHandshake`, `StageMeansAnswered`, the refinement `ImplementsAdmission`, and the liveness `EventsAreServed`, `ReachesStageOne`, `GoneClientIsDeleted`. Two connections are enough for a slot and an address to be taken again with stale data |
| `engine` | command lines of up to 5 arguments from 5 flags and 2 words | `EngineInv` (with it, that the loop has what it uses and hosts close before ENet), `NothingLeftBehind`, `GameIsServed`, `ParsedRight`, `WalkSeesSameMap`. Five arguments give `-game` and `-server` a word each and a fifth flag, or a flag twice |
| `support_classes` | streams of at most 4 bytes of three values, constructor sizes 0 to 3, `size_t` of 32 values and lengths kept modulo 6; map powers 0, 1, 3, 4, 5 with resolutions of 4 bits in the place of 32; 3 delegates of one function and one object; 2 events, 2 handlers and an array of its own, 5 changes; 2 strings of up to 2 characters, 3 allocations; 2 hooks and messages, a table of 3, 3 writes; words of 2, 4 and 8 bytes | `StreamInv` (with it, that the offset stays in the array, that what the stream allocates is deleted once, and that a write leaves its array only when its new length is cut) and the refinement `ImplementsByteStack`; `GridShape`, `BuildLeavesNoTimer`; `OneOwner`, `RemovesAllMatches`, `CalledInOrder`; `FirstTwoPlacesExact`; `StoredInBuffer`, `ConcatIsExact`; `WriteReachesEveryHook`; `SwapsReverse` |
| `string_read`, `input_array`, `timer_leak`, `disconnect`, `connect_again`, `map_squares`, `removed_list` | small | each refutes what a comment or a doc says: section 6 |

Bounds are constants: `MaxBytes`, `MaxPackets`, `MaxSimMS`,
`MaxTimers`, `MaxConnections`, `MaxArrivals`, `MaxConnects`, `MaxArguments`,
`MaxMade`, `MaxChanges`, `MaxIndex`, `MaxBuffers`, `MaxWrites`.
They limit what the environment does and never a reaction of the code, with
one exception: `MaxTimers` also stops the loop from starting a tick once so many
timers leaked, when the simulation time is frozen for good. Where `MaxSimMS` is 0
the simulation time is that of SimTime and the scheduler's own clock has no step.
`CHECK_DEADLOCK FALSE` stands where the system really stops: a destroyed stream, a
crashed process, a client that quit, a program that exited, or an environment
that has used its bound.

In `support_classes` every constant of the code that is too large for TLC has a
small value with the same cases around it: lengths are kept modulo 6 for 2^32, so
that some writes of a stream grow it below that and some are cut (in
`client_side` the width is 64, above any packet); the table of hooks has 3 places for
32 and is filled from inside a `Write`; the limits of strings are 2 for 256, with
texts below and at them. Three delegates give neighbours that both match a
removal with one that does not, at either side; there is one function and one
object, as a request names one of each and the others do not match. Five changes
take an array to the fourth element, where `Insert` leaves it. Three buffers are
two strings and what joins them; with four, the run takes several times as long
and no operation joins more than two.

Some properties hold for a reason that deserves an argument:

* `ImplementsJobs` lets an event go if its flag is set (a doomed job), which it may be
  from the start: that an event nobody cancelled is run is not true of this code.
* `DueEventRuns` excludes five cases: a leaked timer (frozen time), a crash of
  the broken iterator, the end of the loop, an event whose time in 64 bits lies
  behind the wrap of the 32-bit time, which never runs, and removals that go on for
  ever (`RemovesForEver`). The last is starvation: an event that is scheduled anew in
  every tick at a lower address is dispatched, the increment of its erased iterator
  may end the walk, and what lies above is not reached in that tick, nor in any
  other. In a tick that removes nothing the walk reaches everything.
* `LoopServesJobs` is `ImplementsJobs` for the loop, whose time wraps: it says of each
  change to the events what JobQueue allows, and nothing of the time between.
* `OverrunsOnlyWhenCut`, in `StreamInv`, is what keeps the model of a write honest:
  below 2^32 bytes no write leaves its array, and above, `OffsetInArray` is about the
  steps before the one that does.
* `EventsAreServed` holds although a bad packet cuts an update short: the
  packet is out of ENet's queue before it is looked at, so each exception makes
  progress.
* `ServerInv` depends on `getLastPacketSender` not being virtual: with the
  overriding member the handler disconnects the sender by
  `enet_peer_disconnect_now`, which makes no event, and the object stays in the
  set. This is the mutant of `ServerInv`.
* `CalledInOrder` says nothing of a delegate that is skipped: after a removal
  inside a call the next one is. It is about order, repetition, and an undisturbed
  set. A delegate that a function takes out and adds again may be called a second
  time; every other one is called once at most, whatever else the functions add.
* `OneOwner` is about callers that give a delegate to one owner at a time (`Held`).
  A caller that gives it to two has it deleted twice.
* `FirstTwoPlacesExact` and `ConcatIsExact` are about the uses that are right:
  insertions at an array's first two places, and strings whose lengths are right.
  Outside of them the code fails (section 7), and the models fail alike.

## 4. Fairness

* `FairLoopSpec`: weak fairness of a step of the loop. One thread runs it,
  delegates and handlers return or throw, the sleep ends. Calls by game code and
  the end of the loop are not fair.
* `FairSessionSpec`: weak fairness of the client's and the server's ticks (both
  loop with a poll that does not wait), of the arrival of a handshake and of a
  reply (ENet repeats a reliable packet until it is acknowledged or the
  connection is given up), and of `Timeouts`: an end whose other end is gone
  notices. Connecting, quitting, breaking a connection, other programs and
  `stop()` are not fair. No strong fairness is used.

## 5. What is proved

TLAPS checks these for all values of the constants that meet the assumptions
named `...Assumption` in the modules. Most are types and non-emptiness. Beyond
these: for `BitStream` `size_t` is wide compared with the bytes a stream may hold,
and the width of a length is any; for `HandShakePacket` that width is more than the
15 bytes of a handshake;
for `SimTime` two readings are less than a wrap apart; for `HandShakePacket` a byte
can have the 256 values and version numbers are bytes; for `CommandLine` a flag is
not a word and is not empty, since it begins with a dash; for `MapDivision` powers
are below 64, where `pow` and the conversion to `size_t` are exact.

Every safety property that a passing run checks, and each refinement, is a theorem.

* **BitStreamProofs**: `StreamInvariant`, `OffsetAlwaysInArray`,
  `OwnershipIsExact`, `Refinement`. `OffsetInArray` alone is not inductive: the
  array must be as long as its recorded length, the bytes below the offset
  written, and a wrapped string length larger than any offset; `StreamInv` says
  so. It also says that only a new length that its width cuts makes a write leave the
  array: `CutLength` is what is left of a length in so many bits, and `GrowthFits`
  that an uncut one holds both copies. The refinement uses it to show that growing keeps
  the stack's bytes; an overrun, the last step of its behaviour, stutters.
  For the packet: `AcceptedHasAllFields`, `SentBytesAreWritten`, `HandShakeRoundTrip`.
  The invariant knows, at each step of packing, which fields lie in the stream and
  where, and at each step of unpacking that what is left of the stream are the
  fields not yet read; the round trip is the last of these steps.
* **SimTimeProofs**: `SimTimeCorrect`, `UppermostOnly`. The invariant relates
  busy time to the oldest reading; the proof is arithmetic modulo the width.
* **UtilityProofs**, the scheduler: `SchedInvariant`, `ReturnedIsGone`, `WaitIsHonoured`,
  `CancelIsFinal`, `SchedulerImplementsJobs`. `SchedInv` adds where the cursor may be, that trigger times are
  what was asked for, that the walk's reading is not ahead of the time, and that
  cancelled events carry their flag. No assumption is made on where the broken
  walk goes on.
* **ClientNetProofs**: `ClientInvariant`, `OneConnection`, `StageIsEarned`. The
  invariant says that host and peer are made together and stay, and so tell
  whether there ever was an attempt.
* **EngineProofs**: `EngineInvariant`, `HostsAreClosed`, `LoopIsEquipped`,
  `CleansUp`, `KnownDeaths` (a NULL pointer is followed in three situations only),
  `WalkIsSafe`, `GameIsRun`. `EngineInv` says which pointers, singletons, hosts and
  libraries go with each place of the program. `GameIsRun` needs a second
  invariant, `GameAhead`: the flag is still ahead of the walk, or its responder
  is running or has run, as long as nobody else's has.
  `CommandLineIsParsed` follows the constructor's loop: after n arguments the map
  has the flags among them, and each flag a word for every place of `WordsOf`. A
  word's place in its list is the number of words up to it, so the proof is about
  cardinalities of sets that grow by one element.
* **TickLoopProofs**: `LoopImplementsTime`, `LeakFreezesTime`, `SchedulerIsRightInLoop`,
  `WaitHonouredInLoop`, `CancelIsFinalInLoop`, `LoopKeepsJobs`.
  A step of the loop is a step of `SimTime` or leaves it alone, so what is proved
  of the clock holds in the loop. A leaked timer lies under every later one, so
  no later stop is the uppermost: time stands still for good. The scheduler's time
  may go back to 0 here, which it never does in `Scheduler`, so its invariant
  is proved again: `LoopSchedInv` adds that a walk is inside one place of the loop,
  where the time stands still. `LoopKeepsJobs` proves `LoopServesJobs`, about each change to the
  jobs, as a wrapped time takes steps that the time of `JobQueue` does not have.
* **SessionProofs**: `ServerInvariant`: set, objects and slots agree and no deleted
  object is reached, for any number of slots, addresses and packets.
  `HandshakesAnswered` counts the handshakes of a queue by the set of their places;
  a bijection shows what taking one off and adding one does to the count. The
  session's theorems, `SessionImplementsServer`, `HandshakeIsInOnePlace` and
  `StageIsAnswered`, join the two ends: every step of a session is a step of the
  server, so its invariant and its count hold there; `EndsInv` says what the client
  and the lines hold in each state, and `Account` balances what was asked and
  answered on the client's slot with what is under way. `SessionImplementsClient` says
  the same of the other end. `SessionImplementsAdmission` takes each step of a
  session for one of seven moves of the question (it rests, is asked, comes to the
  server, leaves it, comes to the client, is heard, or the connection breaks); it
  needs that the question is in one place also when an end is lost
  (`InOnePlace`) and that a client is connected once (`Once`).
* **SupportProofs**: `DelegatesHaveOneOwner`, `InvokeIsInOrder`, `RemovalIsComplete`,
  `ArraysAreExactInFront`, `HooksAreReached`.
  `OneOwner` is inductive; the proof takes it as two parts, `Ownership` (vector,
  deleted and cached ones) and `Doing` (where a loop stands), since most actions
  disturb one of them. Lemmas say what taking out some elements of a vector,
  putting one in and appending one do to a vector without repetitions. How many
  delegates there are, and how many the called functions remove and add, is open.
  `OrderInv`, for the order of an invoke, is about the delegates that no function has
  added: those called come, in the order that the set had, before all that the loop
  has ahead, and a loop nobody disturbed has called exactly the front. So a delegate
  that is called twice is one that a function added (`TwiceOnlyIfAdded`). `LoopInv`, for a removal,
  cuts the vector as it was before the loop into what the loop has passed and
  what is ahead of it: of the first, the spared elements are in the vector in
  front of the loop's place and the matches are deleted or in `out`, in order.
  `ArraysInv` says that an array is what was intended as long as only its first two
  places were inserted into; the lemmas compute the cells that each offset moves.
  `LogInv` says that while a `Write` runs the hooks before the index are those that
  were called; a hook that adds hooks only extends the table behind it.
* **UtilityProofs**, the rest: `WordsAreReversed`, `StringsStayInBuffers`,
  `ConcatenationIsExact`, `MapLeavesNoTimer`, `MapHasItsShape`. `SetInduction` and
  `NatRecursion` come first: a set with 0 and all successors has every natural
  number, and a function on states has a sequence of values; both from the
  well-founded order of the naturals, for sets and functions instead of operators.
  They give the powers of two and the values that the loop of `StripChar` goes
  through. For swaps: a mask's shift takes each place to the opposite one.
  `StringsInv` says that each buffer is terminated, unless it has one cell, and
  that lengths, stale or not, are below the size of the object's own buffer; for
  concatenations a text is what is in front of the first `Nul`, and the lemmas say
  that there is one such text and what it is for two joined buffers. `GridInv`
  says that the resolution is the power of two that the levels built so far leave;
  that a halved power is a power, and a larger one is zero in its bits, is
  arithmetic of `TwoToSum`. `MapLeavesNoTimer` cites `SimTimeProofs` for the clock.

`OffsetInArray`, `OwnsWhatItManages`, `RunsOnce`, `ConnectsAtMostOnce`,
`HostsWithinEnet` and `LoopHasWhatItUses` are parts of the invariants that the runs check, and `NeverEarly` is part of `ImplementsJobs`; the
theorems name them since they are what a reader looks for.

Only model-checked: the liveness properties `DueEventRuns`, `EventsAreServed`,
`ReachesStageOne` and `GoneClientIsDeleted`. Liveness under fairness and ENABLED are
out of the prover's reach, and so are theorems that take an operator as a parameter,
which is why induction is stated for sets and recursion for functions. The seven
runs of section 6 refute what they check, and nothing is proved of these.

## 6. Findings

Each is a run that TLC ends with the violation:

* `string_read`: `readString(0)` does not find the string just written: it
  searches behind the offset and reads a wrapped number of bytes
  (source/support/BitStream.cpp:136-140).
* `input_array`: the header warns that the stream deletes the array it was
  constructed over when it grows or is destroyed (include/support/BitStream.hpp:36-37);
  it deletes neither (source/support/BitStream.cpp:28). The server counts on what the
  code does, as it destroys the packet of ENet itself (source/network/ServerBase.cpp:116).
* `timer_leak`: one exception in a tick leaves its timer on the stack; from
  then on simulation time stands still (source/engine/CoreSingleton.cpp:175, 210, 212;
  source/support/Time.cpp:48). `FrozenOnceLeaked` shows that it never recovers.
* `disconnect`: `disconnect()` clears `mIsConnected` and then returns because
  it is clear (source/network/OutgoingClientBase.cpp:118-121).
* `connect_again`: `connect` of a client that is not connected returns at once if an
  earlier attempt failed, because its host and peer stay
  (source/network/OutgoingClientBase.cpp:71, 110-114), where the doc says that a client
  not connected is told to connect (include/network/OutgoingClientBase.hpp:40).
  `ConnectsAtMostOnce`, a part of `ClientInv`, states what the code does.
* `removed_list`: the three removals fill `out` only when the instances are not
  deleted (include/easydelegate.hpp:325-328), where their comments say that this is
  when the list is never populated (312-313, 344-345, 374-375). `RemovesAllMatches`
  states what the code does.
* `map_squares`: each column is copied before it is filled, so no level has a
  square (source/support/MapDivision.cpp:65-71).

## 7. Beside its documentation

Behaviour the models contain and no run is spent on:

* `SchedulerSingleton::update` increments an iterator after erasing its node
  (source/support/SchedulerSingleton.cpp:65-69, with a FIXME). A walk may end there, so
  that game code which schedules an event at a lower address in every tick can
  keep one that is due from ever running.
* `write` keeps its new length in a U32: a stream that grows to 2^32 bytes writes
  outside of its array.
* `write` grows the array by the size of the write although part of it may fit;
  the test of floats (source/tests/BitStream.cpp:59) expects another length.
* `connect` returns without a callback for a malformed address and after an
  earlier attempt, although the callback is to come "for any reason"
  (include/network/OutgoingClientBase.hpp:67).
* The length check of `HandShake::unpackData` compares the length of the whole
  packet with the seven bytes of its own fields.
* A sender of a bad packet is never disconnected; a default start as a local
  client updates a NULL host in its first tick; after a failed connect the
  destructor drops a device that was never made; `-dedicated` together with
  `-server` starts a client; `-v`, `-h` or `-tests` with `-game` run the game or not
  depending on the order of the map; PhysFS stays initialised when the engine
  never ran; `run` and `OnEvent` have a path without `return`.
* `OutgoingClientSingleton` is deleted through a base whose destructor is not
  virtual; the model takes what compilers do with it, the base's destructor.
* A resolution of 2^32 or more is cut to 32 bits and gives a grid without levels.
* `DelegateSet::erase(i)` erases nothing, since its second argument is a number of
  elements where the comment has an inclusive index. A set that is destroyed deletes what it holds, but a
  `CachedDelegate` deleted as a `GenericCachedDelegate` leaks its delegate, as
  the destructor of the base is not virtual.
* A function that `invoke` calls and that takes a delegate out of the set makes the
  next one be skipped, and if it was at the end, the iterator passes `end()`.
* `Array::Insert` moves what precedes the index one place down: the third element
  is lost to its neighbour, and with the fourth the copy leaves the new array.
  `Remove` is right for no index (its comment says there is a bug).
* `String`: `+=` does not update the length, so a later `Concat` allocates too
  little; `Sub` writes one place behind its buffer unless the part was cut; the
  constructor for untrusted text keeps one character and no end of a text that
  is too long; `StripChar` does not look at the character that moves to the place
  of a stripped one, and leaves it if it matches too. `is_const`, which a comment wants to do away with, is all that
  keeps a buffer that copies share from being deleted by one of them.
* `SwapEndianArbitrary` reads one byte behind its copy and drops the first.
* `EmitEvent` looks for the delegates and calls none. `Logging::Initialize` writes
  to a null file when PhysFS gives none.

## 8. What is not modelled

* Entities and components, the terrain, the game mode and the incoming client's
  header: data and empty members, no behaviour yet. Reading files
  (`FileReadObject`) forwards to PhysFS; `InputListenerSingleton::OnEvent`
  forwards keys to the GUI; `DebugLog` and the log file's content are output.
* Of EasyDelegate: the `insert` that takes a function (it makes an object of an
  abstract class and does not compile when used), `dispatch`, the copy
  constructors and the comparisons, which change nothing. A function that `invoke`
  calls may remove delegates one by one and add them at the end; one that invokes the
  same set again, inserts and erases by place or removes by function is left out.
* Of String and Array: comparisons and reading an element, which change nothing;
  the copies of an Array the compiler makes, which would share its elements (the one
  copy in the code is of an empty array).
* Of Logging: a hook gets a pointer to the text itself and could change what the
  hooks behind it read; the model's hooks only add hooks.
* Of the endian utilities: the digits of the masks, since a mask is taken to select the
  byte its place says; and the assembly of `BUILD_ASM`, which the default build does
  not use. There `SwapEndianU64Ref` has no body in either branch, as the
  preprocessor compares the flag it has defined to 1 with `> 1`.
* Drawing, the GUI and the input events handed to it; the float `stopTimer`
  returns; the log to which output is redirected; `globalSend` (called by nobody;
  the invariant it needs is `OneClientPerPeer`); a failing `enet_host_create` in
  the client; memory of packets that are not freed.
* The pointer to the last sender of a packet, which the server keeps after that
  client may be gone: `getLastPacketSender` of the class that has it is never called.
* A `cancel` through a pointer whose event was deleted: no caller keeps one.
* `stop()` is an action although nothing in the program calls it.

## 9. The plan

Order of work: buffer and packet first, since everything on the wire rests on
them; then time and scheduler and the loop that drives them; then both network
ends and their session; then the program around them. This much is done:

1. `ByteStack`, `BitStream`, `HandShakePacket` with the refinement and its proof.
2. `SimTime`, `Scheduler`, `TickLoop`, with proofs of the first two.
3. `ServerNet`, `ClientNet`, `Session`, with proofs of both ends.
4. `CommandLine`, `Engine` with proofs, `MapDivision`.
5. `Delegates`, `EventManager` with `Array`, `Strings`, `Logging`, `Endian` and their
   composition.
6. Proofs of the loop, of the session, of delegates, logging and the map.
7. The abstract specifications `JobQueue` and `Admission`, with the refinements checked
   and proved.
8. Proofs of what was left of safety: the packet, the command line, removals and the
   order of an invoke, arrays, strings, swaps and the map's levels.

Next:

9. Theorems about the abstract specifications themselves, for their users: what a
   stack, a queue of jobs and an admission promise in each state.
