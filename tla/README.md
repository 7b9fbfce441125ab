# murm386: a verification development

murm386 is a PC for RP2350 boards: 286 and 386 cores, a BIOS and a port of the FreeDOS kernel compiled into one firmware, and the devices of a PC around them. This directory models the parts of it that keep state for the guest and that several callers reach in orders no test writes down. Every module is a translation of the C or C++ file its header names; `PROJECT.json` gives, for each definition, the lines it stands for.

Modules are checked with TLC on small instances. Eight components are also proved about with TLAPS, for all sizes.

## 1. The system

| Component | State | Operations | Who calls it |
|---|---|---|---|
| guest-RAM paging (`ega128_paging.c`) | page cache, dirty bits, hot list, victim pointer, page file or SPI PSRAM | loads, stores, page pointers, flush | every guest-memory access on boards without QSPI PSRAM |
| block transfers (`mem.h`, `kernel.c`) | none of their own; host pointers into the page cache | read, write, find, move, fmemcpy | DOS kernel, BIOS, DMA |
| interrupt controllers (`i8259.c`) | two sets of registers, the CPU's `intr` flag | set a line, acknowledge, OCW/ICW writes, poll | devices in the main loop, the timer interrupt of core 0, the CPU, the guest |
| sector cache of the DOS kernel (`blockio.cpp`) | a ring of buffers in guest memory, the disk | getblk, flush, invalidate, direct transfers | file system, INT 25h/26h, INT 21h |
| keyboard controller (`i8042.c`, `bios_09h.c`, `bios_33h.c`, `bios_15h.c`) | two byte queues, a delayed byte, mode, line levels | key and mouse events, poll, port access | input in the main loop, INT 09h and INT 74h, INT 33h and INT 15h/C2h |
| sound playback (`sb16.c`, `i8257.c`) | run state, block counters, a ring of samples, DMA request and mask | DSP commands, DMA run, sample timer | guest and main loop on core 0, sample timer on core 1 |
| interval timer (`i8254.c`) | mode, period, load time, ticks given | port access, catch-up | guest, timer interrupt of core 0 |
| SD sector cache (`sdcard.c`) | direct-mapped lines in memory lent by others (L1), lines in the tail of QSPI PSRAM (L2), epochs | read, write, trim, initialise, attach and detach memory | FatFs, hence disk images and the page file |
| DOS memory manager (`memmgr.cpp`) | the chain of memory blocks in guest memory, the block lent to the SD cache | allocate, free, resize, link UMBs, end a process | INT 21h, program loading |
| DOS files (`fatfs.cpp`, `fattab.cpp`) | the FAT, free count and hint, directory entries, file handles | open, create, close, read, write, truncate, delete, rename | INT 21h |
| disk cache over the two-chip link (`diskcache.c`, `link_fast.c`; C2 board) | tags on the first chip, sectors on the second, the FIFOs between them | read, fill, invalidate; read and write bursts, serving them | `disk_read`, `disk_write` |
| CPUs, translator, FPU | architectural state | instructions | main loop |
| BIOS and DOS services | tables in guest memory | interrupts | guest programs |
| video, sound, input, settings | device registers | port access, drawing | guest, user |

How they interact: everything that touches guest RAM goes through the pager, so any of those calls may replace any page and invalidate a host pointer that another one holds. Devices reach the CPU through the interrupt controllers. The main loop runs on core 0, the timer interrupt preempts it 44100 times a second, and audio, video and input run on core 1. DOS buffers and memory blocks live in guest memory; the SD cache borrows a free DOS block.

What is hard here:

- a pointer or a buffer obtained from one cache and used after another call has replaced its contents;
- read-modify-write sequences of the main loop cut by the timer interrupt;
- evictions, flushes and mirrored writes of which one transfer fails;
- transfers that go round a cache;
- protocols that name nothing (a non-specific EOI) and must still act on the right thing;
- memory lent to a cache and taken back, which only an epoch tells apart from the memory it was;
- queues with a reserve, and codes of several bytes of which only a part fits;
- one data register that interrupt handlers and BIOS calls both read;
- two cores that share flags and ring positions without a lock;
- a clock that wraps, and a timer interrupt that comes late;
- a link without flow control or acknowledgements, on which both ends give up;
- file operations of several steps (FAT entries, directory, handle) of which one fails, and chains that are damaged;
- an edge that has been latched and must eventually be delivered.

What makes each component correct:

- *pager*: guest RAM is plain memory; a failing transfer damages only the page being transferred; a flush that reports success has saved everything;
- *block transfers*: the bytes moved are the bytes asked for, wherever the ranges lie and whatever pages get evicted meanwhile;
- *interrupt controllers*: an active request is signalled, a slave's request is never lost on the cascade line, handlers nest by priority, EOIs end their own lines, every edge is delivered;
- *sector cache*: the next reader gets what was last written; FAT copies agree; flush results are true; a buffer in use is not handed to another sector;
- *keyboard controller*: every key the program sees go down comes up again; mouse packets stay whole; the status names the device whose byte is shown; what is queued is eventually read;
- *sound*: no sample is overwritten or played twice, a stopped device asks for nothing, a single block ends once, every block ends;
- *timer*: never a tick too early, and after a pause the ticks are made up for;
- *SD cache*: a lookup finds what the card holds;
- *disk cache*: a hit is what the card holds, whatever bursts were given up or came late;
- *DOS memory*: the blocks tile memory, the largest block reported can be had, a process that ends gives everything back, the lent block lies in free memory and neither side damages the other;
- *DOS files*: every file is a chain of its own, long enough for its size; no cluster is lost without a failure; transfers go where the chain says; the free count is right; every call ends.

`PROJECT.json` lists every component, those left out with the reason, and the hazards at their lines.

## 2. Modules

| Module | Models | Uses |
|---|---|---|
| `GuestRam` | the promise of the pager: byte memory in which some pages may be damaged by faults | |
| `Ega128Paging` | `ega128_paging.c` | refines `GuestRam` |
| `GuestBlock` | block transfers over the pager, one loop iteration per step | extends `Ega128Paging` |
| `GuestMemoryProofs` | theorems about both | |
| `I8259` | `i8259.c`, one port access or line change per step | |
| `I8259Isr` | the same operations cut at their loads and stores by the timer interrupt | extends `I8259` |
| `I8259Handlers` | the controllers with nested guest handlers | extends `I8259` |
| `I8259Proofs` | theorems about the three | |
| `BufferCache` | `blockio.cpp` and the transfers round it | |
| `BufferCacheProofs` | theorems about it | |
| `BufferCacheFat12` | FAT12 entries over two sectors (`fattab.cpp`) | extends `BufferCache` |
| `SdCache` | both levels of the cache of `sdcard.c` under `disk_read`, `disk_write`, trim and initialisation | |
| `DiskCache` | `diskcache.c` and both ends of `link_fast.c`, one word or wire transfer per step | |
| `DiskCacheProofs` | theorems about it | |
| `DosMemory` | `memmgr.cpp` as operators on memory | |
| `LentMemory` | the DOS calls, the SD cache and the block one lends the other | composes `DosMemory` and `SdCache` |
| `LentMemoryProofs` | theorems about the three | |
| `I8042` | `i8042.c` with the handlers of INT 09h and INT 74h and the calls of INT 33h and INT 15h/C2h that set the mouse up | |
| `I8042Proofs` | theorems about it | |
| `Sb16Dma` | 8-bit playback over its DMA channel, on two cores | |
| `I8254` | channel 0 of the timer and its catch-up | |
| `SoundTimerProofs` | theorems about both | |
| `FatFiles` | FAT chains, file handles and directory entries of the DOS kernel | |
| `FatLayout`, `FatFilesProofs` | the layout of a volume, the steps a call has left and the other invariants of the proofs; theorems about `FatFiles` | |
| `MC...` | bounds, wiring and menus of the runs. `MCDevices`, `MCHandlersAndBuffers`, `MCIsrAndFiles` and `MCPicAndLink` put components that share no state into one run: a variable chosen at the start (`part`, `menu`) says which one works | |

### Guest RAM

The C statics are the fields of the record `c`, so that `MapPage` is an operator that composes: an access that straddles two pages calls it twice, in either order for loads, because C leaves the order of the two calls in one expression open. `Outcome` describes the write and the read of one eviction: a failing page-file write may leave any part of the page in the file, a failing read gives zeroes. `lost` is history: pages whose contents a fault has damaged. `GuestRam` allows a damaged page to change in any step and every other page only by the stores of the guest.

Init is the state after a successful `ega128_paging_init`; when it fails the machine does not start.

`GuestBlock` adds the loops. One iteration resolves its pointers through `MapPage` and copies, which is where a second resolution can invalidate the first. History fields carry what guest RAM should look like and whether an iteration has used a stale pointer.

### Interrupt controllers

`pics` holds both controllers (`irr`, `imr`, `isr`, `last_irr`, priority, initialisation state); `intr` is the flag the raise callback sets in the CPU. `Device`, `TakeInterrupt` and `Guest` are the callers. `settled` records whether the last operation ended in `pic_update_irq`, as OCW3, ICW1 and ICW4 do not.

`I8259Isr` divides `irr |= mask` of the main loop into a load and a store and lets the timer interrupt pulse its lines at any point in between. Only the CPU's acknowledge is protected.

`I8259Handlers` keeps the usual guest protocol: handlers run with interrupts enabled, and end with non-specific EOIs, slave first.

### Sector cache

`k` holds the ring (`firstbuf`, `prev`, `next`), the buffer headers and contents and the disks. The loops of the C++ code follow `next` from `firstbuf`; `Walk` is that path. `Getblk` composes `SearchBlock`, `Flush1` and the read; its results are enumerated by `Getblks`, one for every way its transfers can end. A transfer succeeds, fails, or is ignored by an INT 24h handler, when `dskxfer` reports success for it.

Sectors are opaque values, FAT sectors are stored `Fats` times. `want` is the last contents the file system was told it stored. `suspect` collects the sectors for which the code gives no such guarantee: hit by a transfer error, dropped unwritten by INT 21h/7305h or the reinsertion of a medium, or written by INT 26h behind a cached copy. The properties hold for all the others.

`MoveBuffer` keeps the order of the loads and stores of `move_buffer`. They make the last buffer of the ring point to itself, so that after the first miss the ring has one buffer. What the run shows of the cache are therefore properties of that one-buffer cache; they are stated for any ring, and the operators walk any ring.

### SD sector cache and lent memory

`arena` gives the number of lines of each of the three arenas of L1 and `line` their contents by slot; a change of any arena's size moves every sector to another slot, so that all of L1 is invalidated by its epoch. An arena that comes back finds in its memory what was there before or what others left. L2 is the memory above `floor`, the highest floor of its owners; its lines below the minimum never move, those above may come back written over (`OwnerLines`). `card` is what is on the card. Trims are steps of the model, but FatFs is built without them (`ffconf.h`, `FF_USE_TRIM`), so that none reaches the card in the program: what holds with them holds without. Contents are opaque; `Garbage` is what a copy from a NULL line yields (see the findings), `Foreign` what another owner of the memory wrote.

A hit of several sectors is copied one at a time (`ReadStep`), because each copy from L2 stores a line in L1. A write goes to the card first and then to both levels; a failing one drops its sectors from both.

`DosMemory` keeps memory by paragraphs, each a header or data, and follows the chain as the code does; joining happens only inside the searches. Its calls are operators from memory to memory; `LentMemory` makes actions of them, each followed by `Refresh` where the code calls `refresh_ff_low_cache_arena`, interleaves them with the cache's operations, and lets programs write to the blocks they own. A line of arena 2 is a set of paragraphs there, so that whoever writes to them is seen by the other side.

### Disk cache on the second chip

`there` and `back` are the two buses, each a FIFO at the sender and one at the receiver; `WireThere` and `WireBack` move a word between them and wait for nobody. `call` is the read of the first chip, `slave` the place of `linkf_serve` in a request. A fill posts its words without an answer and sets the tag; a read waits for its words. Each wait may time out at any moment, whether the word is still coming or not.

A word that finds the receiver of the second chip full ends the behaviour (`lost`): `diskcache.h` says that the cache is not correct from then on. Words lost on the way back go on being modelled: they can only make a burst incomplete, so that it times out and the cache is switched off. `behind` is history: the sectors that were trimmed, or belong to another card, since they were cached.

### Keyboard, sound, timer

A byte in `I8042` is what the handlers tell apart: E0, a make or break of a code, an answer. `kq` and `mq` are the queues, `delay` the second byte that follows an E0 later, `level` and `irr` the lines and the requests latched by their edges. INT 09h is two actions, because the native handler reads the byte and works on it in its second phase. `lost`, `torn`, `eaten` and `mangled` are history: a refused part of a code, a byte queued inside an extended code, bytes that a BIOS call took from the handlers, bytes of two packets taken for one.

The handlers are not the only readers of port 60h. A reset of the mouse driver (INT 33h, `MouseReset`) asks the controller for its mode and takes the next byte for it, sends the mouse two commands and reads an answer for each, which may be a byte of a packet, and forgets the packet that was begun (`pkt_idx`). The calls of INT 15h/C2h (`MouseCall`) read whatever comes next as an acknowledgement and, if it is one, the bytes after it as the answer. Such a call is one action, because the poll and the handlers do not run inside it; it works on the record `Port`, so that `Read` and `Sent` compose as the accesses do. `eaten` names the keyboard if bytes of it waited at such a call, and the mouse if the call leaves the rest of a packet at the head of the queue or takes bytes from under a packet that INT 74h has begun.

In `Sb16Dma` core 0 runs DSP commands and the DMA channel; core 1's sample timer is four steps (`core1`): it reads the ends of the ring, stores the advanced end, checks `dma_running`, and sets the request. `late` and `raced` are history: a request set after the stop, a flush inside core 1's advance.

`I8254` keeps the distance of the clock from the load time modulo `Word`, and beside it as history the real time and the ticks given. An update gives at most `MaxTicks`; before the clock wraps it reloads. Updates are due every `Pace` microseconds and each may be late by up to `MaxLate` (`lag`): the repeating timer of `main.c:2374` keeps its schedule, so that the update after a late one comes that much sooner. A load of the count falls anywhere between two updates (`fresh`).

### DOS files

`vol` is the FAT with the free count and the hint of the DPB; `sft` are the handles, which cache a cluster and its place in the chain and write size and start back only when closed; `dir` the directory entries. A cluster is one sector. `call` is the DOS call in progress with its place in the code: each FAT entry followed, extended, cut or wiped, each transfer and each directory write is a step, and any of them can fail (`Fails`). A request carries its position, as a seek before it would set.

`seeded` is history: the code itself accepts that a failing directory write after the FAT was wiped leaves a "crosslink seed" (`fatfs.cpp:2148`), and so does a failing flush after a truncation or a failing close. From then on the volume is damaged and only `FreeCountTrue` and `CallsEnd` are promised. The second half of `FatInit` starts from any damaged FAT at all.

## 3. Runs

| Run | Question | Bounds |
|---|---|---|
| `paging_faults` | is guest RAM plain memory when the page file fails? | 3 pages of 1 byte, 2 slots, 1 hot entry; all accesses straddle |
| `block_exact` | are block transfers exact although they evict pages, and disjoint copies unless a pointer goes stale? | 3 pages of 2 bytes, 2 slots, 3 hot entries, transfers of at most 2 bytes |
| `pic_and_link` | is every request signalled, none lost on the cascade? Is a hit of the disk cache what the card holds? | 4 lines per controller, one device on each; 3 sectors of 3 words, 2 slots, FIFOs of 2 words, requests of 2 sectors, 1 change of the card |
| `handlers_and_buffers` | do nested handlers end their own lines, is every edge delivered? Does the sector cache of DOS return what was written, through errors and media changes? | 2 edges per device; 2 drives, 1 FAT sector stored twice, 1 data sector, 3 buffers, direct transfers of at most 2 sectors |
| `isr_and_files` | what can the timer interrupt cost, what not? Do files stay whole when any access fails, and do calls end on any damaged FAT? | devices on master 1 and slave 1, timer lines 0; 3 clusters, 2 files, 1 handle, sectors of 2 bytes, 1 failure, 2 calls on a damaged volume |
| `pic_isr_ticks` | is every timer pulse latched? (no) | the controllers of the previous run |
| `buffer_twice` | are the halves of a straddling FAT12 entry in two buffers? (no) | 6 buffers, the kernel's minimum |
| `sd_cache` | does a lookup ever find a stale sector? | 3 sectors, 2 contents, 2 arenas of at most 1 line, 2 lines of L2, epochs 1 and 2, requests of 2 sectors |
| `sd_read_displaced` | are the sectors of a cached read all there when they are copied? (no) | 2 sectors |
| `lent_memory` | do DOS and the cache it lends memory to leave each other alone? | 11 paragraphs with the bridge at 9, lines of 2 paragraphs, one process, sizes 1, 2, 3 and one too large |
| `devices` | which races, full queues and BIOS calls cost a key, a packet, a sample, an interrupt or a tick? | see below |
| `mouse_reset` | does a reset of the mouse driver keep the keyboard's interrupt on? (no) | the queues of the previous run |

Why the bounds are enough:

- *Paging.* With more pages than slots every access can evict any other page, including the other page of the same access. Two slots and a straddling access is the tightest case. `FewestFaults` allows one damaged page and one page in the file; a second one adds no new relation between a slot and the file. Hot entries that outlive their pages arise in `block_exact`, where there are more entries than slots.
- *Block transfers.* A transfer of two bytes over pages of two bytes starts and ends in every position relative to a boundary and touches one or two pages; together with two slots, source and destination compete for them. `FewBytes` bounds memory between transfers; a transfer under way is always followed to its end. `menu` picks the group of transfers of a behaviour.
- *Interrupt controllers.* Four lines leave one line above the cascade and one below it: the priorities a rotation can distinguish. `menu` picks a family of guest commands for a behaviour.
- *Handlers.* Two edges per device are the least with which an edge can arrive while the previous one is in service.
- *Sector cache.* `FewContents` and `FewFaults` allow one sector that is not zero and one suspect sector: a stale sector needs one differing content to be seen. The second drive is what makes unit comparisons matter.
- *SD cache.* With three sectors and one or two slots, sectors collide and move when an arena comes or goes. Two epochs make every second invalidation wrap. Contents are interchangeable (symmetry).
- *Disk cache.* Three sectors in two slots collide; a sector of three words is longer than a FIFO, so that every burst can be cut at each word, either receiver can be full, and words of an answer get lost when the first chip does not read in time. `AtRest` is the cache that stays off.
- *Lent memory.* Eight paragraphs of conventional memory hold up to three blocks, which is what splitting and joining need, and the upper part two. The size that never fits makes allocation report the largest block.
- *Devices.* The constants are scaled, not the logic: a queue of 4 bytes with a reserve of 2 (256 and 32), room for 3 bytes asked before a movement of up to 2 packets (16, and as many packets as the counters hold); both Ctrl keys, one of them extended, and 5 events; a ring of 2 samples with counters modulo 8, blocks of 1 and 3, so that a block fits the ring or exceeds it, and 4 commands; a clock of 196 values, bytes of 2 values, periods of 1 to 4, 2 ticks per update, an update every 4 microseconds that may be as late again, so that the gap between two can be 12 and the ticks of an update fall short of what is due by several periods, which `InStep` then leaves to the next ones. The guest either sends the controller commands of its own or makes the BIOS calls; both in one behaviour only multiply the answers that wait.
- *Files.* Three clusters let a file of two or three sectors be contiguous or not, leave too few for a second one, and contain every shape of damage: a cycle, a cross link, an end that is missing, a chain into free clusters. A request of 5 bytes over sectors of 2 has runs of whole sectors and a part at either end, and position 3 lies inside a sector, 4 on a boundary beyond a small file. One failure is placed at every access of every call.

Deadlock checking is off where a system may really stop: `handlers_and_buffers`, `devices` and `mouse_reset`, whose events are counted, and `sd_cache`, `sd_read_displaced` and `lent_memory`, where a card that failed and has not been initialised ends the run. In `isr_and_files` the guest may stop asking, but a DOS call that cannot go on is a deadlock.

## 4. Fairness

- `I8259Handlers`: weak fairness of `Enter`, `SlaveEoi` and `MasterEoi`. The CPU loop tests `intr` before every instruction while the guest has interrupts enabled, so a pending interrupt is taken; and the handlers of the BIOS end with their EOIs. Devices are not fair: they may stop at any time. `EveryEdgeDelivered` needs nothing of the devices.
- `I8042`: weak fairness of the poll of the main loop, which moves a delayed byte into the queue, and of the handlers INT 09h and INT 74h, for the same reason. Key and mouse events, commands and mode changes are not fair. `Drained` is about the guest that finally enables both devices and their interrupts.
- `Sb16Dma`: weak fairness of `DmaRun`, which the main loop calls in every round, and of core 1's sample timer. Commands are not fair.
- `I8254` and `FatFiles` assume none: `InStep` bounds one update, and `CallsEnd` bounds the steps of a call by what it can reach, which implies that it ends and needs no fairness.

## 5. Proofs

`GuestMemoryProofs`, about `Ega128Paging` from `SizesAssumption` alone (any numbers of pages, slots and hot entries of at least one, any page size, accesses of at most a page and a byte):

- the inductive invariant `IInv`: the cache record has its type, no page is in two slots, and clean slots agree with their backing copies unless damaged. None of the three is inductive without the others: that a clean slot may be discarded depends on its being the only one for its page, and that a hit returns the slot depends on the types of the hot list;
- `TypeCorrect`, `NoAliasHolds`, `CleanAgreesHolds` from it;
- `FlushTruth`: every flush that returns true has saved all of guest RAM;
- `Implements`: the pager refines `GuestRam`. The argument follows the code: `MissIsGood`, `MapPageIsGood` and `PokeIsGood` say what one call does to the guest's view, and each access composes one or two of them.

and about `GuestBlock` from `SizesAssumption` and `BlockAssumption` (any lengths, accesses of at least a byte):

- between two iterations the pager is in order (`Good`, from the invariant above) and has lost nothing, so guest RAM is one array, `Image`. Mapping a page leaves it alone; a read through a pointer gives a slice of it and a write changes one, as long as the pointer's slot still holds the page;
- the inductive invariant `BInv` says for each loop what part of the transfer is done and that what is left to copy still finds its source as it was at the call. For overlapping moves that is the choice of the direction: a byte is read before the copy comes to it;
- `TransfersAreExactHolds`, `MovesExactUnlessStaleHolds`. The only use of a pointer whose slot has changed hands is the one `stale` records.

`I8259Proofs`, from `LinesAssumption` (any number of lines, any wiring, any guest commands and masks):

- the strengthening is `CascadeLow`: between operations the cascade line is low in `last_irr`. Without it the pulse that `pic_update_irq` makes for the slave would be no rising edge;
- `TypeCorrect`, `SignalledHolds`, `CascadeKeptHolds`: one lemma per operation that it preserves the invariant;
- for `I8259Isr`, with `IsrLineAssumption` (any lines of the timer interrupt): whatever irr lacks of what was requested since the main context loaded it is a line of the timer interrupt or the cascade, and after the look at the slave the cascade is requested if it has to be. `RequestsLost` names the three steps that can take a request away, and from it follow `OnlyWindowsLoseTicksHolds` and `DeviceRequestKeptHolds`; `IdleConsistentHolds` is the invariant between operations;
- for `I8259Handlers`: the stack of handlers and the lines in service are the same thing (`Served`): on the master strictly nested, on the slave one handler at a time, because the cascade line is in service for it. No vector is spurious, since `intr` and the cascade request stand only while there is something to acknowledge. Without that a handler would be entered for no line and its EOI would end another's. `NestedServiceHolds`, `EoiEndsOwnLineHolds`;
- of `EveryEdgeDelivered`, all that needs neither fairness nor ENABLED. A request leaves the controllers only as the vector of its device (`RequestsOnlyTaken`). It is on intr as soon as nothing in service on its way to the CPU is of its priority or above, and always when no handler runs (`ForemostSignalled`); this needs the first invariant, `Signalled` and `CascadeKept`, together with the second. And between two edges every step decreases the number `Left` (`HandlersEnd`): a handler costs a request and is worth three, one for each EOI and one for the slave's line; the pulses of the cascade line count for nothing, because they request no device's line. What is left to fairness is that a step that can be taken is.

`LentMemoryProofs`, about `SdCache` from `SdAssumption` (any arenas, any number of lines, sectors and epochs, any memory left by other owners):

- the inductive invariant speaks of every line of a level, not only of those a lookup may find: no line has an epoch to come, so that the counter may advance; a line of the current epoch in its own slot holds what the card holds (or, in L1, garbage: the finding below). Of L2 it speaks below the floor only, for above it the memory is its owners';
- `SdInvariance`, `TypeOKHolds`, `LinesTrueHolds`, `ReadsTrueHolds`. The remainders of slots are settled once, in lemmas about slots;

and about `DosMemory` and `LentMemory` from that, `MemAssumption` and `LentAssumption` (any sizes of both parts of memory below 65535 paragraphs, any processes, any size of a line, any sizes asked for):

- `Tiled` says without recursion that a set of headers tiles memory: behind each comes the next or the end of its part, and the types mark the ends that the link asks for. A walk from a header then meets exactly the headers from there on (`Part`); a greatest counterexample shows that this is what the recursive `Walk` gives;
- `Left` says what a step may do to memory: a paragraph that is a header neither before nor after, nor inside a free block after, keeps what it held. Every call leaves memory tiled and keeps to `Left`: joining removes headers, taking a block or cutting one adds a header inside a free block or the caller's own;
- a search joins and so keeps the room there is: what the report of `DosMemLargest` was made of is still there for the allocation that follows, whatever its strategy, and, when the area is upper memory first, for its second search too;
- the lent arena lies in the payload of one free conventional block. The steps of the cache write to its lines only, so never to a header; a call that moves, splits or joins the block tells the cache before the two go on;
- `LentInvariance`, `ChainsTileHolds`, `LargestIsObtainableHolds`, `TerminationFreesAllHolds`, `LentIsFreeHolds`, `ProgramsUntouchedHolds`. The attempt found that `Settled` was a `CASE` of which two arms could hold at once, nothing fits and the strategy; it now says which comes first, as the code does.

`DiskCacheProofs`, from `DiskCacheAssumption` (any sectors, slots, sector sizes, FIFOs and lengths of requests):

- nothing on the link says what a word is: that follows from its place in the stream alone. The inductive invariant `LinkInv` says that there are places for the words under way to the second chip (which burst, and where in it) such that each fits its word and follows the one before, that the second chip stands where the last word taken left it, and the first chip where the last word put did. A burst that was given up leaves no gap in this, because the cache is never used again;
- a tag is true of what the last burst to its slot brings, or of the slot when none is under way. A hit sends its request behind all of them;
- the words of an answer, received and in flight, are as many as the second chip has sent, and fewer once one was lost. So a damaged answer never has all its words, and its call ends by the time-out;
- `LinkInvariance`, `HitsTrueHolds`.

`SoundTimerProofs`, of playback from `Sb16Assumption` (any ring, block and channel sizes, any number of commands):

- the strengthening is what core 1 relies on between its steps: unless the ring was flushed under it, the read end is what it has read and the sample it takes is still there; and a single block that has ended has stopped the device;
- `RingSoundHolds`, `StoppedIsQuietHolds`, `SingleEndsOnceHolds`;
- that a block comes to its end (`BlocksEnd`) needs that the two cores never set each other back. `ToGo` is 13 times the bytes left of the block plus what core 1 has to do, at most 12 steps, until the channel can go on (`Near`: the request is set and the ring has room). The channel drops the request where the ring cannot take all it was given, core 1 sets it again after its next store, and a store that goes on from an end read before a flush can leave the ring without room (`Spoils`): all three are in the measure. `BlockNears`: between two commands `ToGo` falls with every run of the channel, falls with every step of core 1 unless the channel can go on already, and never rises. So only that `DmaRun`, as long as the channel is not masked, and `SampleStep` run is left to fairness;

and of the timer from `PitAssumption` and `PaceAssumption` (any words and bytes, writes and modes; updates that are late by any time up to `MaxLate`, as long as periods and pauses are short against the clock's range, and due often enough against the ticks they may give):

- the count at which a tick is due is compared modulo the range, so a backlog of half the range would read as ticks to come. The inductive invariant `PitInv` bounds the backlog: five times the counts owed are at most five periods and four times the microseconds the channel has been in use. Up to half the range this keeps the distances apart; past half the range nothing is owed but the tick that loads the channel again, and after that the old distance makes no further tick due (`NoneDue`);
- what the loop of `i8254_update_irq` gives follows from a least counterexample: as long as it may go on, it stops within a period of the clock and never beyond it (`TicksDue`);
- `PitInvariance`, `NeverEarlyHolds`, `InStepHolds`. The attempt found that `NeverEarly` does not hold for arbitrary constants, and the two assumptions are what it takes. The code meets them: periods of up to 2^16 against a range of 2^32 leave room for `MaxLate` of nearly three minutes, and updates are due every 22 microseconds (`main.c:2374`) and give up to ten ticks, 44 <= 50. `PaceAssumption` says nothing of single gaps, which may be as long as `MaxPause`, but of the schedule: even with a period of one count, when ten ticks are fewer than come due in 22 microseconds, the backlog stays under half the range until the channel is loaded again.

`I8042Proofs`, from `KbdAssumption` (any keys and codes, queue sizes, reserve and margin, any number of events and BIOS calls):

- the bytes of the keyboard that nobody has worked on form one stream: the byte the handler has read, the queue, and the delayed byte. The inductive invariant says of every code that the guest takes for pressed, or will when it comes to its make, that a break follows further on or the key is held, as long as nothing was refused or torn apart. `NoKeyStuck` is what remains when the stream is empty;
- that refusing makes costs nothing needs the reserve: no make stands in it, so a key whose make was queued finds room for its break, or `lost` tells;
- the mouse's bytes behind those of the packet the handler has begun are whole packets and answers;
- what the BIOS calls read is the head of a queue. `Cut` says of a queue that every packet in it is whole but for the first, which may have lost its start: reading at the head and appending answers keep that, and it is `Aligned` again unless the rest of a packet stands at the head, which is when `eaten` names the mouse (`MouseResetStep`, `MouseCallStep`). Of the keyboard nothing is eaten if its queue was empty: then the answer is the only byte a call finds. That the lines are true holds through every access of a call (`PortInv`);
- that a line that is up has its request latched (a part of `StatusTrue`) takes that every read lowers the line before it raises it again. With it `NothingStalls`: while both interrupts are on and bytes wait, a handler has a byte in hand or is requested. And `WorkEnds`: without further events every step decreases the number `Work`, in which a byte to read weighs more than a byte to handle and the two requests its reading can make. Of `Drained`, which stays with TLC, this leaves to fairness only that the handlers and the poll do run;
- `StatusTrueHolds`, `NoKeyStuckHolds`, `PacketsWholeHolds`. The attempt to prove the invariant found the model at fault: the handler ignores 2A and 37 only behind an E0, and a key of such a code alone is pressed like any other.

`FatFilesProofs`, from `FatAssumption` and `MarksAssumption` (any number of clusters, files and handles, any sectors, requests and numbers of failures, and any FAT at the start; the marks for "no entry" and "no handle" are no entries and no fnodes):

- of the free count: `link_fat` keeps the count with every entry it writes, provided that the entry is one of the FAT. So the strengthening `IInv` follows the clusters: what a call, a handle or a directory entry remembers is a cluster or nothing, an fnode that is in a chain has a start, and every place a call returns to is one that goes on with such an fnode;
- of the files: `FilesWhole` speaks of whole chains and of the states between calls, and a chain is as long as the volume is large. `FatLayout` replaces both. A layout gives each cluster an owner (a file, or what is being wiped) and a place there, so that a chain is described by what each of its clusters says of the next one; `WInv` says that the FAT, the directory, the handles and the call in progress agree on such a layout at every step, until a failure has seeded a cross link. What a read or write knows at each point of the code is `RwAt`: that `map_cluster` walks from a place before the one it looks for, what each of the four places it returns to relies on, that a run's sectors are where the file has them, and that `shrink_file` cuts at the cluster of the last byte it keeps;
- a step changes the layout in one of five ways: a cluster joins a file, the end of a file is cut off, the first of what was cut off is freed, a file has another name, or, only when something failed, the clusters of an owner are dropped and are nobody's. `Kept` says that until something fails nobody's clusters are free. While a call is under way its handle may be behind the chain (`Stale`): it knows a file that had no clusters, or a shorter size;
- that a layout gives the properties follows from a least counterexample: the i-th of the links that `Nth` follows is the cluster whose place is i, and distinct places of one file are as many as its clusters (`PlacesAreFilled`, `ChainsFit`);
- `Invariance`, `FreeCountTrueHolds`, `LayoutInvariance`, `FilesWholeHolds`, `NothingLostHolds`, `TransfersInPlaceHolds`;
- that calls end must not depend on what the FAT looks like: a damaged one may have cycles, cross links and chains into clusters that are free. What bounds a read or write is not the chain but the places of the file: `map_cluster` counts `rel` up to the place it looks for, and no place lies behind the furthest byte m a request can name (`Reach(m)`). `SInv(m)` says that the steps made and those left at most are within 4 * (m \div SecSize + LastCluster). At most four steps go to one place (look for it, find it, end a run there, transfer it), a cut or an extension ends the call's way with one step for each cluster at most, and wiping frees a cluster in every step. The invariant needs what each point of the loop knows (`UnderWay`, `Seeks`, `RunUpTo`), above all that `map_cluster` only starts again at the first cluster where the target lies before the place the handle has. `StepsInvariance`, `CallsEndHolds`. The attempt to prove the bound found it too small: three steps for each place and cluster are enough for the sizes of the run, where there are about as many clusters as places, but not for a long request over a cycle of few clusters.

`BufferCacheProofs`, from `CacheAssumption` (any number of buffers and drives, any number and size of FATs, any data area, values and transfer lengths):

- the ring has one of two shapes, the one `config_init_buffers` made over empty buffers or a first buffer linked to itself (section 2), so that only the first buffer can hold a sector. The rest of the invariant is about that buffer: its FAT flag is set if it is dirty and its sector is one of the FAT, what it holds, or else the disk, is what was last written, and the copies of a FAT sector differ only while it is dirty. Without the flag the mirrors would be missed, and without the two shapes nothing says which buffers a loop over the ring meets;
- what the loops of `searchblock` and `flush_buffers` do is proved by a least counterexample (`LeastNat`) about the functions `Walk` and `FlushSet` are made of;
- `RingClosedHolds`, `CacheCoherentHolds`, `FatsAgreeHolds`, `FlushReportsTruthHolds`. They would have to be proved again for a `move_buffer` that keeps the ring; the run checks the same formulas.

Every safety invariant and every safety action property that the passing runs check is so proved. Only model-checked: `EveryEdgeDelivered`, `Drained` and `BlocksEnd`, because liveness is out of reach of the prover; the progress in every step that each of them needs is proved, see above.

## 6. Findings

1. `i8259.c:64`, run `pic_isr_ticks`: a timer pulse between the load and the store of `irr` is lost. `OnlyWindowsLoseTicks` shows that this is the only way to lose one.
2. `blockio.cpp:252`, `move_buffer`, run `buffer_twice`: `first.prev` is read before the buffer is unlinked. The first miss shrinks the cache to one buffer, and a FAT12 entry that straddles two sectors is written into the wrong one.
3. `sdcard.c:356`, run `sd_read_displaced`: storing one sector of a cached read in L1 can displace a later sector of the same read, which is then copied from a NULL line.
4. `bios_33h.c:438`, run `mouse_reset`: a reset of the mouse driver takes a key's code that waits for the controller's mode and writes it back. If the code has bit 4 set (the makes and breaks of the keys 10h to 1Fh, 30h to 3Fh and 50h to 5Fh), the keyboard is disabled, against the comment `keep keyboard IRQ1 on` (line 445); the code itself is lost to INT 09h, and a key whose break it was stays pressed.

Behaviour that passing runs characterise and that a reader should know:

- `mem.h:467` (`guest_move_block`) and `kernel.c:1377` (`fmemcpy`) use one host pointer after resolving another; `MovesExactUnlessStale` says that this is the only way they can fail, and histories in which they do exist.
- `i8259.c:224`: OCW3 and the initialisation words change the active request without `pic_update_irq`; `Signalled` is therefore about the states in which it has run (`settled`).
- Keyboard: releases of keys whose make was refused use up the reserve, so that a release of another key may be refused; the E0 of an extended key is queued without its second byte, between which PrintScreen or an answer may go; the E1 of Pause is cleared at the byte after it (`bios_09h.c:257`), so that the rest of Pause toggles Num Lock; a movement of more packets than the margin fills the mouse queue inside a packet. And the BIOS calls that set the mouse up read bytes of the handlers: INT 33h/0000h and 0021h swallow a byte of the keyboard that waits, clear the packet INT 74h has begun and eat a byte of a queued packet for each acknowledgement that is not at the head; INT 15h/C2h takes a byte of either queue for its answer. `NoKeyStuck` and `PacketsWhole` say that nothing else the model has costs a key or a packet; a guest program that reads port 60h itself is not part of it.
- Sound: core 1 may set the request after core 0 has stopped the device, and a flush may be undone by core 1's advance; `StoppedIsQuiet` and `RingSound` leave just these two out: they show that nothing else does it, not that these do no harm.
- Timer: a mode other than 2 and 3 stops the firmware (`i8254.c:303`), modelled as `aborted`; with periods so short that ten ticks per update are too few, ticks stay owed until the channel is loaded again, which forgets them. The model takes the repeating timer at its word: an update may be late by any time up to `MaxLate`, but the ones after it catch up with the schedule.
- Sector cache: when one copy of a FAT sector cannot be written, the buffer is dropped with the copies different, and a later flush reports success; a failed read leaves its buffer valid under the old sector. These sectors are in `suspect` from then on, and `FatsAgree`, `FlushReportsTruth` and `CacheCoherent` say that no others suffer.
- Disk cache: `disk_initialize` and a trim (`sdcard.c:855`, `sdcard.c:1121`) drop the first chip's own cache and leave the tags of the second, so that a hit may return a sector of another card or of before the trim (`behind`). The comment at `link_fast.h:63`, that the receiver of the first chip cannot overflow within a burst, holds only while no interrupt keeps core 0 from reading; `HitsTrue` does not rest on it.
- Files: after a read error `dos_extend` (`fatfs.cpp:287`) sets the size of a file to where it had come, which may be less than it was; a failing flush in `shrink_file` leaves the handle's old cluster and size; a failing close leaves an entry of the file table that nothing frees; a failing directory write after `wipe_out` leaves an entry that leads to freed clusters; a rename into another directory that fails at its second write loses the file (its clusters stay allocated).

## 7. Not modelled

- Block transfers: the EMS and VGA windows and `pstore_block`.
- Interrupt controllers: the vector base and read-back selection, which no property reads, and the firmware's stop on level-triggered mode.
- Sector cache: FSInfo and unmirrored FAT32, and INT 25h, which changes no state but may read sectors older than the cache's. INT 26h with several sectors drops only the first of them from the cache (`fdos_2528.c:92`); the sectors behind it are `suspect`.
- SD cache: an arena borrowed as scratch memory, which nothing calls, and the card's protocol. The build with paged guest RAM never lends memory to it.
- Keyboard: Pause, the reset line and A20, four-byte mouse packets, wrap mode, guests that read port 60h themselves. An answer has no value: one that a call leaves in the queue is `Reply`, whatever INT 09h would make of it, and a mode that a mouse reset writes may also turn the translation of scan codes off, which is left out.
- Sound: a sample rate of 0 (`sb16.c:787`), recording, direct output, 16-bit commands, the mixer; of the DMA controllers everything but the request and mask of this channel.
- Timer: latches, read-back, channels 1 and 2.
- Files: directories as chains, attributes, long names, FCBs, FSInfo; SHARE, which is never installed; a file open twice.
- The CPUs, the translator (which no build compiles), rendering, sound generation, user interface, vendored code, the command shell: the reasons are in `PROJECT.json`. Remote memory over the two-chip link is not connected to the guest's accessors; `linkf_sync` and what follows a lost word are left out.

The map covers a small share of the repository's lines: about four fifths of them are tables, vendored code (FatFs and its character tables, the OPL emulator), drivers of hardware protocols, applications and instruction sets, in which there is little to check by exploring states.

## 8. Plan

1. The composition of `FatFiles` with `BufferCache`, whose flushes are its failures.
2. Directories as chains; the disk cache behind `SdCache`; the CMOS clock.
