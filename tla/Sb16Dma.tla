------------------------------ MODULE Sb16Dma ------------------------------
(***************************************************************************)
(* Playback by the Sound Blaster (src/src/sb16.c) over its channel of the  *)
(* DMA controller (src/src/i8257.c), on the builds where core 1 plays.     *)
(*                                                                         *)
(* Core 0 runs the guest's commands and the channel: the device takes      *)
(* bytes into a ring, counts them down to the end of the block, raises its *)
(* interrupt there and, with single blocks, stops.  When the ring is full  *)
(* it drops its DMA request.  On core 1 a timer takes samples from the     *)
(* ring, and asks for more by setting the request again.  The two share    *)
(* dma_running, the request and both ends of the ring without a lock.      *)
(* Samples are counted and not told apart; a sample always takes one.      *)
(***************************************************************************)
EXTENDS Integers

CONSTANTS
    BufLen,       \* AUDIO_BUF_LEN
    Wrap,         \* the ring's counters wrap here; BufLen divides it
    Sizes,        \* sizes of a block
    DmaLen,       \* the length the channel is programmed with
    MaxCommands   \* bound on the guest's commands

ASSUME Sb16Assumption ==
    /\ BufLen \in Nat \ {0}
    /\ Wrap \in Nat /\ Wrap % BufLen = 0 /\ Wrap >= 4 * BufLen
    /\ Sizes \subseteq Nat \ {0} /\ DmaLen \in Nat \ {0}
    /\ MaxCommands \in Nat

VARIABLES
    running,    \* dma_running, which active_out follows
    dreq,       \* the request of the channel
    masked,     \* its bit of the mask
    auto,       \* dma_auto
    block,      \* block_size, -1 after a reset, 0 while 14h waits for its size
    left,       \* left_till_irq
    p, q,       \* audio_p and audio_q, modulo Wrap
    irq,        \* the interrupt is asserted
    core1,      \* the sample that core 1 takes: its step and what it has read
    ended,      \* history: blocks asked for that ended since the last command, up to 2
    late,       \* history: the request was set after the device was stopped
    raced,      \* history: the ring was flushed while a sample was taken, and not yet repaired
    commands    \* how many commands there were

sbvars == <<running, dreq, masked, auto, block, left, p, q, irq, core1,
            ended, late, raced, commands>>

Idle == [step |-> "idle"]
Used == (q - p) % Wrap

SbInit ==
    /\ running = FALSE /\ dreq = FALSE /\ masked = TRUE /\ auto = FALSE
    /\ block = -1 /\ left = 0 /\ p = 0 /\ q = 0 /\ irq = FALSE
    /\ core1 = Idle
    /\ ended = 0 /\ late = FALSE /\ raced = FALSE
    /\ commands = 0

-----------------------------------------------------------------------------
(* Core 0: commands of the guest.                                          *)

\* control(): the flag first, then the request.
Control(hold) == running' = hold /\ dreq' = hold /\ late' = FALSE

\* What the guest does, and a command, which waits for the bytes of the one before.
Access == commands < MaxCommands /\ commands' = commands + 1
Command == Access /\ block # 0

\* Single blocks start with an empty ring.
Flush(single) ==
    IF single
    THEN p' = q /\ raced' = (core1.step = "store")
    ELSE UNCHANGED <<p, raced>>

\* dma_cmd8: a block of n bytes, or of the size set before.
Start(isAuto, n) ==
    /\ Access
    /\ block = 0 => ~isAuto
    /\ auto' = isAuto
    /\ block' = n
    /\ left' = n
    /\ Flush(~isAuto)
    /\ Control(TRUE)
    /\ ended' = 0
    /\ UNCHANGED <<masked, q, irq, core1>>

\* 48h: the size of the blocks to come.  The first byte of 14h sets it to 0.
SetBlockSize(n) ==
    /\ Command
    /\ block' = n
    /\ UNCHANGED <<running, dreq, masked, auto, left, p, q, irq, core1, ended, late, raced>>

\* Mutant: the flag is cleared and the request left.
HaltKeepsDreq ==
    /\ Command
    /\ running' = FALSE /\ late' = FALSE
    /\ ended' = 0
    /\ UNCHANGED <<dreq, masked, auto, block, left, p, q, irq, core1, raced>>

\* D0h and D4h.
Halt ==
    /\ Command
    /\ Control(FALSE)
    /\ ended' = 0
    /\ UNCHANGED <<masked, auto, block, left, p, q, irq, core1, raced>>

Continue ==
    /\ Command
    /\ Control(TRUE)
    /\ ended' = 0
    /\ UNCHANGED <<masked, auto, block, left, p, q, irq, core1, raced>>

\* DAh: the block that plays is the last.
ExitAuto ==
    /\ Command
    /\ auto' = FALSE
    /\ ended' = 0
    /\ UNCHANGED <<running, dreq, masked, block, left, p, q, irq, core1, late, raced>>

\* reset()
Reset ==
    /\ Access
    /\ auto' = FALSE /\ block' = -1 /\ left' = 0
    /\ irq' = FALSE
    /\ Control(FALSE)
    /\ ended' = 0
    /\ UNCHANGED <<masked, p, q, core1, raced>>

\* A read of port 0Eh.
Ack ==
    /\ irq
    /\ irq' = FALSE
    /\ UNCHANGED <<running, dreq, masked, auto, block, left, p, q, core1,
                   ended, late, raced, commands>>

-----------------------------------------------------------------------------
(* Core 0: the channel.                                                    *)

\* Mutant: the room is one too many.
RoomOver == IF Used > BufLen THEN 0 ELSE BufLen - Used + 1

\* The room write_audio sees; a ring that core 1 has emptied too far is full.
Room == IF Used > BufLen THEN 0 ELSE BufLen - Used

Least(m, n) == IF m < n THEN m ELSE n

\* Mutant: the device is not stopped at the end of a single block.
BlockEndsRunning ==
    /\ irq' = TRUE
    /\ left' = block
    /\ ended' = IF late THEN ended ELSE Least(ended + 1, 2)
    /\ UNCHANGED <<running, dreq, late>>

\* The end of a block: the interrupt, the stop and the count for the next.
BlockEnds ==
    /\ irq' = TRUE
    /\ left' = block
    /\ ended' = IF late THEN ended ELSE Least(ended + 1, 2)
    /\ IF auto THEN UNCHANGED <<running, dreq, late>> ELSE Control(FALSE)

\* SB_read_DMA with a size: of what the block and the channel's buffer give,
\* the ring takes what fits; when that is not all the request is dropped.
Transfer(copy) ==
    LET n == Least(copy, Room) IN
    /\ q' = (q + n) % Wrap
    /\ IF n = left
       THEN BlockEnds
       ELSE /\ left' = left - n
            /\ dreq' = (n = copy)
            /\ UNCHANGED <<running, irq, ended, late>>
    /\ UNCHANGED <<masked, auto, block, p, core1, raced, commands>>

\* i8257_dma_run and the read of the status register: a request that is not
\* masked is served.  Without a size nothing comes of it.
DmaRun ==
    /\ dreq /\ ~masked
    /\ block > 0
    /\ Transfer(Least(left, DmaLen))

\* The mask of the channel.
SetMask(m) ==
    /\ Access
    /\ masked' = m
    /\ UNCHANGED <<running, dreq, auto, block, left, p, q, irq, core1, ended, late, raced>>

-----------------------------------------------------------------------------
(* Core 1: sb16_getsample, step by step.                                   *)

\* It reads the ring's ends: nothing to do, an overrun ring, or a sample.
SampleBegins ==
    /\ core1 = Idle
    /\ running \/ q # p
    /\ IF Used > BufLen
       THEN p' = q /\ UNCHANGED core1
       ELSE /\ core1' = [step |-> "store", p |-> p, advance |-> Least(1, Used)]
            /\ UNCHANGED p
    /\ UNCHANGED <<running, dreq, masked, auto, block, left, q, irq,
                   ended, late, raced, commands>>

\* audio_p is advanced from what was read then or is read now.
SampleStores ==
    /\ core1.step = "store"
    /\ \E from \in {core1.p, p} : p' = (from + core1.advance) % Wrap
    /\ core1' = [step |-> "check"]
    /\ UNCHANGED <<running, dreq, masked, auto, block, left, q, irq,
                   ended, late, raced, commands>>

\* It reads dma_running.
SampleChecks ==
    /\ core1.step = "check"
    /\ core1' = IF running THEN [step |-> "hold"] ELSE Idle
    /\ UNCHANGED <<running, dreq, masked, auto, block, left, p, q, irq,
                   ended, late, raced, commands>>

\* Mutant: only a command sets the request.
SampleNeverHolds ==
    /\ core1.step = "hold"
    /\ core1' = Idle
    /\ UNCHANGED <<running, dreq, masked, auto, block, left, p, q, irq,
                   ended, late, raced, commands>>

\* It sets the request, whether the device still runs or not.
SampleHolds ==
    /\ core1.step = "hold"
    /\ core1' = Idle
    /\ dreq' = TRUE
    /\ late' = (late \/ ~running)
    /\ UNCHANGED <<running, masked, auto, block, left, p, q, irq, ended, raced, commands>>

SampleStep == SampleBegins \/ SampleStores \/ SampleChecks \/ SampleHolds

-----------------------------------------------------------------------------

SbNext ==
    \/ \E isAuto \in BOOLEAN, n \in Sizes : Start(isAuto, n)
    \/ \E n \in Sizes \cup {0} : SetBlockSize(n)
    \/ Halt \/ Continue \/ ExitAuto \/ Reset \/ Ack
    \/ \E m \in BOOLEAN : SetMask(m)
    \/ DmaRun
    \/ SampleStep

\* The main loop runs the channels and the timer of core 1 never stops.
SbFairness == WF_sbvars(DmaRun) /\ WF_sbvars(SampleStep)

SbSpec == SbInit /\ [][SbNext]_sbvars /\ SbFairness

-----------------------------------------------------------------------------
(* Properties.                                                             *)

\* Types: the counters of the ring stay below Wrap.
SbTypeOK ==
    /\ running \in BOOLEAN /\ dreq \in BOOLEAN /\ masked \in BOOLEAN /\ auto \in BOOLEAN
    /\ irq \in BOOLEAN /\ late \in BOOLEAN /\ raced \in BOOLEAN
    /\ block \in Sizes \cup {-1, 0} /\ left \in Nat
    /\ p \in 0 .. Wrap - 1 /\ q \in 0 .. Wrap - 1
    /\ core1 \in {Idle, [step |-> "check"], [step |-> "hold"]}
         \cup [step : {"store"}, p : 0 .. Wrap - 1, advance : {0, 1}]
    /\ ended \in 0 .. 2

\* No sample that has not been played is overwritten, and none is played that
\* was not sent, except after a flush that fell into core 1's advance of
\* audio_p (sb16.c:286 against sb16.c:1655).
RingSound == SbTypeOK /\ (Used <= BufLen \/ raced)

\* A stopped device asks for nothing, except where core 1 saw it run, was
\* overtaken by the stop and set the request after it (sb16.c:1688).
StoppedIsQuiet == dreq => running \/ late

\* A single block, or the last of an automatic playback, ends once: a command
\* gets one interrupt, other than for a block that a late request plays.
SingleEndsOnce == ~auto => ended <= 1

\* A block that has been started ends, or is halted, or waits for the size of
\* the next: the request that a full ring dropped comes back with the next sample.
BlocksEnd == running /\ block > 0 ~> ended > 0 \/ ~running \/ masked \/ block = 0
=============================================================================
