------------------------------- MODULE I8254 -------------------------------
(***************************************************************************)
(* Channel 0 of the interval timer (src/src/i8254.c), which ticks the      *)
(* guest.                                                                  *)
(*                                                                         *)
(* There is no timer behind it: the clock of the machine is a counter of   *)
(* microseconds of 32 bits, and a periodic interrupt of core 0 works out   *)
(* how far the channel should have counted since it was loaded and gives   *)
(* the ticks that are due, ten at most.  Before the counter wraps it loads *)
(* the channel again.  The interrupt is that of a repeating timer with a   *)
(* period of its own: one that comes late, as interrupts were off, does    *)
(* not delay those after it, which follow at once until the schedule is    *)
(* caught up with.  Port accesses keep the interrupt out.  Here a word has *)
(* Word values, a byte has Byte, and the timer counts six while the clock  *)
(* counts five.                                                            *)
(***************************************************************************)
EXTENDS Integers

CONSTANTS
    Word,       \* 2^32: clock and count wrap here
    Byte,       \* 256
    Data,       \* bytes the guest writes
    Mode,       \* modes it programs
    MaxTicks,   \* ticks of one update, 10
    Pace,       \* microseconds between two updates that are due, 22 (main.c:2374)
    MaxLate,    \* how late an update may be, and the first after the reset
    MaxWrites   \* bound on the guest's writes

\* The longest time from a load of the channel to the next update.
MaxPause == Pace + 2 * MaxLate

ASSUME PitAssumption ==
    /\ Word \in Nat /\ Word % 4 = 0 /\ Byte \in Nat \ {0}
    /\ 10 * (Byte * Byte) + 12 * MaxPause + 10 <= Word  \* periods and pauses are short
    /\ Data \subseteq 0 .. Byte - 1 /\ Mode \subseteq 0 .. 7
    /\ MaxTicks \in Nat \ {0} /\ Pace \in Nat \ {0} /\ MaxLate \in Nat /\ MaxWrites \in Nat

\* Updates on time keep pace with the shortest period, or fall behind so slowly
\* that the channel is loaded again before Due takes the ticks that are owed for
\* ticks to come: with ten ticks every 22 microseconds they do, 44 <= 50.
ASSUME PaceAssumption == 2 * Pace <= 5 * MaxTicks

VARIABLES
    mode0,      \* mode
    count,      \* count, the period
    since,      \* get_uticks() - count_load_time
    last,       \* last_irq_count
    access,     \* write_state: "lsb", "msb", "word0" or "word1"
    latch,      \* write_latch
    aborted,    \* the program has called abort()
    lag,        \* how late the last update was; below 0 before the timer starts
    fresh,      \* the count was loaded after the last update
    real,       \* history: microseconds since the count was loaded
    given,      \* history: ticks given since then, in counts of the timer
    fired,      \* history: ticks of the last update
    writes      \* how many writes there were

pitvars == <<mode0, count, since, last, access, latch, aborted, lag, fresh,
             real, given, fired, writes>>

Counted(us) == (us * 6) \div 5
Period(v) == IF v = 0 THEN Byte * Byte ELSE v

\* pit_reset
PitInit ==
    /\ mode0 = 3 /\ count = Period(0) /\ since = 0 /\ last = 0
    /\ access = "lsb" /\ latch = 0 /\ aborted = FALSE
    /\ lag = -MaxLate /\ fresh = TRUE
    /\ real = 0 /\ given = 0 /\ fired = 0 /\ writes = 0

Write == ~aborted /\ writes < MaxWrites /\ writes' = writes + 1

\* A control word for the channel; a count that was written by half is left.
WriteControl(m, a) ==
    /\ Write
    /\ mode0' = m
    /\ access' = a
    /\ UNCHANGED <<count, since, last, latch, aborted, lag, fresh, real, given, fired>>

\* pit_load_count
LoadCount(v) ==
    /\ count' = Period(v)
    /\ since' = 0 /\ last' = 0
    /\ real' = 0 /\ given' = 0
    /\ fresh' = TRUE

\* A byte of the count: only the last one loads it.
WriteData(b) ==
    /\ Write
    /\ CASE access = "lsb"   -> LoadCount(b) /\ UNCHANGED <<access, latch>>
         [] access = "msb"   -> LoadCount(b * Byte) /\ UNCHANGED <<access, latch>>
         [] access = "word1" -> LoadCount(latch + b * Byte) /\ access' = "word0" /\ UNCHANGED latch
         [] OTHER -> latch' = b /\ access' = "word1" /\ UNCHANGED <<count, since, last, fresh, real, given>>
    /\ UNCHANGED <<mode0, aborted, lag, fired>>

\* last_irq_count + count - d >= 0x80000000
Due(l, d) == (l + count - d) % Word >= Word \div 2

\* Mutant: the channel loads itself again after half that time.
TooLongHalf(us) == us > Word \div 4

\* uticks - count_load_time > 1 << 31
TooLong(us) == us > Word \div 2

\* The first of i ticks after l that is not due, max at most.
DueTicks(l, d, max) ==
    CHOOSE n \in 0 .. max :
        /\ \A i \in 0 .. n - 1 : Due((l + i * count) % Word, d)
        /\ n = max \/ ~Due((l + n * count) % Word, d)

\* Mutant: all that is due is given as one tick.
GiveOneTick(us, d) ==
    LET n == DueTicks(last, d, MaxTicks) IN
    IF TooLong(us) /\ n > 0
    THEN since' = 0 /\ real' = 0 /\ last' = 0 /\ given' = 0 /\ fired' = 1
    ELSE /\ since' = us /\ real' = real + ((us - since) % Word)
         /\ last' = (last + n * count) % Word
         /\ given' = given + (IF n > 0 THEN count ELSE 0)
         /\ fired' = IF n > 0 THEN 1 ELSE 0

\* The loop of i8254_update_irq.  The first tick of a channel that is too long
\* in use loads it again; the loop goes on against the d it still has.
GiveTicks(us, d) ==
    LET n == DueTicks(last, d, MaxTicks) IN
    IF TooLong(us) /\ n > 0
    THEN LET more == DueTicks(0, d, MaxTicks - 1) IN
         /\ since' = 0 /\ real' = 0
         /\ last' = more * count /\ given' = more * count
         /\ fired' = 1 + more
    ELSE /\ since' = us /\ real' = real + ((us - since) % Word)
         /\ last' = (last + n * count) % Word /\ given' = given + n * count
         /\ fired' = n

\* i8254_update_irq, late by so much, t microseconds after the update or the load
\* before it: modes other than 2 and 3 abort the program.
UpdateTimer(slip, t) ==
    /\ ~aborted
    /\ t <= Pace + slip - lag
    /\ fresh \/ t = Pace + slip - lag
    /\ LET us == (since + t) % Word
           d  == Counted(us) % Word
       IN  IF mode0 \in {2, 3}
           THEN GiveTicks(us, d) /\ lag' = slip /\ fresh' = FALSE /\ UNCHANGED aborted
           ELSE aborted' = TRUE /\ UNCHANGED <<since, last, lag, fresh, real, given, fired>>
    /\ UNCHANGED <<mode0, count, access, latch, writes>>

PitNext ==
    \/ \E m \in Mode, a \in {"lsb", "msb", "word0"} : WriteControl(m, a)
    \/ \E b \in Data : WriteData(b)
    \/ \E slip \in 0 .. MaxLate, t \in 0 .. MaxPause : UpdateTimer(slip, t)

PitSpec == PitInit /\ [][PitNext]_pitvars

-----------------------------------------------------------------------------
(* Properties.                                                             *)

\* Words are words, and the channel is loaded again before the clock can wrap.
PitTypeOK ==
    /\ mode0 \in 0 .. 7 /\ count \in 1 .. Byte * Byte
    /\ since \in 0 .. Word - 1 /\ last \in 0 .. Word - 1
    /\ access \in {"lsb", "msb", "word0", "word1"} /\ latch \in 0 .. Byte - 1
    /\ lag \in -MaxLate .. MaxLate /\ fresh \in BOOLEAN
    /\ since = real

\* No tick comes before its time, not even in the update that loads the
\* channel again and goes on with the old distance (i8254.c:285-297).
NeverEarly == PitTypeOK /\ given <= Counted(real)

\* After an update at most one period is owed, or as many as an update may
\* give were given: none is dropped.
InStep ==
    [][fired' < MaxTicks /\ real' # 0 /\ ~aborted' => Counted(real') - given' <= count']_<<real, given, fired>>
=============================================================================
