----------------------------- MODULE LedScripts -----------------------------
(***************************************************************************)
(* The scripts that drive the three LEDs of an MR7350 router: led.sh and   *)
(* glow-fade.sh let one colour after the other glow and fade, cycle.sh     *)
(* overlaps them, led-as-traffic-indicator.sh shows the traffic of the     *)
(* last interval as a mix of red and green.                                *)
(*                                                                         *)
(* One step is one write to a LED with the arithmetic before it.  Packets  *)
(* arrive at any time.                                                     *)
(***************************************************************************)
EXTENDS Integers

CONSTANTS
    Unit,        \* bytes that count as one: 1000 * ceiling
    Bursts,      \* how many bytes may arrive at once
    MaxBytes     \* bound on the interface's counter

ASSUME LedAssumption == Unit \in Nat \ {0} /\ Bursts \subseteq Nat /\ MaxBytes \in Nat

Colours == {"red", "green", "blue"}
GlowScripts == {"led.sh", "glow-fade.sh"}

VARIABLES
    script, pc,
    led,          \* the brightness of each LED
    i, a,         \* glow: the colour's number and the level
    n,            \* cycle: the level of each colour (a, b, c of the script)
    rising,       \* cycle: x, y, z
    rx_bytes,     \* the interface's counter; -1 while there is no interface
    bytes_now, bytes_prev,
    arrived       \* bytes that arrived since the counter was last read; -1 if
                  \* the counter was lost meanwhile

vars == <<script, pc, led, i, a, n, rising, rx_bytes, bytes_now, bytes_prev, arrived>>
glowVars == <<i, a>>
cycleVars == <<n, rising>>
trafficVars == <<rx_bytes, bytes_now, bytes_prev, arrived>>

\* An unset variable counts as 0 in the shell's arithmetic.
Init ==
    /\ script \in GlowScripts \cup {"cycle.sh", "traffic"}
    /\ led = [k \in Colours |-> IF script = "traffic" THEN 0 ELSE 255]
    /\ pc = IF script = "traffic" THEN "read" ELSE "reset"
    /\ i = 1 /\ a = 1
    /\ n = [k \in Colours |-> IF k = "red" THEN 1 ELSE 0]
    /\ rising = [k \in Colours |-> TRUE]
    /\ rx_bytes \in IF script = "traffic" THEN {-1, 0, MaxBytes \div 2} ELSE {0}
    /\ bytes_now = 0 /\ bytes_prev = 0
    /\ arrived = IF rx_bytes = -1 THEN 0 ELSE rx_bytes

(***************************************************************************)
(* led.sh and glow-fade.sh.                                                *)
(***************************************************************************)

ColourOf(k) == CASE k = 1 -> "red" [] k = 2 -> "green" [] k = 3 -> "blue"

\* Mutant: the LED that faded last is not switched off.
ResetNothing == led

\* The three writes of reset(), with which cycle.sh begins as well.
AllOff == [k \in Colours |-> 0]

Reset ==
    /\ pc = "reset"
    /\ led' = AllOff
    /\ a' = 1
    /\ pc' = IF script = "cycle.sh" THEN "red" ELSE "glow"
    /\ UNCHANGED <<script, i, cycleVars, trafficVars>>

Glows(level) == level < 255

Glow ==
    /\ pc = "glow"
    /\ a' = 2 * a
    /\ led' = [led EXCEPT ![ColourOf(i)] = a' - 1]
    /\ pc' = IF Glows(a') THEN "glow" ELSE "fade"
    /\ UNCHANGED <<script, i, cycleVars, trafficVars>>

\* Mutant: the number is not taken back to 1.
NextUpTo(k) == IF k = 3 THEN 2 ELSE k + 1

NextColour(k) == IF k + 1 = 4 THEN 1 ELSE k + 1

\* The level is set to 256 between the loops, which is what it is.
Fade ==
    /\ pc = "fade"
    /\ a' = a \div 2
    /\ led' = [led EXCEPT ![ColourOf(i)] = a' - 1]
    /\ IF a' > 2
       THEN UNCHANGED <<pc, i>>
       ELSE pc' = "reset" /\ i' = NextColour(i)
    /\ UNCHANGED <<script, cycleVars, trafficVars>>

(***************************************************************************)
(* cycle.sh.                                                               *)
(***************************************************************************)

After(k) == CASE k = "red" -> "green" [] k = "green" -> "blue" [] k = "blue" -> "red"

\* Mutant: a colour that was full goes out at once.
OutAtOnce(level) == 0

Halved(level) == level \div 2

Brightness(level) == IF level - 1 < 0 THEN 0 ELSE level - 1

\* One third of the loop: write, double or halve, and at 256 turn round and
\* start the next colour at 1.  A turn ends after blue.
Cycle ==
    /\ script = "cycle.sh" /\ pc \in Colours
    /\ led' = [led EXCEPT ![pc] = Brightness(n[pc])]
    /\ LET level == IF rising[pc] THEN 2 * n[pc] ELSE Halved(n[pc])
           full == level >= 256
       IN  /\ n' = [n EXCEPT ![pc] = level, ![After(pc)] = IF full THEN 1 ELSE @]
           /\ rising' = [rising EXCEPT ![pc] = IF full THEN FALSE ELSE @,
                                       ![After(pc)] = IF full THEN TRUE ELSE @]
    /\ pc' = After(pc)
    /\ UNCHANGED <<script, glowVars, trafficVars>>

(***************************************************************************)
(* led-as-traffic-indicator.sh.                                            *)
(***************************************************************************)

\* The kernel counts what arrives.
Arrive ==
    /\ script = "traffic"
    /\ rx_bytes >= 0
    /\ \E b \in Bursts :
         /\ rx_bytes + b <= MaxBytes
         /\ rx_bytes' = rx_bytes + b
         /\ arrived' = IF arrived = -1 THEN -1 ELSE arrived + b
    /\ UNCHANGED <<script, pc, led, glowVars, cycleVars, bytes_now, bytes_prev>>

\* The interface goes, or comes back with its counter at zero.
Interface ==
    /\ script = "traffic"
    /\ rx_bytes' = IF rx_bytes >= 0 THEN -1 ELSE 0
    /\ arrived' = -1
    /\ UNCHANGED <<script, pc, led, glowVars, cycleVars, bytes_now, bytes_prev>>

\* The shell's division rounds towards zero.
Quot(x, y) == IF x >= 0 THEN x \div y ELSE -((-x) \div y)

\* Mutant: a level that fell below zero is not raised again.
OnlyFromAbove(x) == IF x > 255 THEN 255 ELSE x

Clamped(x) == CASE x > 255 -> 255 [] x < 0 -> 0 [] OTHER -> x

Level(delta) == Clamped(2 * Quot(delta, Unit))

\* A read that fails leaves bytes_now as it was.
ReadCounter ==
    /\ pc = "read"
    /\ bytes_now' = IF rx_bytes >= 0 THEN rx_bytes ELSE bytes_now
    /\ arrived' = IF rx_bytes >= 0 THEN 0 ELSE arrived
    /\ led' = [led EXCEPT !["red"] = Level(bytes_now' - bytes_prev)]
    /\ pc' = "green"
    /\ UNCHANGED <<script, glowVars, cycleVars, rx_bytes, bytes_prev>>

WriteGreen ==
    /\ script = "traffic" /\ pc = "green"
    /\ led' = [led EXCEPT !["green"] = 255 - led["red"]]
    /\ pc' = "sleep"
    /\ UNCHANGED <<script, glowVars, cycleVars, trafficVars>>

\* Mutant: the counter is read again for the next turn.
PrevFromCounter == IF rx_bytes >= 0 THEN rx_bytes ELSE bytes_now

PrevFromRead == bytes_now

Wake ==
    /\ pc = "sleep"
    /\ bytes_prev' = PrevFromRead
    /\ pc' = "read"
    /\ UNCHANGED <<script, led, glowVars, cycleVars, rx_bytes, bytes_now, arrived>>

ScriptNext == Reset \/ Glow \/ Fade \/ Cycle \/ ReadCounter \/ WriteGreen \/ Wake
Next == ScriptNext \/ Arrive \/ Interface

Spec == Init /\ [][Next]_vars /\ WF_vars(ScriptNext)

(***************************************************************************)
(* Properties.                                                             *)
(***************************************************************************)

\* Doubling and halving, three counters that start each other, and a counter
\* that may have been reset: what is written is always a brightness.
BrightnessInRange == \A k \in Colours : led[k] \in 0 .. 255

\* The glowing scripts show one colour at a time: a colour ends its fade at 1,
\* not at 0, and is out before the next one starts.
OneColourAtATime ==
    script \in GlowScripts /\ pc # "reset" =>
        \A k \in Colours \ {ColourOf(i)} : led[k] = 0

\* Once red has been full, cycle.sh is never dark: the colour before is still on
\* its way down while the next one is on its way up, and they meet at 15, below
\* which the brightest LED never falls.
Crossing == 15
CycleNeverDark ==
    [](script = "cycle.sh" /\ pc # "reset" /\ led["red"] = 255
         => [](\E k \in Colours : led[k] >= Crossing))

\* Red shows the bytes that arrived since the counter was read before, also
\* those that arrived between two writes or during the sleep, once each.  (The
\* first turn shows what arrived since the interface came up.)
LevelShowsInterval ==
    [][ReadCounter /\ rx_bytes >= 0 /\ arrived >= 0 =>
         led'["red"] = IF 2 * (arrived \div Unit) > 255 THEN 255 ELSE 2 * (arrived \div Unit)]_vars

\* Every colour becomes full again and again.
EachColourAgain ==
    script # "traffic" => \A k \in Colours : []<>(led[k] = 255)

=============================================================================
