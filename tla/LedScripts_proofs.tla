------------------------- MODULE LedScripts_proofs -------------------------
(***************************************************************************)
(* What the LED scripts write is a brightness, the glowing scripts show    *)
(* one colour, cycle.sh keeps two of its three counters in step so that    *)
(* the LED is never dark between colours, and the traffic indicator shows  *)
(* each interval once, for every unit, every traffic and every reset of    *)
(* the interface's counter.                                                *)
(***************************************************************************)
EXTENDS LedScripts, NumberLemmas

\* The levels the scripts double and halve.
Powers == {1, 2, 4, 8, 16, 32, 64, 128, 256}

ControlInv ==
    /\ script \in GlowScripts \cup {"cycle.sh", "traffic"}
    /\ script \in GlowScripts => pc \in {"reset", "glow", "fade"}
    /\ script = "cycle.sh" => pc \in {"reset"} \cup Colours
    /\ script = "traffic" => pc \in {"read", "green", "sleep"}

GlowInv ==
    /\ i \in 1 .. 3
    /\ a \in Powers
    /\ pc = "glow" => a < 255
    /\ pc = "fade" => a > 2

\* A colour that is still on its way up has not reached 256.
CycleInv ==
    /\ n \in [Colours -> Powers \cup {0}]
    /\ rising \in [Colours -> BOOLEAN]
    /\ \A k \in Colours : rising[k] => n[k] <= 128

TrafficInv == rx_bytes \in Int /\ bytes_now \in Int /\ bytes_prev \in Int

LedInv == led \in [Colours -> 0 .. 255]

Inv == ControlInv /\ GlowInv /\ CycleInv /\ TrafficInv /\ LedInv /\ OneColourAtATime

\* Doubling stays among the powers below 256, halving does above 1.
LEMMA PowerFacts ==
  /\ \A p \in Powers : p <= 128 => 2 * p \in Powers
  /\ \A p \in Powers : p > 1 => p \div 2 \in Powers
  /\ \A p \in Powers : p \div 2 \in Powers \cup {0}
  /\ \A p \in Powers : p - 1 \in 0 .. 255
  BY DEF Powers

\* Whatever the shell computes from the counters, what is written is a level.
LEMMA LevelInRange == ASSUME NEW delta \in Int PROVE Level(delta) \in 0 .. 255
  <1>1. Quot(delta, Unit) \in Int
    BY LedAssumption DEF Quot
  <1> QED
    BY <1>1 DEF Level, Clamped

\* The states the scripts start in.
LEMMA InitInv == Init => Inv
  <1> SUFFICES ASSUME Init PROVE Inv
    OBVIOUS
  <1> USE DEF Init
  <1>1. ControlInv /\ OneColourAtATime
    BY DEF ControlInv, OneColourAtATime, GlowScripts
  <1>2. GlowInv /\ LedInv
    BY DEF GlowInv, LedInv, Powers, GlowScripts
  <1>3. n \in [Colours -> Powers \cup {0}] /\ \A k \in Colours : n[k] <= 128
    BY DEF Powers
  <1>4. rising \in [Colours -> BOOLEAN]
    BY Zenon
  <1>5. CycleInv
    BY <1>3, <1>4 DEF CycleInv
  <1>6. TrafficInv
    BY LedAssumption DEF TrafficInv
  <1> QED
    BY <1>1, <1>2, <1>5, <1>6 DEF Inv

\* The steps of led.sh and glow-fade.sh, and the reset all scripts but the
\* traffic indicator begin with.
LEMMA GlowStepInv ==
  ASSUME Inv, Reset \/ Glow \/ Fade
  PROVE  Inv'
  <1> USE DEF Inv
  <1>0. /\ script' = script
        /\ n' = n /\ rising' = rising
        /\ rx_bytes' = rx_bytes /\ bytes_now' = bytes_now /\ bytes_prev' = bytes_prev
    BY DEF Reset, Glow, Fade, cycleVars, trafficVars
  <1>1. CycleInv' /\ TrafficInv'
    BY <1>0 DEF CycleInv, TrafficInv
  <1>2. CASE Reset
    <2>1. script # "traffic"
      BY <1>2 DEF Reset, ControlInv
    <2>2. ControlInv' /\ GlowInv'
      BY <1>0, <1>2, <2>1 DEF Reset, ControlInv, GlowInv, Powers, Colours, GlowScripts
    <2>3. led' = [k \in Colours |-> 0]
      BY <1>2 DEF Reset, AllOff
    <2>4. LedInv' /\ OneColourAtATime'
      BY <2>3 DEF LedInv, OneColourAtATime
    <2> QED
      BY <1>1, <2>2, <2>4
  <1>3. ASSUME Glow \/ Fade PROVE script \in GlowScripts
    BY <1>3 DEF Glow, Fade, ControlInv, Colours
  <1>4. ColourOf(i) \in Colours
    BY DEF GlowInv, ColourOf, Colours
  <1>5. CASE Glow
    <2>1. a <= 128 /\ a' = 2 * a /\ i' = i /\ pc = "glow"
      BY <1>5 DEF Glow, GlowInv, Powers
    <2>2. a' \in Powers /\ a' - 1 \in 0 .. 255
      BY <2>1, PowerFacts DEF GlowInv
    <2>3. ControlInv'
      BY <1>0, <1>3, <1>5 DEF Glow, ControlInv, GlowScripts
    <2>4. GlowInv'
      BY <1>5, <2>1, <2>2 DEF Glow, GlowInv, Glows, Powers
    <2>5. led' = [led EXCEPT ![ColourOf(i)] = a' - 1]
      BY <1>5 DEF Glow
    <2>6. LedInv'
      BY <1>4, <2>2, <2>5 DEF LedInv
    <2>7. OneColourAtATime'
      BY <1>0, <1>3, <1>4, <1>5, <2>1, <2>5 DEF OneColourAtATime, LedInv, ColourOf
    <2> QED
      BY <1>1, <2>3, <2>4, <2>6, <2>7
  <1>6. CASE Fade
    <2>1. a > 2 /\ a' = a \div 2 /\ pc = "fade"
      BY <1>6 DEF Fade, GlowInv
    <2>2. a' \in Powers /\ a' - 1 \in 0 .. 255
      BY <2>1, PowerFacts DEF GlowInv, Powers
    <2>3. ControlInv'
      BY <1>0, <1>3, <1>6 DEF Fade, ControlInv, GlowScripts
    <2>4. GlowInv'
      BY <1>6, <2>1, <2>2 DEF Fade, GlowInv, NextColour
    <2>5. led' = [led EXCEPT ![ColourOf(i)] = a' - 1]
      BY <1>6 DEF Fade
    <2>6. LedInv'
      BY <1>4, <2>2, <2>5 DEF LedInv
    <2>7. pc' # "reset" => i' = i
      BY <1>6 DEF Fade
    <2>8. OneColourAtATime'
      BY <1>0, <1>3, <1>4, <2>1, <2>5, <2>7 DEF OneColourAtATime, LedInv, ColourOf
    <2> QED
      BY <1>1, <2>3, <2>4, <2>6, <2>8
  <1> QED
    BY <1>2, <1>5, <1>6

\* A third of cycle.sh's turn: the counters that start each other stay among the
\* powers of two.
LEMMA CycleStepInv == Inv /\ Cycle => Inv'
  <1> SUFFICES ASSUME Inv, Cycle PROVE Inv'
    OBVIOUS
  <1> USE DEF Inv
  <1> DEFINE level == IF rising[pc] THEN 2 * n[pc] ELSE Halved(n[pc])
             full == level >= 256
  <1>0. /\ script = "cycle.sh" /\ script' = script /\ pc \in Colours /\ pc' = After(pc)
        /\ i' = i /\ a' = a
        /\ rx_bytes' = rx_bytes /\ bytes_now' = bytes_now /\ bytes_prev' = bytes_prev
    BY DEF Cycle, glowVars, trafficVars
  <1>1. After(pc) \in Colours /\ After(pc) # pc
    BY <1>0 DEF After, Colours
  <1>2. ControlInv' /\ TrafficInv' /\ OneColourAtATime'
    BY <1>0, <1>1 DEF ControlInv, TrafficInv, OneColourAtATime, GlowScripts
  <1>3. GlowInv'
    BY <1>0, <1>1 DEF GlowInv, Colours
  <1>4. n[pc] \in Powers \cup {0} /\ (rising[pc] => n[pc] <= 128)
    BY <1>0 DEF CycleInv
  <1>5. LedInv'
    <2>1. Brightness(n[pc]) \in 0 .. 255
      BY <1>4 DEF Brightness, Powers
    <2> QED
      BY <1>0, <2>1 DEF Cycle, LedInv
  <1>6. /\ level \in Powers \cup {0}
        /\ ~full => level <= 128
    BY <1>4 DEF Halved, Powers
  <1>7. /\ n' = [n EXCEPT ![pc] = level, ![After(pc)] = IF full THEN 1 ELSE @]
        /\ rising' = [rising EXCEPT ![pc] = IF full THEN FALSE ELSE @,
                                    ![After(pc)] = IF full THEN TRUE ELSE @]
    BY DEF Cycle
  <1>8. n' \in [Colours -> Powers \cup {0}]
    BY <1>0, <1>1, <1>6, <1>7 DEF CycleInv, Powers
  <1>9. rising' \in [Colours -> BOOLEAN]
    BY <1>0, <1>1, <1>7 DEF CycleInv
  <1>10. ASSUME NEW k \in Colours, rising'[k] PROVE n'[k] <= 128
    <2>1. CASE k = pc
      BY <1>0, <1>1, <1>6, <1>7, <1>10, <2>1 DEF CycleInv
    <2>2. CASE k = After(pc)
      BY <1>0, <1>1, <1>6, <1>7, <1>10, <2>2 DEF CycleInv
    <2>3. CASE k # pc /\ k # After(pc)
      BY <1>0, <1>1, <1>7, <1>10, <2>3 DEF CycleInv
    <2> QED
      BY <2>1, <2>2, <2>3
  <1>11. CycleInv'
    BY <1>8, <1>9, <1>10 DEF CycleInv
  <1> QED
    BY <1>2, <1>3, <1>5, <1>11

\* The traffic indicator, the packets and the interface.
LEMMA TrafficStepInv ==
  ASSUME Inv, ReadCounter \/ WriteGreen \/ Wake \/ Arrive \/ Interface
  PROVE  Inv'
  <1> USE DEF Inv
  <1>0. /\ script = "traffic" /\ script' = script
        /\ i' = i /\ a' = a /\ n' = n /\ rising' = rising
    BY DEF ReadCounter, WriteGreen, Wake, Arrive, Interface, glowVars, cycleVars, ControlInv, GlowScripts, Colours
  <1>1. ControlInv'
    BY <1>0 DEF ReadCounter, WriteGreen, Wake, Arrive, Interface, ControlInv, GlowScripts
  <1>2. GlowInv' /\ CycleInv' /\ OneColourAtATime'
    <2>1. pc' \notin {"glow", "fade"}
      BY <1>0, <1>1 DEF ControlInv
    <2> QED
      BY <1>0, <2>1 DEF GlowInv, CycleInv, OneColourAtATime, GlowScripts
  <1>3. TrafficInv'
    BY LedAssumption
    DEF ReadCounter, WriteGreen, Wake, Arrive, Interface, TrafficInv, trafficVars, PrevFromRead
  <1>4. LedInv'
    <2>1. CASE ReadCounter
      <3>1. bytes_now' - bytes_prev \in Int
        BY <1>3 DEF TrafficInv
      <3>2. Level(bytes_now' - bytes_prev) \in 0 .. 255
        BY <3>1, LevelInRange
      <3> QED
        BY <2>1, <3>2 DEF ReadCounter, LedInv
    <2>2. CASE WriteGreen
      <3>1. 255 - led["red"] \in 0 .. 255
        BY DEF LedInv, Colours
      <3> QED
        BY <2>2, <3>1 DEF WriteGreen, LedInv
    <2>3. CASE Wake \/ Arrive \/ Interface
      BY <2>3 DEF Wake, Arrive, Interface, LedInv
    <2> QED
      BY <2>1, <2>2, <2>3
  <1> QED
    BY <1>1, <1>2, <1>3, <1>4

\* Every step keeps the invariant.
LEMMA NextInv == Inv /\ [Next]_vars => Inv'
  <1> SUFFICES ASSUME Inv, [Next]_vars PROVE Inv'
    OBVIOUS
  <1>1. CASE Next
    BY <1>1, GlowStepInv, CycleStepInv, TrafficStepInv DEF Next, ScriptNext
  <1>2. CASE UNCHANGED vars
    BY <1>2 DEF vars, glowVars, cycleVars, trafficVars, Inv, ControlInv, GlowInv, CycleInv, TrafficInv, LedInv,
                OneColourAtATime, ColourOf
  <1> QED
    BY <1>1, <1>2

\* Every value the four scripts write to a LED is a brightness.
THEOREM WritesBrightness == Spec => []BrightnessInRange
  <1>1. Inv => BrightnessInRange
    BY DEF Inv, LedInv, BrightnessInRange
  <1> QED
    BY <1>1, InitInv, NextInv, PTL DEF Spec

\* led.sh and glow-fade.sh never show two colours at once.
THEOREM OneColour == Spec => []OneColourAtATime
  <1>1. Inv => OneColourAtATime
    BY DEF Inv
  <1> QED
    BY <1>1, InitInv, NextInv, PTL DEF Spec

(***************************************************************************)
(* The brightest LED of cycle.sh.                                          *)
(***************************************************************************)

\* One colour falls while the next one rises.  Their levels, when the rising one
\* is to be written and when it has been.
Abreast == {<<256, 1>>, <<128, 2>>, <<64, 4>>, <<32, 8>>, <<16, 16>>, <<8, 32>>, <<4, 64>>, <<2, 128>>}
Ahead == {<<256, 2>>, <<128, 4>>, <<64, 8>>, <<32, 16>>, <<16, 32>>, <<8, 64>>, <<4, 128>>}

\* Colour k falls, the next one rises, and the third one is out or on its way.
Falls(k) ==
    /\ rising[k] = FALSE /\ rising[After(k)] = TRUE
    /\ rising[After(After(k))] = FALSE \/ n[After(After(k))] = 0
    /\ <<n[k], n[After(k)]>> \in IF pc = After(k) THEN Abreast ELSE Ahead
    /\ led[k] = IF n[k] = 256 THEN 127 ELSE 2 * n[k] - 1
    /\ n[After(k)] > 1 => led[After(k)] = (n[After(k)] \div 2) - 1

Passing == script = "cycle.sh" /\ pc \in Colours /\ \E k \in Colours : Falls(k)

\* Before red has been full for the first time, nothing else is on.
FirstRise ==
    /\ script = "cycle.sh" /\ pc \in Colours
    /\ rising["red"] = TRUE /\ n["red"] \in {1, 2, 4, 8, 16, 32, 64, 128}
    /\ n["green"] = 0 /\ n["blue"] = 0
    /\ rising["green"] = TRUE /\ rising["blue"] = TRUE
    /\ led["red"] <= 127

\* What one third of the loop does to the colour it writes, and to the others.
LEMMA CycleWrites ==
  ASSUME Inv, Cycle
  PROVE  /\ script' = script /\ pc \in Colours /\ pc' = After(pc) /\ pc' \in Colours /\ pc' # pc
         /\ led'[pc] = Brightness(n[pc]) /\ \A k \in Colours \ {pc} : led'[k] = led[k]
         /\ rising[pc] \in BOOLEAN
         /\ rising[pc] = TRUE /\ n[pc] # 128 =>
              n'[pc] = 2 * n[pc] /\ rising'[pc] = TRUE /\ n'[pc'] = n[pc'] /\ rising'[pc'] = rising[pc']
         /\ rising[pc] = TRUE /\ n[pc] = 128 =>
              n'[pc] = 256 /\ rising'[pc] = FALSE /\ n'[pc'] = 1 /\ rising'[pc'] = TRUE
         /\ rising[pc] = FALSE =>
              n'[pc] = n[pc] \div 2 /\ rising'[pc] = FALSE /\ n'[pc'] = n[pc'] /\ rising'[pc'] = rising[pc']
         /\ \A k \in Colours \ {pc, pc'} : n'[k] = n[k] /\ rising'[k] = rising[k]
  <1> DEFINE level == IF rising[pc] THEN 2 * n[pc] ELSE Halved(n[pc])
             full == level >= 256
  <1>1. /\ script' = script /\ pc \in Colours /\ pc' = After(pc)
        /\ led' = [led EXCEPT ![pc] = Brightness(n[pc])]
        /\ n' = [n EXCEPT ![pc] = level, ![After(pc)] = IF full THEN 1 ELSE @]
        /\ rising' = [rising EXCEPT ![pc] = IF full THEN FALSE ELSE @,
                                    ![After(pc)] = IF full THEN TRUE ELSE @]
    BY DEF Cycle
  <1>2. /\ n \in [Colours -> Powers \cup {0}] /\ rising \in [Colours -> BOOLEAN]
        /\ rising[pc] => n[pc] <= 128
        /\ led \in [Colours -> 0 .. 255]
    BY <1>1 DEF Inv, CycleInv, LedInv
  <1>3. pc' \in Colours /\ pc' # pc
    BY <1>1 DEF After, Colours
  <1>4. n[pc] \in Powers \cup {0} /\ rising[pc] \in BOOLEAN
    BY <1>1, <1>2
  <1>5. /\ rising[pc] = TRUE /\ n[pc] # 128 => level = 2 * n[pc] /\ ~full
        /\ rising[pc] = TRUE /\ n[pc] = 128 => level = 256 /\ full
        /\ rising[pc] = FALSE => level = n[pc] \div 2 /\ ~full
    BY <1>2, <1>4 DEF Halved, Powers
  <1> HIDE DEF level, full
  <1>6. led'[pc] = Brightness(n[pc]) /\ \A k \in Colours \ {pc} : led'[k] = led[k]
    BY <1>1, <1>2
  <1>7. /\ n'[pc] = level /\ n'[pc'] = IF full THEN 1 ELSE n[pc']
        /\ \A k \in Colours \ {pc, pc'} : n'[k] = n[k]
    BY <1>1, <1>2, <1>3
  <1>8. /\ rising'[pc] = IF full THEN FALSE ELSE rising[pc]
        /\ rising'[pc'] = IF full THEN TRUE ELSE rising[pc']
        /\ \A k \in Colours \ {pc, pc'} : rising'[k] = rising[k]
    BY <1>1, <1>2, <1>3, Zenon
  <1>9. ASSUME rising[pc] = TRUE, n[pc] # 128
        PROVE  n'[pc] = 2 * n[pc] /\ rising'[pc] = TRUE /\ n'[pc'] = n[pc'] /\ rising'[pc'] = rising[pc']
    <2>1. level = 2 * n[pc] /\ ~full
      BY <1>5, <1>9
    <2> QED
      BY <1>7, <1>8, <1>9, <2>1, Zenon
  <1>10. ASSUME rising[pc] = TRUE, n[pc] = 128
         PROVE  n'[pc] = 256 /\ rising'[pc] = FALSE /\ n'[pc'] = 1 /\ rising'[pc'] = TRUE
    <2>1. level = 256 /\ full
      BY <1>5, <1>10
    <2>2. n'[pc] = 256 /\ n'[pc'] = 1
      BY <1>7, <2>1
    <2>3. rising'[pc] = FALSE /\ rising'[pc'] = TRUE
      BY <1>8, <2>1, Zenon
    <2> QED
      BY <2>2, <2>3, Zenon
  <1>11. ASSUME rising[pc] = FALSE
         PROVE  n'[pc] = n[pc] \div 2 /\ rising'[pc] = FALSE /\ n'[pc'] = n[pc'] /\ rising'[pc'] = rising[pc']
    <2>1. level = n[pc] \div 2 /\ ~full
      BY <1>5, <1>11
    <2> QED
      BY <1>7, <1>8, <1>11, <2>1, Zenon
  <1>12. \A k \in Colours \ {pc, pc'} : n'[k] = n[k] /\ rising'[k] = rising[k]
    BY <1>7, <1>8, Zenon
  <1> QED
    BY <1>1, <1>3, <1>4, <1>6, <1>9, <1>10, <1>11, <1>12, Zenon

\* A fall goes on until its colour is at 2, and then the next colour falls.
LEMMA FallGoesOn ==
  ASSUME Inv, Cycle, NEW k \in Colours, Falls(k)
  PROVE  Falls(k)' \/ Falls(After(k))'
  <1> DEFINE r == After(k)
  <1>1. /\ r \in Colours /\ r # k /\ After(r) \in Colours /\ After(r) # k /\ After(r) # r
        /\ After(After(r)) = k /\ Colours = {k, r, After(r)}
    BY DEF After, Colours
  <1>2. /\ rising[k] = FALSE /\ rising[r] = TRUE
        /\ rising[After(r)] = FALSE \/ n[After(r)] = 0
        /\ <<n[k], n[r]>> \in IF pc = r THEN Abreast ELSE Ahead
        /\ led[k] = IF n[k] = 256 THEN 127 ELSE 2 * n[k] - 1
        /\ n[r] > 1 => led[r] = (n[r] \div 2) - 1
    BY DEF Falls
  <1> HIDE DEF r
  <1>3. CASE pc = r
    <2>1. /\ pc' = After(r) /\ pc' # r /\ pc' # k /\ led'[k] = led[k] /\ led'[r] = Brightness(n[r])
          /\ n'[k] = n[k] /\ rising'[k] = FALSE
      BY <1>1, <1>2, <1>3, CycleWrites
    <2>2. <<n[k], n[r]>> \in Abreast
      BY <1>2, <1>3
    <2>3. CASE n[r] # 128
      <3>1. n'[r] = 2 * n[r] /\ rising'[r] = TRUE
        BY <1>2, <1>3, <2>3, CycleWrites
      <3>2. <<n'[k], n'[r]>> \in Ahead
        BY <2>1, <2>2, <2>3, <3>1 DEF Abreast, Ahead
      <3>3. led'[r] = (n'[r] \div 2) - 1
        BY <2>1, <2>2, <3>1 DEF Abreast, Brightness
      <3>4. rising'[After(r)] = FALSE \/ n'[After(r)] = 0
        BY <1>1, <1>2, <1>3, <2>1, <2>3, CycleWrites
      <3> QED
        BY <1>2, <2>1, <3>1, <3>2, <3>3, <3>4 DEF Falls, r
    <2>4. CASE n[r] = 128
      <3>1. n'[r] = 256 /\ rising'[r] = FALSE /\ n'[pc'] = 1 /\ rising'[pc'] = TRUE
        BY <1>2, <1>3, <2>4, CycleWrites
      <3>2. led'[r] = 127
        BY <2>1, <2>4 DEF Brightness
      <3>3. Falls(r)'
        BY <1>1, <2>1, <3>1, <3>2 DEF Falls, Abreast
      <3> QED
        BY <3>3 DEF r
    <2> QED
      BY <2>3, <2>4
  <1>4. CASE pc = k
    <2>1. /\ pc' = r /\ led'[r] = led[r] /\ led'[k] = Brightness(n[k])
          /\ n'[k] = n[k] \div 2 /\ rising'[k] = FALSE /\ n'[r] = n[r] /\ rising'[r] = TRUE
      BY <1>1, <1>2, <1>4, CycleWrites DEF r
    <2>2. <<n[k], n[r]>> \in Ahead
      BY <1>1, <1>2, <1>4
    <2>3. <<n'[k], n'[r]>> \in Abreast
      BY <2>1, <2>2 DEF Abreast, Ahead
    <2>4. led'[k] = IF n'[k] = 256 THEN 127 ELSE 2 * n'[k] - 1
      BY <2>1, <2>2 DEF Ahead, Brightness
    <2>5. rising'[After(r)] = FALSE \/ n'[After(r)] = 0
      BY <1>1, <1>2, <1>4, <2>1, CycleWrites
    <2> QED
      BY <1>2, <2>1, <2>3, <2>4, <2>5 DEF Falls, r
  <1>5. CASE pc = After(r)
    <2>1. pc' = k /\ led'[k] = led[k] /\ led'[r] = led[r]
      BY <1>1, <1>5, CycleWrites
    <2>2. <<n[k], n[r]>> \in Ahead
      BY <1>1, <1>2, <1>5
    <2>3. n'[r] = n[r] /\ rising'[r] = TRUE
      BY <1>1, <1>2, <1>5, <2>1, CycleWrites
    <2>4. /\ n'[k] = n[k] /\ rising'[k] = FALSE
          /\ rising'[pc] = FALSE \/ n'[pc] = 0
      <3>1. CASE rising[pc] = FALSE
        BY <1>2, <1>5, <2>1, <3>1, CycleWrites
      <3>2. CASE rising[pc] = TRUE /\ n[pc] = 0
        <4>1. n[pc] # 128
          BY <3>2
        <4>2. n'[pc] = 2 * n[pc] /\ n'[pc'] = n[pc'] /\ rising'[pc'] = rising[pc']
          BY <3>2, <4>1, CycleWrites
        <4> QED
          BY <1>2, <2>1, <3>2, <4>2
      <3>3. rising[pc] \in BOOLEAN
        BY CycleWrites
      <3> QED
        BY <1>2, <1>5, <3>1, <3>2, <3>3
    <2> QED
      BY <1>1, <1>2, <1>5, <2>1, <2>2, <2>3, <2>4 DEF Falls, r
  <1> QED
    BY <1>1, <1>3, <1>4, <1>5, CycleWrites

\* The first rise goes on until red is at 256, and then red falls.
LEMMA RiseGoesOn ==
  ASSUME Inv, Cycle, FirstRise
  PROVE  FirstRise' \/ Falls("red")'
  <1>1. /\ rising["red"] = TRUE /\ n["red"] \in {1, 2, 4, 8, 16, 32, 64, 128}
        /\ n["green"] = 0 /\ n["blue"] = 0 /\ rising["green"] = TRUE /\ rising["blue"] = TRUE
        /\ led["red"] <= 127 /\ script = "cycle.sh" /\ pc \in {"red", "green", "blue"}
    BY DEF FirstRise, Colours
  <1>2. After("red") = "green" /\ After("green") = "blue" /\ After("blue") = "red"
    BY DEF After
  <1>3. script' = script /\ pc' \in Colours
    BY CycleWrites
  <1>4. CASE pc = "red" /\ n["red"] # 128
    <2>1. /\ n'["red"] = 2 * n["red"] /\ rising'["red"] = TRUE
          /\ n'["green"] = 0 /\ rising'["green"] = TRUE /\ n'["blue"] = 0 /\ rising'["blue"] = TRUE
          /\ led'["red"] = Brightness(n["red"])
      <3>1. pc' = "green" /\ "blue" \in Colours \ {pc, pc'}
        BY <1>2, <1>4, CycleWrites DEF Colours
      <3>2. /\ n'["red"] = 2 * n["red"] /\ rising'["red"] = TRUE
            /\ n'["green"] = n["green"] /\ rising'["green"] = rising["green"]
            /\ led'["red"] = Brightness(n["red"])
        BY <1>1, <1>4, <3>1, CycleWrites, Zenon
      <3>3. n'["blue"] = n["blue"] /\ rising'["blue"] = rising["blue"]
        BY <3>1, CycleWrites, Zenon
      <3> QED
        BY <1>1, <3>2, <3>3, Zenon
    <2>2. n'["red"] \in {1, 2, 4, 8, 16, 32, 64, 128} /\ led'["red"] <= 127
      BY <1>1, <1>4, <2>1 DEF Brightness
    <2> QED
      BY <1>1, <1>3, <2>1, <2>2 DEF FirstRise
  <1>5. CASE pc = "red" /\ n["red"] = 128
    <2>0. pc' = "green" /\ rising[pc] = TRUE /\ n[pc] = 128 /\ "blue" \in Colours \ {pc, pc'}
      BY <1>1, <1>2, <1>5, CycleWrites DEF Colours
    <2>1. /\ n'["red"] = 256 /\ rising'["red"] = FALSE /\ pc' = "green"
          /\ n'["green"] = 1 /\ rising'["green"] = TRUE /\ n'["blue"] = 0
          /\ led'["red"] = 127
      <3>1. n'[pc] = 256 /\ rising'[pc] = FALSE /\ n'[pc'] = 1 /\ rising'[pc'] = TRUE
        BY <2>0, CycleWrites
      <3>2. led'[pc] = Brightness(128) /\ n'["blue"] = n["blue"]
        BY <2>0, CycleWrites
      <3> QED
        BY <1>1, <1>5, <2>0, <3>1, <3>2 DEF Brightness
    <2> QED
      BY <1>2, <2>1 DEF Falls, Abreast
  <1>6. CASE pc = "green"
    <2>1. /\ n'["green"] = 0 /\ rising'["green"] = TRUE
          /\ n'["blue"] = 0 /\ rising'["blue"] = TRUE
          /\ n'["red"] = n["red"] /\ rising'["red"] = TRUE /\ led'["red"] = led["red"]
      <3>1. /\ pc' = "blue" /\ rising[pc] = TRUE /\ n[pc] = 0 /\ n[pc] # 128
            /\ "red" \in Colours \ {pc, pc'} /\ "red" \in Colours \ {pc}
        BY <1>1, <1>2, <1>6, CycleWrites DEF Colours
      <3>2. n'[pc] = 2 * n[pc] /\ rising'[pc] = TRUE /\ n'[pc'] = n[pc'] /\ rising'[pc'] = rising[pc']
        BY <3>1, CycleWrites
      <3>3. n'["red"] = n["red"] /\ rising'["red"] = rising["red"] /\ led'["red"] = led["red"]
        BY <3>1, CycleWrites
      <3> QED
        BY <1>1, <1>6, <3>1, <3>2, <3>3
    <2> QED
      BY <1>1, <1>3, <2>1 DEF FirstRise
  <1>7. CASE pc = "blue"
    <2>1. /\ n'["green"] = 0 /\ rising'["green"] = TRUE
          /\ n'["blue"] = 0 /\ rising'["blue"] = TRUE
          /\ n'["red"] = n["red"] /\ rising'["red"] = TRUE /\ led'["red"] = led["red"]
      <3>1. /\ pc' = "red" /\ rising[pc] = TRUE /\ n[pc] = 0 /\ n[pc] # 128
            /\ "green" \in Colours \ {pc, pc'} /\ "red" \in Colours \ {pc}
        BY <1>1, <1>2, <1>7, CycleWrites DEF Colours
      <3>2. n'[pc] = 2 * n[pc] /\ rising'[pc] = TRUE /\ n'[pc'] = n[pc'] /\ rising'[pc'] = rising[pc']
        BY <3>1, CycleWrites
      <3>3. n'["green"] = n["green"] /\ rising'["green"] = rising["green"] /\ led'["red"] = led["red"]
        BY <3>1, CycleWrites
      <3> QED
        BY <1>1, <1>7, <3>1, <3>2, <3>3
    <2> QED
      BY <1>1, <1>3, <2>1 DEF FirstRise
  <1> QED
    BY <1>1, <1>4, <1>5, <1>6, <1>7

\* cycle.sh only cycles once it has begun.
LEMMA OnlyCycles ==
  ASSUME Inv, Next, script = "cycle.sh", pc \in Colours
  PROVE  Cycle
  BY DEF Next, ScriptNext, Reset, Glow, Fade, ReadCounter, WriteGreen, Wake, Arrive, Interface, Colours

\* Where cycle.sh is: before its loop with red at 1, at the first rise, or passing
\* from one colour to the next.
CyclePhase ==
    script = "cycle.sh" =>
        \/ /\ pc = "reset" /\ n = [k \in Colours |-> IF k = "red" THEN 1 ELSE 0]
           /\ rising = [k \in Colours |-> TRUE]
        \/ FirstRise
        \/ Passing

\* Once one colour falls, one falls.
LEMMA PassingGoesOn == Inv /\ Passing /\ [Next]_vars => Passing'
  <1> SUFFICES ASSUME Inv, Passing, [Next]_vars PROVE Passing'
    OBVIOUS
  <1>1. PICK k \in Colours : Falls(k)
    BY DEF Passing
  <1>2. CASE Next
    <2>1. Cycle
      BY <1>2, OnlyCycles DEF Passing
    <2>2. After(k) \in Colours /\ (Falls(k)' \/ Falls(After(k))')
      BY <1>1, <2>1, FallGoesOn DEF After, Colours
    <2>3. script' = "cycle.sh" /\ pc' \in Colours
      BY <2>1, CycleWrites DEF Passing
    <2> QED
      BY <2>2, <2>3 DEF Passing
  <1>3. CASE UNCHANGED vars
    <2>1. script' = script /\ pc' = pc /\ n' = n /\ rising' = rising /\ led' = led
      BY <1>3 DEF vars, cycleVars
    <2> QED
      BY <1>1, <2>1 DEF Passing, Falls
  <1> QED
    BY <1>2, <1>3

\* cycle.sh goes through its phases in order.
LEMMA NextPhase == Inv /\ CyclePhase /\ [Next]_vars => CyclePhase'
  <1> SUFFICES ASSUME Inv, CyclePhase, [Next]_vars, script' = "cycle.sh" PROVE CyclePhase'
    BY DEF CyclePhase
  <1>0. script = "cycle.sh"
    BY DEF Next, ScriptNext, Reset, Glow, Fade, Cycle, ReadCounter, WriteGreen, Wake, Arrive, Interface, vars
  <1>1. CASE UNCHANGED vars
    <2>1. script' = script /\ pc' = pc /\ n' = n /\ rising' = rising /\ led' = led
      BY <1>1 DEF vars, cycleVars
    <2>2. FirstRise' <=> FirstRise
      BY <2>1 DEF FirstRise
    <2>3. Passing' <=> Passing
      BY <2>1 DEF Passing, Falls
    <2> QED
      BY <1>0, <2>1, <2>2, <2>3 DEF CyclePhase
  <1>2. CASE Next /\ pc = "reset"
    <2>1. /\ n = [k \in Colours |-> IF k = "red" THEN 1 ELSE 0]
          /\ rising = [k \in Colours |-> TRUE]
      BY <1>0, <1>2 DEF CyclePhase, FirstRise, Passing, Colours
    <2>2. Reset
      BY <1>0, <1>2 DEF Next, ScriptNext, Glow, Fade, Cycle, ReadCounter, WriteGreen, Wake, Arrive, Interface, Colours
    <2>3. pc' = "red" /\ n' = n /\ rising' = rising /\ led' = AllOff
      BY <1>0, <2>2 DEF Reset, cycleVars
    <2>4. n'["red"] = 1 /\ n'["green"] = 0 /\ n'["blue"] = 0 /\ led'["red"] = 0
      BY <2>1, <2>3 DEF AllOff, Colours
    <2>5. rising'["red"] = TRUE /\ rising'["green"] = TRUE /\ rising'["blue"] = TRUE
      BY <2>1, <2>3 DEF Colours
    <2>6. FirstRise'
      BY <2>3, <2>4, <2>5 DEF FirstRise, Colours
    <2> QED
      BY <2>6 DEF CyclePhase
  <1>3. CASE Next /\ FirstRise
    <2>1. Cycle
      BY <1>3, OnlyCycles DEF FirstRise
    <2>2. FirstRise' \/ Falls("red")'
      BY <1>3, <2>1, RiseGoesOn
    <2>3. pc' \in Colours /\ "red" \in Colours
      BY <2>1, CycleWrites DEF Colours
    <2> QED
      BY <2>2, <2>3 DEF CyclePhase, Passing
  <1>4. CASE Passing
    BY <1>4, PassingGoesOn DEF CyclePhase
  <1> QED
    BY <1>0, <1>1, <1>2, <1>3, <1>4 DEF CyclePhase

\* Of the falling and the rising colour, one is at 15 or above.
LEMMA PassingIsBright == Passing => \E k \in Colours : led[k] >= Crossing
  <1> SUFFICES ASSUME Passing PROVE \E k \in Colours : led[k] >= Crossing
    OBVIOUS
  <1>1. PICK k \in Colours : Falls(k)
    BY DEF Passing
  <1>2. After(k) \in Colours
    BY DEF After, Colours
  <1>3. <<n[k], n[After(k)]>> \in Abreast \cup Ahead
    BY <1>1 DEF Falls
  <1>4. led[k] >= 15 \/ led[After(k)] >= 15
    BY <1>1, <1>3 DEF Falls, Abreast, Ahead
  <1> QED
    BY <1>2, <1>4 DEF Crossing

\* Once red has been full, cycle.sh is never dark, for good.
THEOREM NeverDark == Spec => CycleNeverDark
  <1>1. Init => CyclePhase
    BY DEF Init, CyclePhase, GlowScripts
  <1>2. Inv /\ CyclePhase => (script = "cycle.sh" /\ pc # "reset" /\ led["red"] = 255 => Passing)
    BY DEF CyclePhase, FirstRise
  <1> QED
    BY <1>1, <1>2, InitInv, NextInv, NextPhase, PassingGoesOn, PassingIsBright, PTL DEF Spec, CycleNeverDark

(***************************************************************************)
(* The level of the traffic indicator.                                     *)
(***************************************************************************)

\* What has arrived is what the counter is ahead of the last reading, and that
\* reading is the one the next is compared with.
ArrivedInv ==
    /\ rx_bytes \in Int /\ bytes_now \in Int /\ arrived \in Int /\ arrived >= -1
    /\ rx_bytes >= 0 /\ arrived >= 0 => arrived = rx_bytes - bytes_now
    /\ pc = "read" => bytes_prev = bytes_now

\* At the start it is what the counter shows.
LEMMA InitArrived == Init => ArrivedInv
  BY LedAssumption DEF Init, ArrivedInv

\* Every step keeps it so: a lost counter is marked until it is read again.
LEMMA NextArrived == Inv /\ ArrivedInv /\ [Next]_vars => ArrivedInv'
  <1> SUFFICES ASSUME Inv, ArrivedInv, [Next]_vars PROVE ArrivedInv'
    OBVIOUS
  <1>1. CASE Reset \/ Glow \/ Fade \/ Cycle
    BY <1>1 DEF Reset, Glow, Fade, Cycle, trafficVars, ArrivedInv, After, Colours
  <1>2. CASE Arrive
    <2>1. PICK b \in Bursts : rx_bytes' = rx_bytes + b /\ arrived' = IF arrived = -1 THEN -1 ELSE arrived + b
      BY <1>2 DEF Arrive
    <2>2. b \in Nat
      BY LedAssumption
    <2>3. rx_bytes >= 0 /\ pc' = pc /\ bytes_now' = bytes_now /\ bytes_prev' = bytes_prev
      BY <1>2 DEF Arrive
    <2> QED
      BY <2>1, <2>2, <2>3 DEF ArrivedInv
  <1>3. CASE Interface
    BY <1>3 DEF Interface, ArrivedInv
  <1>4. CASE ReadCounter
    BY <1>4 DEF ReadCounter, ArrivedInv
  <1>5. CASE WriteGreen \/ Wake
    BY <1>5 DEF WriteGreen, Wake, PrevFromRead, trafficVars, ArrivedInv
  <1>6. CASE UNCHANGED vars
    BY <1>6 DEF vars, trafficVars, ArrivedInv
  <1> QED
    BY <1>1, <1>2, <1>3, <1>4, <1>5, <1>6 DEF Next, ScriptNext

\* Red shows what arrived since the counter was read before, once each.
THEOREM ShowsInterval == Spec => LevelShowsInterval
  <1>1. ASSUME ArrivedInv, ReadCounter, rx_bytes >= 0, arrived >= 0, Inv
        PROVE  led'["red"] = IF 2 * (arrived \div Unit) > 255 THEN 255 ELSE 2 * (arrived \div Unit)
    <2>1. bytes_now' = rx_bytes /\ bytes_prev = bytes_now /\ arrived = rx_bytes - bytes_now
      BY <1>1 DEF ReadCounter, ArrivedInv
    <2>2. led'["red"] = Level(arrived)
      BY <1>1, <2>1 DEF ReadCounter, Inv, LedInv, Colours
    <2>3. Quot(arrived, Unit) = arrived \div Unit /\ arrived \div Unit \in Nat
      <3>1. arrived \in Nat /\ Unit \in Nat \ {0}
        BY <1>1, LedAssumption DEF ArrivedInv
      <3> QED
        BY <3>1, QuotientInNat DEF Quot
    <2> QED
      BY <2>2, <2>3 DEF Level, Clamped
  <1>2. Inv /\ ArrivedInv /\ [Next]_vars =>
          [ReadCounter /\ rx_bytes >= 0 /\ arrived >= 0 =>
             led'["red"] = IF 2 * (arrived \div Unit) > 255 THEN 255 ELSE 2 * (arrived \div Unit)]_vars
    BY <1>1
  <1> QED
    BY <1>2, InitInv, NextInv, InitArrived, NextArrived, PTL DEF Spec, LevelShowsInterval

=============================================================================
