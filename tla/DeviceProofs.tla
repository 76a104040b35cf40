---------------------------- MODULE DeviceProofs ----------------------------
(***************************************************************************)
(* Proofs about the parts of MCDevice, which share nothing: the crash      *)
(* counting of Watchdog, the phases of Timers, the values of               *)
(* PersistGroups, the restore of Settings, the counts of Counters, the     *)
(* room of SseServer and the answers of RtuMaster, for every value of      *)
(* their constants.  A step of the device is a step of one part; each part *)
(* has an inductive invariant of its own.                                  *)
(***************************************************************************)
EXTENDS MCDevice, SequenceTheorems, WellFoundedInduction, TLAPS

-----------------------------------------------------------------------------
\* A step of the device is a step of one part, and the others stay as they are.
LEMMA DeviceSteps ==
  ASSUME [Next]_vars
  PROVE  /\ Watch!Next \/ UNCHANGED watchVars
         /\ Timer!Next \/ UNCHANGED timerVars
         /\ Slave!Next \/ UNCHANGED slaveVars
         /\ Counter!Next \/ UNCHANGED counterVars
         /\ Groups!Next \/ UNCHANGED groupVars
         /\ Setting!Next \/ UNCHANGED settingVars
         /\ Rooms!Next \/ UNCHANGED sseVars
         /\ Rtu!Next \/ UNCHANGED rtuVars
         /\ Terminal!Next \/ UNCHANGED terminalVars
<1> USE DEF vars
<1>1. CASE InGroups /\ Groups!Next  BY <1>1 DEF InGroups
<1>2. CASE InWatch /\ Watch!Next  BY <1>2 DEF InWatch
<1>3. CASE InCounter /\ Counter!Next  BY <1>3 DEF InCounter
<1>4. CASE InTimer /\ Timer!Next  BY <1>4 DEF InTimer
<1>5. CASE InSettings /\ Setting!Next  BY <1>5 DEF InSettings
<1>6. CASE InSlave /\ Slave!Next  BY <1>6 DEF InSlave
<1>7. CASE InConfig /\ Config!Next  BY <1>7 DEF InConfig
<1>8. CASE InRooms /\ Rooms!Next  BY <1>8 DEF InRooms
<1>9. CASE InRtu /\ Rtu!Next  BY <1>9 DEF InRtu
<1>10. CASE InTerminals /\ Terminal!Next  BY <1>10 DEF InTerminals
<1> QED  BY <1>1, <1>2, <1>3, <1>4, <1>5, <1>6, <1>7, <1>8, <1>9, <1>10 DEF Next

-----------------------------------------------------------------------------
\* The streak in flash follows the crashes that a start has counted.  With a
\* safe flag there is nothing left to show; without one, the crashes in a row
\* are at most the streak of the next start, which it makes of the flash and of
\* the uptime in RTC memory.
WatchInv ==
  /\ Watch!TypeOK
  /\ rtcLong => late <= 1
  /\ phase = "start" /\ ~nvs.safe => late <= Watch!Judged(nvs.streak)
  /\ phase = "init" =>
       /\ ~rtcLong
       /\ ~nvs.safe => late <= Watch!Next1(nvs.streak)
  /\ phase \in {"init", "up"} /\ ~state.safe => late <= state.streak /\ state.streak < SafeStreak
  /\ phase = "up" =>
       /\ rtcLong => settled
       /\ cleared => settled /\ late = 0
  /\ phase \in {"up", "reboot"} => state = nvs
  /\ phase = "reboot" /\ ~nvs.safe => late <= nvs.streak

\* A reset keeps the types of what it leaves alone.
LEMMA ResetTypes ==
  ASSUME Watch!TypeOK, NEW why \in {"power", "software", "crash"}, Watch!Reset(why),
         rtcLong' \in BOOLEAN, bad' \in Nat, late' \in Nat
  PROVE  Watch!TypeOK' /\ phase' = "start" /\ nvs' = nvs
BY DeviceAssumption DEF Watch!WatchdogAssumption, Watch!TypeOK, Watch!Reset

LEMMA WatchNext ==
  ASSUME WatchInv, Watch!Next \/ UNCHANGED watchVars
  PROVE  WatchInv'
<1> USE DeviceAssumption DEF WatchInv, Watch!WatchdogAssumption, Watch!TypeOK, Watch!States,
        Watch!history
<1>1. CASE Watch!WatchdogInit
  <2> USE <1>1 DEF Watch!WatchdogInit
  <2> DEFINE n == Watch!Judged(nvs.streak)
  <2>1. n \in 0..MaxStreak /\ Watch!Next1(nvs.streak) \in Nat /\ n <= Watch!Next1(nvs.streak)
    BY DEF Watch!Judged, Watch!Next1
  <2>2. state' = [streak |-> n, safe |-> nvs.safe \/ n >= SafeStreak]
    OBVIOUS
  <2>3. ~nvs.safe => late <= n
    OBVIOUS
  <2>4. state' \in Watch!States /\ state'.streak = n /\ state'.safe = (nvs.safe \/ n >= SafeStreak)
    BY <2>1, <2>2
  <2>5. Watch!TypeOK'
    BY <2>4
  <2>6. Watch!Next1(nvs.streak)' = Watch!Next1(nvs.streak)
    BY DEF Watch!Next1
  <2>7. phase' = "init" /\ nvs' = nvs /\ late' = late /\ late \in Nat /\ ~rtcLong'
    OBVIOUS
  <2> HIDE DEF n
  <2> QED  BY ONLY <2>1, <2>3, <2>4, <2>5, <2>6, <2>7, DeviceAssumption
           DEF WatchInv, Watch!WatchdogAssumption
<1>2. CASE Watch!InitDone
  BY <1>2 DEF Watch!InitDone
<1>3. CASE Watch!Settle
  BY <1>3 DEF Watch!Settle
<1>4. CASE Watch!Feed
  <2> USE <1>4 DEF Watch!Feed
  <2>1. CASE settled /\ ~cleared
    <3>1. state' = [state EXCEPT !.streak = 0] /\ state' \in Watch!States
          /\ nvs' \in Watch!States /\ state'.streak = 0 /\ late' = 0
      BY <2>1
    <3>2. state' = nvs'
      BY <2>1, state = [streak |-> state.streak, safe |-> state.safe]
    <3>3. Watch!TypeOK'
      BY <2>1, <3>1
    <3>4. cleared' /\ settled' /\ phase' = "up"
      BY <2>1
    <3> QED  BY ONLY <3>1, <3>2, <3>3, <3>4, DeviceAssumption DEF WatchInv, Watch!WatchdogAssumption
  <2>2. CASE ~(settled /\ ~cleared)
    BY <2>2
  <2> QED  BY <2>1, <2>2
<1>5. CASE Watch!Crash
  <2> USE <1>5 DEF Watch!Crash, Watch!Reset
  <2>1. late' \in Nat /\ bad' \in Nat /\ late' <= late + 1
    BY DEF Watch!Counted
  <2>2. Watch!TypeOK'
    BY <2>1, ResetTypes
  <2>3. rtcLong' => late' <= 1
    BY DEF Watch!Counted
  <2>4. ~nvs.safe => late' <= Watch!Judged(nvs.streak)'
    BY <2>1, <2>3 DEF Watch!Judged, Watch!Next1
  <2>5. phase' = "start" /\ nvs' = nvs
    OBVIOUS
  <2> QED  BY ONLY <2>2, <2>3, <2>4, <2>5 DEF WatchInv
<1>6. CASE Watch!PowerLoss
  <2> USE <1>6 DEF Watch!PowerLoss
  <2>1. phase' = "start" /\ nvs' = nvs /\ ~rtcLong'
    BY DEF Watch!Reset
  <2>2. Watch!TypeOK'
    BY ResetTypes
  <2>3. ~nvs.safe => late' <= Watch!Judged(nvs.streak)'
    BY <2>1 DEF Watch!Judged, Watch!Reset
  <2> QED  BY ONLY <2>1, <2>2, <2>3 DEF WatchInv
<1>7. CASE Watch!Restart
  BY <1>7 DEF Watch!Restart, Watch!Reset, Watch!Judged
<1>8. CASE Watch!RebootFor
  BY <1>8 DEF Watch!RebootFor, Watch!Counted
<1>9. CASE Watch!RebootDone
  BY <1>9 DEF Watch!RebootDone, Watch!Reset, Watch!Judged
<1>10. CASE Watch!ClearSafeMode
  BY <1>10 DEF Watch!ClearSafeMode, Watch!Clear
<1>11. CASE Watch!ResetStats
  BY <1>11 DEF Watch!ResetStats, Watch!Clear
<1>12. CASE UNCHANGED watchVars
  BY <1>12 DEF watchVars, Watch!Judged, Watch!Next1
<1> QED
  BY <1>1, <1>2, <1>3, <1>4, <1>5, <1>6, <1>7, <1>8, <1>9, <1>10, <1>11, <1>12 DEF Watch!Next


-----------------------------------------------------------------------------
\* Differences of two clock readings, without the modulus.
Before(a, b) == IF a >= b THEN a - b ELSE a - b + TimerMod
Behind == Before(clock, now)

LEMMA ClockRange == TimerMod \in Nat /\ TimerMod > 0 /\ 0 \in 0..TimerMod-1
BY DeviceAssumption DEF Timer!TimerAssumption

LEMMA ClockDifference ==
  ASSUME NEW a \in 0..TimerMod-1, NEW b \in 0..TimerMod-1
  PROVE  (a - b) % TimerMod = Before(a, b) /\ Before(a, b) \in 0..TimerMod-1
BY ClockRange DEF Before

LEMMA ClockTick ==
  ASSUME NEW a \in 0..TimerMod-1
  PROVE  (a + 1) % TimerMod = (IF a + 1 = TimerMod THEN 0 ELSE a + 1)
BY ClockRange

LEMMA TimerConfigTypes ==
  ASSUME NEW c \in TimerConfigs
  PROVE  /\ c.mode \in {"oneshot", "monostable", "astable", "trigger"}
         /\ \A p \in 0..2 : c.last[p] \in 0..TimerMod-1
BY DeviceAssumption DEF Timer!TimerAssumption, Timer!Modes

TimerTypes ==
  /\ timer \in TimerConfigs /\ own \in TimerConfigs
  /\ active \in BOOLEAN /\ ready \in BOOLEAN /\ ahead \in BOOLEAN
  /\ timerPhase \in 0..2 /\ step \in {"idle", "control", "mode"}
  /\ start \in 0..TimerMod-1 /\ clock \in 0..TimerMod-1 /\ now \in 0..TimerMod-1
  /\ age \in 0..TimerMod-1

\* A phase began age ago.  A pass is at most one tick behind the clock, and a
\* phase that is younger than that is marked.  Before its first pass, which
\* looks at the input only, a triggered timer runs no longer than that pass.
TimerInv ==
  /\ TimerTypes
  /\ step # "idle" => Behind \in {0, 1}
  /\ active => start = Before(clock, age)
  /\ active /\ step # "idle" /\ ~ahead => age >= Behind
  /\ step # "idle" /\ own # timer => timerPhase = 0
  /\ timerPhase = 2 => timer.mode = "oneshot"
  /\ timer.mode = "trigger" /\ active /\ ~ready /\ ~ahead =>
       step = "mode" /\ own = timer /\ age = Behind

LEMMA TimerTick == ASSUME TimerInv, Timer!Tick  PROVE TimerInv'
<1> USE DeviceAssumption DEF TimerInv, TimerTypes, Timer!Tick, Timer!run, Timer!trigger,
        Timer!passed, Timer!TimerAssumption
<1>1. clock' = IF clock + 1 = TimerMod THEN 0 ELSE clock + 1
  BY ClockTick
<1>2. TimerTypes'
  BY <1>1
<1>3. step # "idle" => Behind' \in {0, 1} /\ (active => Behind' = 1 /\ Behind = 0 /\ age' = age + 1)
  BY <1>1, <1>2 DEF Behind, Before
<1>4. active' => start' = Before(clock, age)'
  BY <1>1, <1>2 DEF Before
<1> QED  BY <1>1, <1>2, <1>3, <1>4

LEMMA TimerHandleControl == ASSUME TimerInv, Timer!HandleControl  PROVE TimerInv'
<1> USE DEF TimerInv, TimerTypes, Timer!HandleControl
<1>0. /\ start' \in {0, clock, start} /\ age' \in {0, age} /\ timerPhase' \in {0, timerPhase}
      /\ active' \in BOOLEAN /\ ready' \in BOOLEAN /\ ahead' \in BOOLEAN /\ step' = "mode"
      /\ UNCHANGED <<timer, own, clock, now>>
  OBVIOUS
<1>1. TimerTypes'
  BY <1>0, ClockRange
<1>2. Behind' = Behind /\ Behind \in {0, 1}
  BY DEF Behind, Before
<1>3. active' => \/ "start" \in commands /\ start' = clock /\ age' = 0
                 \/ active /\ "start" \notin commands /\ start' = start /\ age' = age /\ ahead' = ahead
                    /\ "reset" \notin commands
  OBVIOUS
<1>4. now = clock => Behind = 0
  BY DEF Behind, Before
<1>5. active' => start' = Before(clock, age)'
  BY <1>3 DEF Before
<1>6. active' /\ ~ahead' => age' >= Behind
  BY <1>2, <1>3, <1>4
<1>7. timer.mode = "trigger" /\ active' /\ ~ready' /\ ~ahead' => own = timer /\ age' = Behind
  BY <1>2, <1>3, <1>4
<1>8. timerPhase' \in {0, timerPhase}
  OBVIOUS
<1> QED  BY <1>1, <1>2, <1>5, <1>6, <1>7, <1>8

LEMMA TimerMode == ASSUME TimerInv, Timer!Mode  PROVE TimerInv'
<1> USE DEF TimerInv, TimerTypes, Timer!Mode
<1>1. \/ UNCHANGED <<active, timerPhase, start, age, ahead>>
      \/ \E p \in 0..2 : Timer!Enters(p) /\ (p = 2 => own.mode = "oneshot" /\ timerPhase = 1)
      \/ Timer!Ends
      \/ timerPhase' = 1 /\ UNCHANGED <<active, start, age, ahead>>
  BY TimerConfigTypes
     DEF Timer!ModeMonostable, Timer!ModeTrigger, Timer!ModeOneShot, Timer!ModeAstable,
         Timer!Stays, Timer!run
<1>2. ready' \in BOOLEAN /\ (own.mode = "trigger" => ready') /\ (own.mode # "trigger" => ready' = ready)
  BY TimerConfigTypes
     DEF Timer!ModeMonostable, Timer!ModeTrigger, Timer!ModeOneShot, Timer!ModeAstable
<1>3. CASE UNCHANGED <<active, timerPhase, start, age, ahead>>
  BY <1>2, <1>3 DEF Before
<1>4. ASSUME NEW p \in 0..2, Timer!Enters(p), p = 2 => own.mode = "oneshot" /\ timerPhase = 1
      PROVE  TimerInv'
  <2> USE <1>4 DEF Timer!Enters
  <2>1. age' = Before(clock, now) /\ Before(clock, now) \in 0..TimerMod-1
    BY ClockDifference
  <2>2. start' = Before(clock, age')
    BY <2>1, ClockRange DEF Before
  <2>3. TimerTypes'
    BY <1>2, <2>1
  <2>4. p = 2 => timer.mode = "oneshot"
    OBVIOUS
  <2>5. ~ahead' => own = timer
    OBVIOUS
  <2>6. Before(clock, age)' = Before(clock, age')
    BY DEF Before
  <2> QED  BY <1>2, <2>1, <2>2, <2>3, <2>4, <2>5, <2>6
<1>5. CASE Timer!Ends
  <2>0. step' = "idle" /\ UNCHANGED <<timer, own, clock, now, start, age, ahead>> /\ active' = FALSE
        /\ timerPhase' = 0
    BY <1>5 DEF Timer!Ends
  <2>1. TimerTypes'
    <3> HIDE DEF Timer!Mode
    <3>1. ready' \in BOOLEAN
      BY <1>2
    <3>2. active' \in BOOLEAN
      BY <1>5, Zenon DEF Timer!Ends
    <3>3. timerPhase' \in 0..2
      BY <2>0
    <3> QED  BY ONLY TimerInv, <2>0, <3>1, <3>2, <3>3
  <2>2. ~active' /\ timerPhase' = 0 /\ step' = "idle"
    BY <1>5 DEF Timer!Ends
  <2> QED  BY ONLY <2>1, <2>2 DEF TimerInv
<1>6. CASE timerPhase' = 1 /\ UNCHANGED <<active, start, age, ahead>>
  BY <1>2, <1>6 DEF Before
<1> QED  BY <1>1, <1>3, <1>4, <1>5, <1>6

LEMMA TimerNext ==
  ASSUME TimerInv, Timer!Next \/ UNCHANGED timerVars
  PROVE  TimerInv'
<1> USE DEF TimerInv, TimerTypes
<1>1. CASE Timer!Tick
  BY <1>1, TimerTick
<1>2. CASE Timer!Control
  BY <1>2 DEF Timer!Control, Timer!Called, Timer!run, Timer!trigger, Timer!passed, Behind, Before
<1>3. CASE Timer!InputChanges
  BY <1>3 DEF Timer!InputChanges, Timer!run, Timer!trigger, Timer!passed, Behind, Before
<1>4. CASE Timer!PassBegins
  BY <1>4 DEF Timer!PassBegins, Timer!run, Timer!trigger, Timer!passed, Behind, Before
<1>5. CASE Timer!HandleControl
  BY <1>5, TimerHandleControl
<1>6. CASE Timer!Mode
  BY <1>6, TimerMode
<1>7. ASSUME NEW c \in TimerConfigs, Timer!Configure(c)  PROVE TimerInv'
  <2> USE <1>7 DEF Timer!Configure, Timer!Called, Timer!run, Timer!trigger, Timer!passed
  <2>0. /\ active' \in BOOLEAN /\ ahead' \in BOOLEAN /\ ready' \in BOOLEAN
        /\ start' \in {0, clock} /\ age' \in {0, age} /\ timerPhase' = 0
        /\ timer' = c /\ UNCHANGED <<own, step, clock, now>>
    OBVIOUS
  <2>1. TimerTypes'
    BY <2>0, ClockRange
  <2>2. Behind' = Behind
    BY DEF Behind, Before
  <2>3. active' => /\ start' = clock /\ age' = 0 /\ c.mode = "astable"
                   /\ ~ahead' => step = "idle" \/ now = clock
    OBVIOUS
  <2>4. clock = Before(clock, 0) /\ (now = clock => Behind = 0)
    BY DEF Behind, Before
  <2>5. active' => start' = Before(clock, age)'
    BY <2>3, <2>4 DEF Before
  <2>6. active' /\ step' # "idle" /\ ~ahead' => age' >= Behind'
    BY ONLY <2>0, <2>2, <2>3, <2>4, clock \in 0..TimerMod-1
  <2>7. timer' = c /\ timerPhase' = 0 /\ step' = step
    OBVIOUS
  <2> QED  BY <2>1, <2>2, <2>3, <2>5, <2>6, <2>7
<1>8. CASE UNCHANGED timerVars
  BY <1>8 DEF timerVars, Behind, Before
<1> QED  BY <1>1, <1>2, <1>3, <1>4, <1>5, <1>6, <1>7, <1>8 DEF Timer!Next


\* In the pass of an unmarked phase, the time that the pass sees is that of
\* the subtraction, wherever the clock has wrapped.
LEMMA PassSeesTheAge ==
  ASSUME TimerInv, active, step = "mode", ~ahead
  PROVE  Timer!Seen = (now - start) % TimerMod /\ Timer!Seen \in 0..TimerMod-1
<1> USE DEF TimerInv, TimerTypes
<1>1. Timer!Seen = age - Behind /\ (now - start) % TimerMod = Before(now, start)
  BY ClockDifference DEF Timer!Seen, Behind
<1>2. age >= Behind /\ start = Before(clock, age) /\ Behind \in 0..TimerMod-1
  BY ClockDifference DEF Behind
<1>3. Before(now, start) = age - Behind
  BY <1>2, ClockRange DEF Behind, Before
<1> QED  BY <1>1, <1>2, <1>3, ClockDifference

LEMMA TimedPasses ==
  ASSUME TimerInv, Timer!Timed, ~ahead, step' = "idle", Timer!Mode
  PROVE  timerPhase' # timerPhase \/ active' # active <=> Timer!Seen >= Timer!Length
<1> USE DEF TimerInv, TimerTypes, Timer!Timed
<1> DEFINE seen == (now - start) % TimerMod
<1>1. Timer!Seen = seen /\ seen \in 0..TimerMod-1
  BY PassSeesTheAge
<1>2. own.mode \in {"oneshot", "monostable", "astable", "trigger"} /\ \A p \in 0..2 : own.last[p] \in 0..TimerMod-1
  BY TimerConfigTypes
<1>3. \A p \in 0..2 : Timer!Past(own.last[p]) <=> seen >= own.last[p]
  BY <1>1, <1>2 DEF Timer!Past
<1> DEFINE changed == timerPhase' # timerPhase \/ active' # active
<1>a. Timer!Stays => ~changed
  BY DEF Timer!Stays, Timer!run
<1>b. Timer!Ends => changed
  BY DEF Timer!Ends
<1>c. \A p : p # timerPhase /\ Timer!Enters(p) => changed
  BY DEF Timer!Enters
<1> HIDE DEF seen, changed
<1> SUFFICES changed <=> Timer!Seen >= Timer!Length
  BY DEF changed
<1>4. CASE own.mode = "oneshot"
  <2>1. Timer!ModeOneShot /\ Timer!Length = own.last[timerPhase]
    BY <1>4 DEF Timer!Mode, Timer!Length, Timer!ModeAstable
  <2>2. IF ~Timer!Past(own.last[timerPhase]) THEN Timer!Stays
        ELSE IF timerPhase = 2 THEN Timer!Ends ELSE Timer!Enters(timerPhase + 1)
    BY <2>1 DEF Timer!ModeOneShot
  <2> QED  BY <1>1, <1>3, <1>a, <1>b, <1>c, <2>1, <2>2
<1>5. CASE own.mode = "monostable"
  <2>1. Timer!ModeMonostable /\ timerPhase \in {0, 1}
        /\ Timer!Length = IF timerPhase = 0 THEN 0 ELSE own.last[1]
    BY <1>5 DEF Timer!Mode, Timer!Length
  <2>2. IF timerPhase = 0 THEN Timer!Enters(1) ELSE IF seen >= own.last[1] THEN Timer!Ends ELSE Timer!Stays
    BY <2>1 DEF seen, Timer!ModeMonostable
  <2> QED  BY <1>1, <1>2, <1>a, <1>b, <1>c, <2>1, <2>2
<1>6. CASE own.mode = "astable"
  <2>1. Timer!ModeAstable /\ timerPhase \in {0, 1} /\ Timer!Length = own.last[timerPhase]
    BY <1>6 DEF Timer!Mode, Timer!Length, Timer!ModeOneShot
  <2>2. IF Timer!Past(own.last[timerPhase]) THEN Timer!Enters(1 - timerPhase) ELSE Timer!Stays
    BY <2>1 DEF Timer!ModeAstable
  <2> QED  BY <1>1, <1>3, <1>a, <1>c, <2>1, <2>2
<1>7. CASE own.mode = "trigger"
  <2>1. Timer!ModeTrigger /\ timerPhase = 0 /\ Timer!Length = own.last[0] /\ own.last[0] > 0
    BY <1>2, <1>7 DEF Timer!Mode, Timer!Length
  <2>2. CASE ready
    <3>1. IF seen >= own.last[0] THEN timerPhase' = 1 ELSE Timer!Stays
      BY <2>1, <2>2 DEF seen, Timer!ModeTrigger
    <3>2. timerPhase' = 1 => changed
      BY <2>1 DEF changed
    <3> QED  BY <1>1, <1>2, <1>a, <2>1, <3>1, <3>2
  <2>3. CASE ~ready
    <3>1. Timer!Seen = 0
      BY <1>7, <2>3, ClockDifference DEF Behind, Timer!Seen
    <3>2. Timer!Stays
      BY <2>1, <2>3 DEF Timer!ModeTrigger
    <3> QED  BY <1>2, <1>a, <2>1, <3>1, <3>2
  <2> QED  BY <2>2, <2>3
<1> QED  BY <1>2, <1>4, <1>5, <1>6, <1>7

-----------------------------------------------------------------------------
LEMMA DeviceInit == Init => WatchInv /\ TimerInv
<1> SUFFICES ASSUME Init  PROVE WatchInv /\ TimerInv  OBVIOUS
<1>0. Watch!Init /\ Timer!Init
  BY DEF Init
<1>1. WatchInv
  <2>1. /\ nvs = [streak |-> 0, safe |-> FALSE] /\ state = nvs /\ nvs \in Watch!States
        /\ nvs.streak = 0
    <3>1. 0 \in 0..MaxStreak
      BY DeviceAssumption DEF Watch!WatchdogAssumption
    <3> QED  BY <1>0, <3>1 DEF Watch!Init, Watch!States
  <2>2. Watch!TypeOK
    <3>1. 0 \in 0..MaxEnds
      BY DeviceAssumption DEF Watch!WatchdogAssumption
    <3> QED  BY <1>0, <2>1, <3>1 DEF Watch!Init, Watch!TypeOK
  <2> QED  BY <1>0, <2>1, <2>2 DEF Watch!Init, WatchInv, Watch!Judged
<1>2. TimerInv
  <2> USE <1>0 DEF Timer!Init
  <2>1. /\ clock \in 0..TimerMod-1 /\ start = clock /\ now = clock /\ age = 0 /\ timerPhase = 0
        /\ step = "idle" /\ timer \in TimerConfigs /\ own \in TimerConfigs
    BY ClockRange
  <2>2. active \in BOOLEAN /\ ready \in BOOLEAN /\ ahead \in BOOLEAN
    BY Zenon
  <2>3. TimerTypes
    BY ONLY <2>1, <2>2, ClockRange DEF TimerTypes
  <2>4. Before(clock, 0) = clock
    BY <2>1 DEF Before
  <2>5. active => timer.mode = "astable"
    OBVIOUS
  <2> QED  BY ONLY <2>1, <2>3, <2>4, <2>5 DEF TimerInv
<1> QED  BY <1>1, <1>2

\* Crashes in a row, each within the time limit of its start, lead to safe mode,
\* whatever reboots, power failures and external resets come between: the
\* streak that watchdog_monitor.cpp keeps in flash never falls behind.
THEOREM CrashLoopsAreCaught == Spec => []CrashLoopIsCaught
<1>1. Init => WatchInv
  BY DeviceInit
<1>2. WatchInv /\ [Next]_vars => WatchInv'
  BY DeviceSteps, WatchNext
<1>3. WatchInv => CrashLoopIsCaught
  BY DeviceAssumption
     DEF WatchInv, CrashLoopIsCaught, Watch!CrashLoopIsCaught, Watch!TypeOK, Watch!States,
         Watch!WatchdogAssumption
<1> QED  BY <1>1, <1>2, <1>3, PTL DEF Spec

\* A step of another part, or of the timer without its mode, is no end of a pass.
LEMMA PassEnds ==
  ASSUME TimerInv, [Next]_vars
  PROVE  Timer!Timed /\ ~ahead /\ step' = "idle"
           => (timerPhase' # timerPhase \/ active' # active <=> Timer!Seen >= Timer!Length)
<1> SUFFICES ASSUME Timer!Timed, ~ahead, step' = "idle"
             PROVE  timerPhase' # timerPhase \/ active' # active <=> Timer!Seen >= Timer!Length
  OBVIOUS
<1>1. Timer!Next \/ UNCHANGED timerVars
  BY DeviceSteps
<1>2. step = "mode" /\ step' # step
  BY DEF Timer!Timed
<1>3. Timer!Mode
  BY <1>1, <1>2
     DEF timerVars, Timer!Next, Timer!Tick, Timer!Control, Timer!InputChanges, Timer!PassBegins,
         Timer!HandleControl, Timer!Configure, Timer!passed
<1> QED  BY <1>3, TimedPasses

\* In every mode a phase ends in the first pass after its time and in none
\* before, however the clock wraps and commands come between (timer_engine.cpp).
THEOREM PhasesLastAsSet == Spec => PhasesLast
<1>1. Init => TimerInv
  BY DeviceInit
<1>2. TimerInv /\ [Next]_vars => TimerInv'
  BY DeviceSteps, TimerNext
<1>3. TimerInv /\ [Next]_vars =>
        [Timer!Timed /\ ~ahead /\ step' = "idle"
           => (timerPhase' # timerPhase \/ active' # active <=> Timer!Seen >= Timer!Length)]_(Timer!vars)
  BY PassEnds
<1> QED  BY <1>1, <1>2, <1>3, PTL DEF Spec, PhasesLast, Timer!PhasesLast


-----------------------------------------------------------------------------
LEMMA Removed ==
  ASSUME NEW S, NEW l \in Seq(S), NEW i \in 1 .. Len(l)
  PROVE  /\ Groups!RemoveAt(l, i) \in Seq(S)
         /\ Len(Groups!RemoveAt(l, i)) = Len(l) - 1
         /\ \A k \in 1 .. Len(l) - 1 : Groups!RemoveAt(l, i)[k] = IF k < i THEN l[k] ELSE l[k + 1]
<1>. DEFINE a == SubSeq(l, 1, i - 1)
            b == SubSeq(l, i + 1, Len(l))
<1>1. a \in Seq(S) /\ Len(a) = i - 1 /\ \A k \in 1 .. i - 1 : a[k] = l[k]
  OBVIOUS
<1>2. b \in Seq(S) /\ Len(b) = Len(l) - i /\ \A k \in 1 .. Len(l) - i : b[k] = l[k + i]
  OBVIOUS
<1>. HIDE DEF a, b
<1>3. /\ a \o b \in Seq(S) /\ Len(a \o b) = Len(l) - 1
      /\ \A k \in 1 .. Len(l) - 1 : (a \o b)[k] = IF k <= i - 1 THEN a[k] ELSE b[k - (i - 1)]
  <2>1. /\ a \o b \in Seq(S) /\ Len(a \o b) = Len(a) + Len(b)
        /\ \A k \in 1 .. Len(a) + Len(b) :
             (a \o b)[k] = IF k <= Len(a) THEN a[k] ELSE b[k - Len(a)]
    BY <1>1, <1>2, ConcatProperties
  <2>2. Len(l) \in Nat /\ Len(a) = i - 1 /\ Len(a) + Len(b) = Len(l) - 1
    BY <1>1, <1>2
  <2>. QED
    BY <2>1, <2>2
<1>4. \A k \in 1 .. Len(l) - 1 : (a \o b)[k] = IF k < i THEN l[k] ELSE l[k + 1]
  <2>. TAKE k \in 1 .. Len(l) - 1
  <2>1. CASE k < i
    BY <1>1, <1>3, <2>1
  <2>2. CASE ~(k < i)
    <3>1. (a \o b)[k] = b[k - (i - 1)]
      BY <1>3, <2>2
    <3>2. k - (i - 1) \in 1 .. Len(l) - i /\ (k - (i - 1)) + i = k + 1
      BY <2>2
    <3>3. b[k - (i - 1)] = l[k + 1]
      BY <1>2, <3>2
    <3>. QED
      BY <2>2, <3>1, <3>3
  <2>. QED
    BY <2>1, <2>2
<1>. QED
  BY <1>3, <1>4 DEF Groups!RemoveAt, a, b

-----------------------------------------------------------------------------
(***************************************************************************)
(* Persistent groups.  Every value of a group goes with its register, in   *)
(* the configuration and in its copy in flash; what an edit leaves of the  *)
(* groups are entries of theirs, or entries new to a group of that name.   *)
(***************************************************************************)
GroupT == [name : Names, addr : Seq(Regs), val : Seq(Values)]
GroupList == [enabled : BOOLEAN, auto : BOOLEAN, ids : Seq(Nat), groups : Seq(GroupT)]

\* As many values as registers, and no register twice.
Paired(group) ==
  /\ Len(group.val) = Len(group.addr)
  /\ \A i, j \in 1..Len(group.addr) : group.addr[i] = group.addr[j] => i = j
\* No name twice.
Named(p) == \A g, h \in Groups!Ids(p) : p.groups[g].name = p.groups[h].name => g = h
WellFormed(p) ==
  /\ p \in GroupList
  /\ Named(p) /\ \A g \in Groups!Ids(p) : Paired(p.groups[g])

Follows(p, k) ==
  \A g \in Groups!Ids(p), r \in Regs : \A i \in Groups!At(p.groups[g], r) :
    k[r] # None /\ Groups!Holders(p, r) = {g} => p.groups[g].val[i] = k[r]

IsJob(j) == j = [todo |-> j.todo, at |-> j.at, busy |-> j.busy] /\ j.at \in Nat \ {0}

GroupsInv ==
  /\ WellFormed(pr) /\ WellFormed(flash)
  /\ Follows(pr, kept) /\ Follows(flash, keptFlash)
  /\ reg \in [Regs -> Values] /\ DOMAIN kept = Regs /\ DOMAIN keptFlash = Regs
  /\ job = [t \in Tasks |-> job[t]] /\ \A t \in Tasks : IsJob(job[t])

\* Where the entries of q come from.
HasEntry(p, name, r) == \E h \in Groups!Ids(p) : p.groups[h].name = name /\ Groups!At(p.groups[h], r) # {}
Stems(q, p) ==
  \A g \in Groups!Ids(q), r \in Regs : \A i \in Groups!At(q.groups[g], r) :
    \/ ~HasEntry(p, q.groups[g].name, r)
    \/ \E h \in Groups!Ids(p) : \E j \in Groups!At(p.groups[h], r) :
         p.groups[h].name = q.groups[g].name /\ p.groups[h].val[j] = q.groups[g].val[i]

LEMMA GroupFacts ==
  ASSUME NEW p, WellFormed(p)
  PROVE  /\ p.groups \in Seq(GroupT) /\ p.ids \in Seq(Nat) /\ Len(p.groups) \in Nat
         /\ Groups!Ids(p) = 1..Len(p.groups)
         /\ \A g \in Groups!Ids(p) :
              /\ p.groups[g] \in GroupT /\ Paired(p.groups[g])
              /\ p.groups[g].addr \in Seq(Regs) /\ p.groups[g].val \in Seq(Values)
              /\ p.groups[g].name \in Names /\ Len(p.groups[g].addr) \in Nat
<1>1. p.groups \in Seq(GroupT) /\ p.ids \in Seq(Nat)
  BY DEF WellFormed, GroupList
<1>2. Len(p.groups) \in Nat /\ Groups!Ids(p) = 1..Len(p.groups)
  BY <1>1, LenProperties DEF Groups!Ids
<1>3. \A g \in Groups!Ids(p) : p.groups[g] \in GroupT
  BY <1>1, <1>2, ElementOfSeq
<1>4. \A group \in GroupT : /\ group.addr \in Seq(Regs) /\ group.val \in Seq(Values)
                            /\ group.name \in Names /\ Len(group.addr) \in Nat
  BY LenProperties DEF GroupT
<1> QED  BY <1>1, <1>2, <1>3, <1>4 DEF WellFormed

\* An edit from which the entries stem leaves each value with its register.
LEMMA EditFollows ==
  ASSUME NEW p, WellFormed(pr), Follows(pr, kept), Stems(p, pr), Groups!Forget(p)
  PROVE  Follows(p, kept')
<1> SUFFICES ASSUME NEW g \in Groups!Ids(p), NEW r \in Regs, NEW i \in Groups!At(p.groups[g], r),
                    kept'[r] # None, Groups!Holders(p, r) = {g}
             PROVE  p.groups[g].val[i] = kept'[r]
  BY DEF Follows
<1>1. /\ {p.groups[h].name : h \in Groups!Holders(p, r)} = {pr.groups[h].name : h \in Groups!Holders(pr, r)}
      /\ kept'[r] = kept[r]
  BY DEF Groups!Forget, Groups!None, None
<1>2. {pr.groups[h].name : h \in Groups!Holders(pr, r)} = {p.groups[g].name}
  BY <1>1
<1>3. HasEntry(pr, p.groups[g].name, r)
  <2>1. PICK h \in Groups!Holders(pr, r) : pr.groups[h].name = p.groups[g].name
    BY <1>2
  <2> QED  BY <2>1 DEF HasEntry, Groups!Holders
<1>4. PICK h \in Groups!Ids(pr) : \E j \in Groups!At(pr.groups[h], r) :
         pr.groups[h].name = p.groups[g].name /\ pr.groups[h].val[j] = p.groups[g].val[i]
  BY <1>3 DEF Stems
<1>5. PICK j \in Groups!At(pr.groups[h], r) :
         pr.groups[h].name = p.groups[g].name /\ pr.groups[h].val[j] = p.groups[g].val[i]
  BY <1>4
<1>6. h \in Groups!Holders(pr, r)
  BY <1>5 DEF Groups!Holders
<1>7. \A k \in Groups!Holders(pr, r) : k = h
  <2> TAKE k \in Groups!Holders(pr, r)
  <2>1. pr.groups[k].name = p.groups[g].name /\ k \in Groups!Ids(pr)
    BY <1>2 DEF Groups!Holders
  <2> QED  BY <1>5, <2>1 DEF WellFormed, Named
<1>8. Groups!Holders(pr, r) = {h}
  BY <1>6, <1>7
<1>9. pr.groups[h].val[j] = kept[r]
  BY <1>1, <1>4, <1>5, <1>8 DEF Follows
<1> QED  BY <1>1, <1>5, <1>9

LEMMA StemsSame ==
  ASSUME NEW p, NEW q, q.groups = p.groups
  PROVE  Stems(q, p)
BY DEF Stems, Groups!Ids, Groups!At

\* What becomes of a created group's entries becomes of the groups before it.
LEMMA StemsCreated ==
  ASSUME NEW p, NEW name \in Names, WellFormed(p)
  PROVE  /\ WellFormed(Groups!Created(p, name)) /\ Groups!Has(Groups!Created(p, name), name)
         /\ \A q : Stems(q, Groups!Created(p, name)) => Stems(q, p)
<1> DEFINE c == Groups!Created(p, name)
           new == [name |-> name, addr |-> <<>>, val |-> <<>>]
<1>1. CASE Groups!Has(p, name)
  BY <1>1 DEF Groups!Created
<1>2. CASE ~Groups!Has(p, name)
  <2>1. c = [p EXCEPT !.groups = Append(p.groups, new)]
    BY <1>2 DEF Groups!Created
  <2>2. new \in GroupT /\ new.name = name /\ new.addr = <<>> /\ new.val = <<>>
    BY DEF GroupT
  <2> HIDE DEF new
  <2>3. /\ Append(p.groups, new) \in Seq(GroupT) /\ Len(Append(p.groups, new)) = Len(p.groups) + 1
        /\ \A g \in 1..Len(p.groups) : Append(p.groups, new)[g] = p.groups[g]
        /\ Append(p.groups, new)[Len(p.groups) + 1] = new
    BY <2>2, GroupFacts, AppendProperties
  <2>4. c \in GroupList /\ c.groups = Append(p.groups, new)
    BY <2>1, <2>3 DEF GroupList, WellFormed
  <2> HIDE DEF c
  <2>5. /\ Groups!Ids(p) = 1..Len(p.groups) /\ Groups!Ids(c) = 1..Len(p.groups) + 1
        /\ \A g \in Groups!Ids(p) : c.groups[g] = p.groups[g]
        /\ c.groups[Len(p.groups) + 1] = new
    BY <2>3, <2>4, GroupFacts DEF Groups!Ids
  <2>6. Paired(new)
    BY <2>2 DEF Paired
  <2>7. \A g \in Groups!Ids(c) : g \in Groups!Ids(p) \/ g = Len(p.groups) + 1
    BY <2>5, GroupFacts
  <2>8. Named(c)
    BY <1>2, <2>2, <2>5, <2>7 DEF Named, WellFormed, Groups!Has
  <2>9. WellFormed(c)
    BY <2>4, <2>5, <2>6, <2>7, <2>8, GroupFacts DEF WellFormed
  <2>10. Groups!Has(c, name)
    BY <2>2, <2>5, GroupFacts DEF Groups!Has
  <2>11. \A r : Groups!At(new, r) = {}
    BY <2>2 DEF Groups!At
  <2>12. ASSUME NEW q, Stems(q, c)  PROVE Stems(q, p)
    <3> SUFFICES ASSUME NEW g \in Groups!Ids(q), NEW r \in Regs, NEW i \in Groups!At(q.groups[g], r),
                        HasEntry(p, q.groups[g].name, r)
                 PROVE  \E h \in Groups!Ids(p) : \E j \in Groups!At(p.groups[h], r) :
                          p.groups[h].name = q.groups[g].name /\ p.groups[h].val[j] = q.groups[g].val[i]
      BY DEF Stems
    <3>1. Groups!Ids(p) \subseteq Groups!Ids(c)
      BY <2>5, GroupFacts
    <3>2. HasEntry(c, q.groups[g].name, r)
      BY <2>5, <3>1 DEF HasEntry
    <3>3. PICK h \in Groups!Ids(c) : \E j \in Groups!At(c.groups[h], r) :
                          c.groups[h].name = q.groups[g].name /\ c.groups[h].val[j] = q.groups[g].val[i]
      BY <2>12, <3>2 DEF Stems
    <3>4. h \in Groups!Ids(p)
      BY <2>5, <2>7, <2>11, <3>3
    <3> QED  BY <2>5, <3>3, <3>4
  <2> QED  BY <2>9, <2>10, <2>12 DEF c
<1> QED  BY <1>1, <1>2


LEMMA Found ==
  ASSUME NEW p, NEW name, Groups!Has(p, name)
  PROVE  Groups!Find(p, name) \in Groups!Ids(p) /\ p.groups[Groups!Find(p, name)].name = name
BY DEF Groups!Has, Groups!Find

\* The new entries of a group, as the operators write them.
LEMMA EntriesReplaced ==
  ASSUME NEW p \in GroupList, NEW g \in 1..Len(p.groups), NEW group \in GroupT
  PROVE  LET q == [p EXCEPT !.groups[g] = group]
         IN  /\ q \in GroupList /\ Len(q.groups) = Len(p.groups)
             /\ \A h \in 1..Len(p.groups) : q.groups[h] = IF h = g THEN group ELSE p.groups[h]
<1>1. p.groups \in Seq(GroupT)
  BY DEF GroupList
<1>2. /\ [p.groups EXCEPT ![g] = group] \in Seq(GroupT)
      /\ Len([p.groups EXCEPT ![g] = group]) = Len(p.groups)
      /\ \A h \in 1..Len(p.groups) :
           [p.groups EXCEPT ![g] = group][h] = IF h = g THEN group ELSE p.groups[h]
  BY <1>1, ExceptSeq
<1>3. \A s \in Seq(GroupT) : [p EXCEPT !.groups = s] \in GroupList /\ [p EXCEPT !.groups = s].groups = s
  BY DEF GroupList
<1>4. [p EXCEPT !.groups[g] = group] = [p EXCEPT !.groups = [p.groups EXCEPT ![g] = group]]
  BY DEF GroupList
<1> QED
  BY <1>2, <1>3, <1>4

\* One group's entries replaced.
LEMMA GroupReplaced ==
  ASSUME NEW p, WellFormed(p), NEW q, q \in GroupList, NEW g \in Groups!Ids(p), NEW group,
         Len(q.groups) = Len(p.groups),
         \A h \in 1..Len(p.groups) : q.groups[h] = IF h = g THEN group ELSE p.groups[h],
         group.name = p.groups[g].name, Paired(group)
  PROVE  /\ WellFormed(q) /\ Groups!Ids(q) = Groups!Ids(p)
         /\ \A h \in Groups!Ids(q) : q.groups[h] = IF h = g THEN group ELSE p.groups[h]
<1>1. /\ p.groups \in Seq(GroupT) /\ g \in 1..Len(p.groups) /\ Groups!Ids(p) = 1..Len(p.groups)
      /\ Len(p.groups) \in Nat
  BY GroupFacts
<1>3. Groups!Ids(q) = Groups!Ids(p)
  BY <1>1 DEF Groups!Ids
<1>4. \A h \in Groups!Ids(q) : q.groups[h].name = p.groups[h].name
  BY <1>1, <1>3
<1>5. Named(q)
  BY <1>3, <1>4 DEF Named, WellFormed
<1>6. \A h \in Groups!Ids(q) : Paired(q.groups[h])
  BY <1>1, <1>3 DEF WellFormed
<1> QED  BY <1>1, <1>3, <1>5, <1>6 DEF WellFormed

\* ... by entries that were in it or are new to it.
LEMMA ReplacedStems ==
  ASSUME NEW p, NEW q, NEW g \in Groups!Ids(p), Groups!Ids(q) = Groups!Ids(p),
         \A h \in Groups!Ids(q) : h # g => q.groups[h] = p.groups[h],
         q.groups[g].name = p.groups[g].name, Named(p),
         \A r \in Regs : \A i \in Groups!At(q.groups[g], r) :
           \/ Groups!At(p.groups[g], r) = {}
           \/ \E j \in Groups!At(p.groups[g], r) : p.groups[g].val[j] = q.groups[g].val[i]
  PROVE  Stems(q, p)
<1> SUFFICES ASSUME NEW h \in Groups!Ids(q), NEW r \in Regs, NEW i \in Groups!At(q.groups[h], r),
                    HasEntry(p, q.groups[h].name, r)
             PROVE  \E k \in Groups!Ids(p) : \E j \in Groups!At(p.groups[k], r) :
                      p.groups[k].name = q.groups[h].name /\ p.groups[k].val[j] = q.groups[h].val[i]
  BY DEF Stems
<1>1. CASE h # g
  BY <1>1
<1>2. CASE h = g
  <2>1. PICK k \in Groups!Ids(p) : p.groups[k].name = q.groups[g].name /\ Groups!At(p.groups[k], r) # {}
    BY <1>2 DEF HasEntry
  <2>2. k = g
    BY <2>1 DEF Named
  <2> QED  BY <1>2, <2>1, <2>2
<1> QED  BY <1>1, <1>2

\* A group with the entries a and v instead of its own.
With(p, g, a, v) == [p EXCEPT !.groups[g] = [name |-> p.groups[g].name, addr |-> a, val |-> v]]

LEMMA EntriesStem ==
  ASSUME NEW p, WellFormed(p), NEW g \in Groups!Ids(p), NEW a \in Seq(Regs), NEW v \in Seq(Values),
         Len(v) = Len(a), \A i, j \in 1..Len(a) : a[i] = a[j] => i = j
  PROVE  /\ WellFormed(With(p, g, a, v)) /\ Groups!Ids(With(p, g, a, v)) = Groups!Ids(p)
         /\ \A h \in Groups!Ids(p) \ {g} : With(p, g, a, v).groups[h] = p.groups[h]
         /\ With(p, g, a, v).groups[g].name = p.groups[g].name
         /\ With(p, g, a, v).groups[g].addr = a /\ With(p, g, a, v).groups[g].val = v
         /\ (\A i \in 1..Len(a) :
               \/ \A j \in 1..Len(p.groups[g].addr) : p.groups[g].addr[j] # a[i]
               \/ \E j \in 1..Len(p.groups[g].addr) :
                    p.groups[g].addr[j] = a[i] /\ p.groups[g].val[j] = v[i])
            => Stems(With(p, g, a, v), p)
<1> DEFINE group == [name |-> p.groups[g].name, addr |-> a, val |-> v]
           q == With(p, g, a, v)
<1>1. g \in 1..Len(p.groups) /\ p.groups[g].name \in Names
  BY GroupFacts
<1>2. group \in GroupT /\ group.name = p.groups[g].name /\ group.addr = a /\ group.val = v
  BY <1>1 DEF GroupT
<1>3. q = [p EXCEPT !.groups[g] = group]
  BY DEF With
<1> HIDE DEF group, q
<1>4. /\ q \in GroupList /\ Len(q.groups) = Len(p.groups)
      /\ \A h \in 1..Len(p.groups) : q.groups[h] = IF h = g THEN group ELSE p.groups[h]
  BY <1>1, <1>2, <1>3, EntriesReplaced DEF WellFormed
<1>5. Paired(group)
  BY <1>2 DEF Paired
<1>6. /\ WellFormed(q) /\ Groups!Ids(q) = Groups!Ids(p)
      /\ \A h \in Groups!Ids(q) : q.groups[h] = IF h = g THEN group ELSE p.groups[h]
  BY <1>2, <1>4, <1>5, GroupReplaced
<1>7. q.groups[g] = group
  BY <1>6
<1>8. ASSUME \A i \in 1..Len(a) :
               \/ \A j \in 1..Len(p.groups[g].addr) : p.groups[g].addr[j] # a[i]
               \/ \E j \in 1..Len(p.groups[g].addr) :
                    p.groups[g].addr[j] = a[i] /\ p.groups[g].val[j] = v[i]
      PROVE  Stems(q, p)
  <2>1. ASSUME NEW r \in Regs, NEW i \in Groups!At(q.groups[g], r)
        PROVE  \/ Groups!At(p.groups[g], r) = {}
               \/ \E j \in Groups!At(p.groups[g], r) : p.groups[g].val[j] = q.groups[g].val[i]
    <3>1. i \in 1..Len(a) /\ a[i] = r /\ q.groups[g].val[i] = v[i]
      BY <1>2, <1>7, <2>1 DEF Groups!At
    <3>2. CASE \A j \in 1..Len(p.groups[g].addr) : p.groups[g].addr[j] # a[i]
      BY <3>1, <3>2 DEF Groups!At
    <3>3. ASSUME NEW j \in 1..Len(p.groups[g].addr), p.groups[g].addr[j] = a[i], p.groups[g].val[j] = v[i]
          PROVE  \E k \in Groups!At(p.groups[g], r) : p.groups[g].val[k] = q.groups[g].val[i]
      BY <3>1, <3>3 DEF Groups!At
    <3> QED  BY <1>8, <3>1, <3>2, <3>3
  <2>2. \A h \in Groups!Ids(q) : h # g => q.groups[h] = p.groups[h]
    BY <1>6
  <2>3. q.groups[g].name = p.groups[g].name /\ Named(p)
    BY <1>2, <1>7 DEF WellFormed
  <2> QED  BY <1>6, <2>1, <2>2, <2>3, ReplacedStems
<1> QED  BY <1>2, <1>6, <1>7, <1>8 DEF q

LEMMA AddedStems ==
  ASSUME NEW p, WellFormed(p), NEW name \in Names, NEW r \in Regs, Groups!Has(p, name)
  PROVE  WellFormed(Groups!Added(p, name, r)) /\ Stems(Groups!Added(p, name, r), p)
<1> DEFINE g == Groups!Find(p, name)
           n == Len(p.groups[g].addr)
           a == Append(p.groups[g].addr, r)
           v == Append(p.groups[g].val, 0)
<1>1. g \in Groups!Ids(p)
  BY Found
<1>2. CASE Groups!At(p.groups[g], r) # {} \/ n = MaxRegs
  <2>1. Groups!Added(p, name, r) = p
    BY <1>2 DEF Groups!Added
  <2> QED  BY <2>1, StemsSame
<1>3. CASE ~(Groups!At(p.groups[g], r) # {} \/ n = MaxRegs)
  <2>1. Groups!Added(p, name, r) = With(p, g, a, v)
    BY <1>3 DEF Groups!Added, With
  <2>2. /\ p.groups[g].addr \in Seq(Regs) /\ p.groups[g].val \in Seq(Values)
        /\ Paired(p.groups[g]) /\ n \in Nat /\ 0 \in Values
    BY <1>1, GroupFacts, DeviceAssumption DEF Groups!PersistAssumption
  <2>3. /\ a \in Seq(Regs) /\ Len(a) = n + 1 /\ a[n + 1] = r
        /\ \A i \in 1..n : a[i] = p.groups[g].addr[i]
    BY <2>2, AppendProperties
  <2>4. /\ v \in Seq(Values) /\ Len(v) = n + 1
        /\ \A i \in 1..n : v[i] = p.groups[g].val[i]
    BY <2>2, AppendProperties DEF Paired
  <2>5. \A i \in 1..n : p.groups[g].addr[i] # r
    BY <1>3 DEF Groups!At
  <2>6. \A i, j \in 1..n : p.groups[g].addr[i] = p.groups[g].addr[j] => i = j
    BY <2>2 DEF Paired
  <2>7. \A i \in 1..Len(a) : i = n + 1 \/ i \in 1..n
    BY <2>2, <2>3
  <2> HIDE DEF a, v, g, n
  <2>8. \A i, j \in 1..Len(a) : a[i] = a[j] => i = j
    BY <2>3, <2>5, <2>6, <2>7
  <2>9. \A i \in 1..Len(a) :
               \/ \A j \in 1..n : p.groups[g].addr[j] # a[i]
               \/ \E j \in 1..n : p.groups[g].addr[j] = a[i] /\ p.groups[g].val[j] = v[i]
    BY <2>3, <2>4, <2>5, <2>7
  <2>10. WellFormed(With(p, g, a, v)) /\ Stems(With(p, g, a, v), p)
    BY <1>1, <2>3, <2>4, <2>8, <2>9, EntriesStem DEF n
  <2> QED  BY <2>1, <2>10
<1> QED  BY <1>2, <1>3

LEMMA RemovedStems ==
  ASSUME NEW p, WellFormed(p), NEW name \in Names, NEW r \in Regs, Groups!Has(p, name)
  PROVE  WellFormed(Groups!Removed(p, name, r)) /\ Stems(Groups!Removed(p, name, r), p)
<1> DEFINE g == Groups!Find(p, name)
           n == Len(p.groups[g].addr)
           i == CHOOSE i \in Groups!At(p.groups[g], r) : TRUE
           a == Groups!RemoveAt(p.groups[g].addr, i)
           v == Groups!RemoveAt(p.groups[g].val, i)
<1>1. g \in Groups!Ids(p)
  BY Found
<1>2. CASE Groups!At(p.groups[g], r) = {}
  <2>1. Groups!Removed(p, name, r) = p
    BY <1>2 DEF Groups!Removed
  <2> QED  BY <2>1, StemsSame
<1>3. CASE Groups!At(p.groups[g], r) # {}
  <2>1. Groups!Removed(p, name, r) = With(p, g, a, v)
    BY <1>3 DEF Groups!Removed, With
  <2>2. /\ p.groups[g].addr \in Seq(Regs) /\ p.groups[g].val \in Seq(Values)
        /\ Paired(p.groups[g]) /\ n \in Nat
    BY <1>1, GroupFacts
  <2>3. i \in 1..n /\ Len(p.groups[g].val) = n
    <3>1. i \in Groups!At(p.groups[g], r)
      BY <1>3
    <3> QED  BY <2>2, <3>1 DEF Groups!At, Paired
  <2> HIDE DEF i
  <2>4. /\ a \in Seq(Regs) /\ Len(a) = n - 1
        /\ \A k \in 1..n - 1 : a[k] = IF k < i THEN p.groups[g].addr[k] ELSE p.groups[g].addr[k + 1]
    BY <2>2, <2>3, Removed
  <2>5. /\ v \in Seq(Values) /\ Len(v) = n - 1
        /\ \A k \in 1..n - 1 : v[k] = IF k < i THEN p.groups[g].val[k] ELSE p.groups[g].val[k + 1]
    <3>1. /\ v \in Seq(Values) /\ Len(v) = Len(p.groups[g].val) - 1
          /\ \A k \in 1..Len(p.groups[g].val) - 1 :
               v[k] = IF k < i THEN p.groups[g].val[k] ELSE p.groups[g].val[k + 1]
      BY <2>2, <2>3, Removed
    <3> QED  BY <2>3, <3>1
  <2>6. \A k, l \in 1..n : p.groups[g].addr[k] = p.groups[g].addr[l] => k = l
    BY <2>2 DEF Paired
  <2> HIDE DEF a, v, g, n
  <2> DEFINE old(k) == IF k < i THEN k ELSE k + 1
  <2>7. \A k \in 1..Len(a) : /\ old(k) \in 1..n
                             /\ a[k] = p.groups[g].addr[old(k)] /\ v[k] = p.groups[g].val[old(k)]
    <3> TAKE k \in 1..Len(a)
    <3>1. k \in 1..n - 1 /\ k \in 1..n /\ k + 1 \in 1..n
      BY <2>2, <2>4
    <3>2. CASE k < i
      BY <2>4, <2>5, <3>1, <3>2
    <3>3. CASE ~(k < i)
      BY <2>4, <2>5, <3>1, <3>3
    <3> QED  BY <3>2, <3>3
  <2>8. \A k, l \in 1..Len(a) : old(k) = old(l) => k = l
    BY <2>2, <2>3, <2>4
  <2> HIDE DEF old
  <2>9. \A k, l \in 1..Len(a) : a[k] = a[l] => k = l
    BY <2>6, <2>7, <2>8
  <2>10. \A k \in 1..Len(a) :
               \/ \A j \in 1..n : p.groups[g].addr[j] # a[k]
               \/ \E j \in 1..n : p.groups[g].addr[j] = a[k] /\ p.groups[g].val[j] = v[k]
    BY <2>7
  <2>11. Len(v) = Len(a)
    BY <2>4, <2>5
  <2>12. WellFormed(With(p, g, a, v)) /\ Stems(With(p, g, a, v), p)
    <3>1. \A k \in 1..Len(a) :
               \/ \A j \in 1..Len(p.groups[g].addr) : p.groups[g].addr[j] # a[k]
               \/ \E j \in 1..Len(p.groups[g].addr) :
                    p.groups[g].addr[j] = a[k] /\ p.groups[g].val[j] = v[k]
      BY <2>10 DEF n
    <3>2. a \in Seq(Regs) /\ v \in Seq(Values)
      BY <2>4, <2>5
    <3> QED  BY ONLY <1>1, WellFormed(p), <2>9, <2>11, <3>1, <3>2, EntriesStem
  <2> QED  BY <2>1, <2>12
<1> QED  BY <1>2, <1>3

LEMMA DeletedStems ==
  ASSUME NEW p, WellFormed(p), NEW name \in Names, Groups!Has(p, name)
  PROVE  WellFormed(Groups!Deleted(p, name)) /\ Stems(Groups!Deleted(p, name), p)
<1> DEFINE g == Groups!Find(p, name)
           n == Len(p.groups)
           s == Groups!RemoveAt(p.groups, g)
           q == Groups!Deleted(p, name)
           old(k) == IF k < g THEN k ELSE k + 1
<1>1. p.groups \in Seq(GroupT) /\ n \in Nat /\ Groups!Ids(p) = 1..n /\ g \in 1..n
  BY Found, GroupFacts
<1>2. /\ s \in Seq(GroupT) /\ Len(s) = n - 1
      /\ \A k \in 1..n - 1 : s[k] = IF k < g THEN p.groups[k] ELSE p.groups[k + 1]
  BY <1>1, Removed
<1>3. q = [p EXCEPT !.groups = s]
  BY DEF Groups!Deleted
<1> HIDE DEF s, q, g
<1>4. q \in GroupList /\ q.groups = s
  BY <1>2, <1>3 DEF GroupList, WellFormed
<1>5. Groups!Ids(q) = 1..n - 1
  BY <1>2, <1>4 DEF Groups!Ids
<1>6. \A k \in Groups!Ids(q) : old(k) \in Groups!Ids(p) /\ q.groups[k] = p.groups[old(k)]
  BY <1>1, <1>2, <1>4, <1>5
<1>7. \A k, l \in Groups!Ids(q) : old(k) = old(l) => k = l
  BY <1>1, <1>5
<1> HIDE DEF old
<1>8. WellFormed(q)
  BY <1>4, <1>6, <1>7 DEF WellFormed, Named
<1>9. Stems(q, p)
  BY <1>6 DEF Stems
<1> QED  BY <1>8, <1>9 DEF q


\* What depends on the groups alone.
LEMMA SameGroups ==
  ASSUME NEW p, WellFormed(p), NEW q \in GroupList, q.groups = p.groups
  PROVE  /\ WellFormed(q) /\ \A x : Stems(p, x) => Stems(q, x)
         /\ \A k : Follows(p, k) => Follows(q, k)
<1>1. Groups!Ids(q) = Groups!Ids(p)
  BY DEF Groups!Ids
<1>2. \A r : Groups!Holders(q, r) = Groups!Holders(p, r)
  BY <1>1 DEF Groups!Holders
<1>3. WellFormed(q)
  BY <1>1 DEF WellFormed, Named
<1>4. \A x : Stems(p, x) => Stems(q, x)
  BY <1>1 DEF Stems
<1>5. \A k : Follows(p, k) => Follows(q, k)
  BY <1>1, <1>2 DEF Follows
<1> QED  BY <1>3, <1>4, <1>5

\* The flags and the list beside the groups.
LEMMA Flags ==
  ASSUME NEW p, WellFormed(p)
  PROVE  /\ \A on \in BOOLEAN :
              /\ [p EXCEPT !.enabled = on] \in GroupList /\ [p EXCEPT !.enabled = on].groups = p.groups
              /\ [p EXCEPT !.auto = on] \in GroupList /\ [p EXCEPT !.auto = on].groups = p.groups
         /\ \A s \in Seq(Nat) : [p EXCEPT !.ids = s] \in GroupList /\ [p EXCEPT !.ids = s].groups = p.groups
<1>1. p \in [enabled : BOOLEAN, auto : BOOLEAN, ids : Seq(Nat), groups : Seq(GroupT)]
  BY DEF WellFormed, GroupList
<1>2. ASSUME NEW on \in BOOLEAN
      PROVE  /\ [p EXCEPT !.enabled = on] \in GroupList /\ [p EXCEPT !.enabled = on].groups = p.groups
             /\ [p EXCEPT !.auto = on] \in GroupList /\ [p EXCEPT !.auto = on].groups = p.groups
  BY <1>1, <1>2 DEF GroupList
<1>3. ASSUME NEW s \in Seq(Nat)
      PROVE  [p EXCEPT !.ids = s] \in GroupList /\ [p EXCEPT !.ids = s].groups = p.groups
  BY <1>1, <1>3 DEF GroupList
<1> QED  BY <1>2, <1>3

LEMMA EmptyFormed ==
  /\ WellFormed(Groups!Empty) /\ \A x : Stems(Groups!Empty, x)
  /\ \A k : Follows(Groups!Empty, k)
<1>1. Groups!Empty \in GroupList /\ Groups!Empty.groups = <<>>
  BY DEF Groups!Empty, GroupList
<1>2. Groups!Ids(Groups!Empty) = {}
  BY <1>1 DEF Groups!Ids
<1>3. WellFormed(Groups!Empty)
  BY <1>1, <1>2 DEF WellFormed, Named
<1>4. \A x : Stems(Groups!Empty, x)
  BY <1>2 DEF Stems
<1>5. \A k : Follows(Groups!Empty, k)
  BY <1>2 DEF Follows
<1> QED  BY <1>3, <1>4, <1>5

\* The registers of a restore.
LEMMA RestoredTyped ==
  ASSUME NEW p, WellFormed(p), NEW gs, NEW values \in [Regs -> Values]
  PROVE  Groups!Restored(p, gs, values) \in [Regs -> Values]
<1> SUFFICES ASSUME NEW r \in Regs  PROVE Groups!Restored(p, gs, values)[r] \in Values
  BY DEF Groups!Restored
<1> DEFINE H == {g \in gs \cap Groups!Holders(p, r) : \A h \in gs \cap Groups!Holders(p, r) : h <= g}
           g == CHOOSE g \in H : TRUE
           i == CHOOSE i \in Groups!At(p.groups[g], r) : TRUE
<1>1. Groups!Restored(p, gs, values)[r] = IF H = {} THEN values[r] ELSE p.groups[g].val[i]
  BY DEF Groups!Restored
<1>2. ASSUME H # {}  PROVE p.groups[g].val[i] \in Values
  <2>1. g \in H
    BY <1>2
  <2> HIDE DEF g
  <2>2. g \in Groups!Ids(p) /\ Groups!At(p.groups[g], r) # {}
    BY <2>1 DEF Groups!Holders
  <2>3. i \in Groups!At(p.groups[g], r)
    BY <2>2
  <2> HIDE DEF i
  <2>4. /\ i \in 1..Len(p.groups[g].addr) /\ Paired(p.groups[g])
        /\ p.groups[g].val \in Seq(Values)
    BY <2>2, <2>3, GroupFacts DEF Groups!At
  <2>5. i \in 1..Len(p.groups[g].val)
    BY <2>4 DEF Paired
  <2> QED  BY <2>4, <2>5, ElementOfSeq
<1> HIDE DEF H, g, i
<1>3. values[r] \in Values
  OBVIOUS
<1> QED  BY <1>1, <1>2, <1>3

LEMMA RestoredOne ==
  ASSUME NEW p, WellFormed(p), NEW gs, NEW values, NEW r \in Regs, NEW g,
         Groups!Holders(p, r) = {g}, NEW k, Follows(p, k), k[r] # None
  PROVE  Groups!Restored(p, gs, values)[r] = IF g \in gs THEN k[r] ELSE values[r]
<1> DEFINE H == {h \in gs \cap Groups!Holders(p, r) : \A l \in gs \cap Groups!Holders(p, r) : l <= h}
           best == CHOOSE h \in H : TRUE
<1>1. Groups!Restored(p, gs, values)[r] =
        IF H = {} THEN values[r]
        ELSE p.groups[best].val[CHOOSE i \in Groups!At(p.groups[best], r) : TRUE]
  BY DEF Groups!Restored
<1>2. CASE g \notin gs
  <2>1. H = {}
    BY <1>2
  <2> QED  BY <1>1, <1>2, <2>1
<1>3. CASE g \in gs
  <2>1. g \in Groups!Ids(p) /\ Groups!At(p.groups[g], r) # {}
    BY DEF Groups!Holders
  <2>2. g <= g
    BY <2>1, GroupFacts
  <2>3. H = {g}
    BY <1>3, <2>2
  <2>4. best = g
    BY <2>3
  <2> HIDE DEF H, best
  <2>5. \A i \in Groups!At(p.groups[g], r) : p.groups[g].val[i] = k[r]
    BY <2>1 DEF Follows
  <2> QED  BY <1>1, <1>3, <2>1, <2>3, <2>4, <2>5
<1> QED  BY <1>2, <1>3

-----------------------------------------------------------------------------
LEMMA EditKeeps ==
  ASSUME GroupsInv, NEW t \in Tasks, NEW p, Groups!Edit(t, p), WellFormed(p), Stems(p, pr)
  PROVE  GroupsInv'
<1>1. pr' = p /\ Groups!Forget(p) /\ reg' = reg /\ job' = job /\ flash' = flash /\ keptFlash' = keptFlash
  BY DEF Groups!Edit
<1>2. Follows(p, kept')
  BY <1>1, EditFollows DEF GroupsInv
<1>3. DOMAIN kept' = Regs
  BY <1>1 DEF Groups!Forget
<1>4. WellFormed(pr)' /\ WellFormed(flash)' /\ Follows(pr, kept)' /\ Follows(flash, keptFlash)'
  BY <1>1, <1>2 DEF GroupsInv, WellFormed, Named, Follows
<1> QED  BY <1>1, <1>3, <1>4 DEF GroupsInv


\* Every call that edits the groups leaves entries that stem from them.
LEMMA CallsKeep ==
  ASSUME GroupsInv, NEW t \in Tasks, NEW name \in Names, NEW r \in Regs
  PROVE  Groups!GroupAdd(t, name, r) \/ Groups!GroupPostRemove(t, name, r)
           \/ Groups!GroupRemove(t, name, r)
         => GroupsInv'
<1> DEFINE c == Groups!Created(pr, name)
           added == Groups!Added(c, name, r)
           removed == Groups!Removed(c, name, r)
<1>0. WellFormed(pr)
  BY DEF GroupsInv
<1>1. WellFormed(c) /\ Groups!Has(c, name) /\ \A q : Stems(q, c) => Stems(q, pr)
  BY <1>0, StemsCreated
<1> HIDE DEF c
<1>2. WellFormed(added) /\ Stems(added, pr)
  BY <1>1, AddedStems
<1>3. WellFormed(removed) /\ Stems(removed, pr)
  BY <1>1, RemovedStems
<1> HIDE DEF added, removed
<1>4. CASE Groups!GroupAdd(t, name, r)
  <2> DEFINE q == [added EXCEPT !.enabled = TRUE]
  <2>1. q \in GroupList /\ q.groups = added.groups
    BY <1>2, Flags
  <2>2. Groups!Edit(t, q)
    BY <1>4 DEF Groups!GroupAdd, added, c
  <2> HIDE DEF q
  <2> QED  BY <1>2, <2>1, <2>2, SameGroups, EditKeeps
<1>5. CASE Groups!GroupPostRemove(t, name, r)
  <2> DEFINE q == [removed EXCEPT !.enabled = TRUE]
  <2>1. q \in GroupList /\ q.groups = removed.groups
    BY <1>3, Flags
  <2>2. Groups!Edit(t, q)
    BY <1>5 DEF Groups!GroupPostRemove, removed, c
  <2> HIDE DEF q
  <2> QED  BY <1>3, <2>1, <2>2, SameGroups, EditKeeps
<1>6. CASE Groups!GroupRemove(t, name, r)
  BY <1>0, <1>6, RemovedStems, EditKeeps DEF Groups!GroupRemove
<1> QED  BY <1>4, <1>5, <1>6

LEMMA WholeGroupsKeep ==
  ASSUME GroupsInv, NEW t \in Tasks, NEW name \in Names
  PROVE  Groups!GroupCreate(t, name) \/ Groups!GroupDelete(t, name) => GroupsInv'
<1> DEFINE c == Groups!Created(pr, name)
<1>0. WellFormed(pr)
  BY DEF GroupsInv
<1>1. WellFormed(c) /\ \A q : Stems(q, c) => Stems(q, pr)
  BY <1>0, StemsCreated
<1> HIDE DEF c
<1>2. CASE Groups!GroupCreate(t, name)
  <2>1. Stems(c, c)
    BY StemsSame
  <2>2. Groups!Edit(t, c)
    BY <1>2 DEF Groups!GroupCreate, c
  <2> QED  BY <1>1, <2>1, <2>2, EditKeeps
<1>3. CASE Groups!GroupDelete(t, name)
  BY <1>0, <1>3, DeletedStems, EditKeeps DEF Groups!GroupDelete
<1> QED  BY <1>2, <1>3

\* So do those that change what stands beside them.
LEMMA FlagsKeep ==
  ASSUME GroupsInv, NEW t \in Tasks
  PROVE  /\ \A on \in BOOLEAN : Groups!SetEnabled(t, on) \/ Groups!SetAuto(t, on) => GroupsInv'
         /\ \A i \in 1..MaxGroups : Groups!AutoAdd(t, i) \/ Groups!AutoRemove(t, i) => GroupsInv'
         /\ Groups!ResetAll(t) => GroupsInv'
<1>0. WellFormed(pr) /\ pr.ids \in Seq(Nat)
  BY GroupFacts DEF GroupsInv
<1>1. ASSUME NEW q \in GroupList, q.groups = pr.groups, Groups!Edit(t, q)  PROVE GroupsInv'
  BY <1>0, <1>1, SameGroups, StemsSame, EditKeeps
<1>2. ASSUME NEW on \in BOOLEAN, Groups!SetEnabled(t, on) \/ Groups!SetAuto(t, on)  PROVE GroupsInv'
  <2> DEFINE q == [pr EXCEPT !.enabled = on]
             s == [pr EXCEPT !.auto = on]
  <2>1. q \in GroupList /\ q.groups = pr.groups /\ s \in GroupList /\ s.groups = pr.groups
    BY <1>0, Flags
  <2>2. Groups!Edit(t, q) \/ Groups!Edit(t, s)
    BY <1>2 DEF Groups!SetEnabled, Groups!SetAuto
  <2> HIDE DEF q, s
  <2> QED  BY <1>1, <2>1, <2>2
<1>3. ASSUME NEW i \in 1..MaxGroups, Groups!AutoAdd(t, i) \/ Groups!AutoRemove(t, i)  PROVE GroupsInv'
  <2>1. CASE Groups!AutoAdd(t, i)
    <3> DEFINE ids == Append(pr.ids, i)
               q == [pr EXCEPT !.ids = ids]
    <3>0. i \in Nat
      BY DeviceAssumption DEF Groups!PersistAssumption
    <3>1. ids \in Seq(Nat)
      BY <1>0, <3>0, AppendProperties
    <3>2. q \in GroupList /\ q.groups = pr.groups
      BY <1>0, <3>1, Flags
    <3>3. Groups!Edit(t, q)
      BY <2>1 DEF Groups!AutoAdd
    <3> HIDE DEF q
    <3> QED  BY <1>1, <3>2, <3>3
  <2>2. CASE Groups!AutoRemove(t, i)
    <3> DEFINE ids == Groups!RemoveAt(pr.ids, i)
               q == [pr EXCEPT !.ids = ids]
    <3>1. ids \in Seq(Nat)
      BY <1>0, <2>2, Removed DEF Groups!AutoRemove
    <3>2. q \in GroupList /\ q.groups = pr.groups
      BY <1>0, <3>1, Flags
    <3>3. Groups!Edit(t, q)
      BY <2>2 DEF Groups!AutoRemove
    <3> HIDE DEF q
    <3> QED  BY <1>1, <3>2, <3>3
  <2> QED  BY <1>3, <2>1, <2>2
<1>4. ASSUME Groups!ResetAll(t)  PROVE GroupsInv'
  BY <1>4, EmptyFormed, EditKeeps DEF Groups!ResetAll
<1> QED  BY <1>2, <1>3, <1>4

\* A register that is read into its entry.
LEMMA SaveKeeps ==
  ASSUME GroupsInv, NEW t \in Tasks, Groups!SaveReg(t)
  PROVE  GroupsInv'
<1> DEFINE g == Head(job[t].todo)
           i == job[t].at
           r == pr.groups[g].addr[i]
<1>0. IsJob(job[t]) /\ i \in Nat \ {0} /\ WellFormed(pr) /\ DOMAIN job = Tasks
  BY DEF GroupsInv, IsJob
<1>1. flash' = flash /\ keptFlash' = keptFlash /\ reg' = reg
  BY DEF Groups!SaveReg
<1>2. CASE g \in Groups!Ids(pr) /\ i <= Len(pr.groups[g].addr)
  <2> DEFINE v == [pr.groups[g].val EXCEPT ![i] = reg[r]]
             q == With(pr, g, pr.groups[g].addr, v)
  <2>1. /\ pr' = [pr EXCEPT !.groups[g].val[i] = reg[r]]
        /\ kept' = [kept EXCEPT ![r] = reg[r]]
        /\ job' = [job EXCEPT ![t].at = i + 1]
    BY <1>2 DEF Groups!SaveReg
  <2>2. /\ pr.groups[g].addr \in Seq(Regs) /\ pr.groups[g].val \in Seq(Values) /\ pr.groups[g] \in GroupT
        /\ Paired(pr.groups[g]) /\ Len(pr.groups[g].addr) \in Nat
        /\ Groups!Ids(pr) = 1..Len(pr.groups) /\ Len(pr.groups) \in Nat
    BY <1>0, <1>2, GroupFacts
  <2>3. i \in 1..Len(pr.groups[g].addr) /\ Len(pr.groups[g].val) = Len(pr.groups[g].addr)
    BY <1>0, <1>2, <2>2 DEF Paired
  <2>4. r \in Regs /\ reg[r] \in Values
    BY <2>2, <2>3, ElementOfSeq DEF GroupsInv
  <2>a. g \in Groups!Ids(pr)
    BY <1>2
  <2> HIDE DEF r, i, g
  <2>5. /\ v \in Seq(Values) /\ Len(v) = Len(pr.groups[g].addr)
        /\ \A j \in 1..Len(pr.groups[g].addr) : v[j] = IF j = i THEN reg[r] ELSE pr.groups[g].val[j]
    BY <2>2, <2>3, <2>4, ExceptSeq
  <2>6. [pr.groups[g] EXCEPT !.val = v] = [name |-> pr.groups[g].name, addr |-> pr.groups[g].addr, val |-> v]
    <3> HIDE DEF v
    <3>1. pr.groups[g] = [name |-> pr.groups[g].name, addr |-> pr.groups[g].addr, val |-> pr.groups[g].val]
      BY <2>2 DEF GroupT
    <3>2. \A x, y, z : [[name |-> x, addr |-> y, val |-> z] EXCEPT !.val = v] = [name |-> x, addr |-> y, val |-> v]
      OBVIOUS
    <3> QED  BY <3>1, <3>2
  <2>7. pr' = q
    <3>1. pr.groups \in Seq(GroupT)
      BY <1>0, GroupFacts
    <3>2. pr' = [pr EXCEPT !.groups[g] = [pr.groups[g] EXCEPT !.val = v]]
      BY <2>1
    <3> QED  BY <2>6, <3>2 DEF With
  <2>8. \A j, k \in 1..Len(pr.groups[g].addr) : pr.groups[g].addr[j] = pr.groups[g].addr[k] => j = k
    BY <2>2 DEF Paired
  <2> HIDE DEF v
  <2> DEFINE a == pr.groups[g].addr
  <2>b. /\ WellFormed(pr) /\ g \in Groups!Ids(pr) /\ a \in Seq(Regs) /\ v \in Seq(Values)
        /\ Len(v) = Len(a) /\ \A j, k \in 1..Len(a) : a[j] = a[k] => j = k
    BY <1>0, <2>a, <2>2, <2>5, <2>8
  <2>9. /\ WellFormed(q) /\ Groups!Ids(q) = Groups!Ids(pr)
        /\ \A h \in Groups!Ids(pr) \ {g} : q.groups[h] = pr.groups[h]
        /\ q.groups[g].addr = pr.groups[g].addr /\ q.groups[g].val = v
    <3> HIDE DEF a
    <3>1. /\ WellFormed(With(pr, g, a, v)) /\ Groups!Ids(With(pr, g, a, v)) = Groups!Ids(pr)
          /\ \A h \in Groups!Ids(pr) \ {g} : With(pr, g, a, v).groups[h] = pr.groups[h]
          /\ With(pr, g, a, v).groups[g].addr = a /\ With(pr, g, a, v).groups[g].val = v
      BY ONLY <2>b, EntriesStem
    <3> QED  BY ONLY <3>1 DEF a
  <2> HIDE DEF q
  <2>10. \A h \in Groups!Ids(pr), s \in Regs : Groups!At(q.groups[h], s) = Groups!At(pr.groups[h], s)
    BY <2>9 DEF Groups!At
  <2>11. \A s \in Regs : Groups!Holders(q, s) = Groups!Holders(pr, s)
    BY <2>9, <2>10 DEF Groups!Holders
  <2>12. \A s \in Regs : kept'[s] = IF s = r THEN reg[r] ELSE kept[s]
    BY <2>1, <2>4 DEF GroupsInv
  <2>13. r = pr.groups[g].addr[i]
    BY DEF r
  <2>14. Follows(q, kept')
    <3> SUFFICES ASSUME NEW h \in Groups!Ids(q), NEW s \in Regs, NEW j \in Groups!At(q.groups[h], s),
                        kept'[s] # None, Groups!Holders(q, s) = {h}
                 PROVE  q.groups[h].val[j] = kept'[s]
      BY DEF Follows
    <3>1. /\ h \in Groups!Ids(pr) /\ j \in Groups!At(pr.groups[h], s) /\ Groups!Holders(pr, s) = {h}
          /\ j \in 1..Len(pr.groups[h].addr) /\ pr.groups[h].addr[j] = s
      BY <2>9, <2>10, <2>11 DEF Groups!At
    <3>2. g \in Groups!Ids(pr)
      BY <2>a
    <3>3. CASE s = r
      <4>1. i \in Groups!At(pr.groups[g], r)
        BY <2>3, <2>13 DEF Groups!At
      <4>2. g \in Groups!Holders(pr, r)
        BY <3>2, <4>1 DEF Groups!Holders
      <4>3. h = g
        BY <3>1, <3>3, <4>2
      <4>4. j = i
        BY <2>3, <2>8, <2>13, <3>1, <3>3, <4>3
      <4> QED  BY <2>3, <2>5, <2>9, <2>12, <3>3, <4>3, <4>4
    <3>4. CASE s # r
      <4>1. kept'[s] = kept[s] /\ kept[s] # None
        BY <2>12, <3>4
      <4>2. pr.groups[h].val[j] = kept[s]
        BY <3>1, <4>1 DEF Follows, GroupsInv
      <4>3. CASE h = g
        <5>1. j # i
          BY <2>13, <3>1, <3>4, <4>3
        <5> QED  BY <2>5, <2>9, <3>1, <4>1, <4>2, <4>3, <5>1
      <4>4. CASE h # g
        BY <2>9, <3>1, <4>1, <4>2, <4>4
      <4> QED  BY <4>3, <4>4
    <3> QED  BY <3>3, <3>4
  <2>15. job' = [s \in Tasks |-> job'[s]] /\ \A s \in Tasks : IsJob(job'[s])
    <3>1. job[t] = [todo |-> job[t].todo, at |-> i, busy |-> job[t].busy] /\ i + 1 \in Nat \ {0}
      BY <1>0 DEF IsJob, i
    <3>2. [job[t] EXCEPT !.at = i + 1] = [todo |-> job[t].todo, at |-> i + 1, busy |-> job[t].busy]
      BY <3>1
    <3>3. IsJob([job[t] EXCEPT !.at = i + 1])
      BY <3>1, <3>2 DEF IsJob
    <3>4. \A s \in Tasks : job'[s] = IF s = t THEN [job[t] EXCEPT !.at = i + 1] ELSE job[s]
      BY <1>0, <2>1
    <3>5. job' = [s \in Tasks |-> job'[s]]
      BY <1>0, <2>1
    <3> QED  BY <3>3, <3>4, <3>5 DEF GroupsInv
  <2>16. DOMAIN kept' = Regs
    BY <2>1 DEF GroupsInv
  <2> QED  BY <1>1, <2>7, <2>9, <2>14, <2>15, <2>16 DEF GroupsInv
<1>3. CASE ~(g \in Groups!Ids(pr) /\ i <= Len(pr.groups[g].addr))
  <2> DEFINE tail == Tail(job[t].todo)
             new == [todo |-> tail, at |-> 1, busy |-> job[t].busy]
  <2>1. pr' = pr /\ kept' = kept /\ job' = [job EXCEPT ![t].todo = tail, ![t].at = 1]
    BY <1>3 DEF Groups!SaveReg
  <2>2. job[t] = [todo |-> job[t].todo, at |-> i, busy |-> job[t].busy]
    BY <1>0 DEF IsJob
  <2> HIDE DEF tail
  <2>3. \A s \in Tasks : job'[s] = IF s = t THEN new ELSE job[s]
    <3>1. [job[t] EXCEPT !.todo = tail] = [todo |-> tail, at |-> i, busy |-> job[t].busy]
      BY <2>2
    <3>2. [job[t] EXCEPT !.todo = tail, !.at = 1] = new
      <4> DEFINE one == [job[t] EXCEPT !.todo = tail]
      <4>1. [one EXCEPT !.at = 1] = new
        <5>1. one = [todo |-> tail, at |-> i, busy |-> job[t].busy]
          BY <3>1
        <5> HIDE DEF one
        <5> QED  BY <5>1
      <4>2. [job[t] EXCEPT !.todo = tail, !.at = 1] = [one EXCEPT !.at = 1]
        OBVIOUS
      <4> QED  BY <4>1, <4>2
    <3>3. job' = [job EXCEPT ![t] = [job[t] EXCEPT !.todo = tail, !.at = 1]]
      BY <1>0, <2>1, <2>2
    <3> QED  BY <1>0, <3>2, <3>3
  <2>4. IsJob(new)
    BY DEF IsJob
  <2>5. job' = [s \in Tasks |-> job'[s]]
    BY <1>0, <2>1
  <2>6. \A s \in Tasks : IsJob(job'[s])
    BY <2>3, <2>4 DEF GroupsInv
  <2> QED  BY <1>1, <2>1, <2>5, <2>6 DEF GroupsInv
<1> QED  BY <1>2, <1>3


\* A step of the groups keeps what they rest on.
LEMMA GroupsNext ==
  ASSUME GroupsInv, Groups!Next \/ UNCHANGED groupVars
  PROVE  GroupsInv'
<1>0. WellFormed(pr) /\ WellFormed(flash) /\ reg \in [Regs -> Values] /\ DOMAIN job = Tasks
  BY DEF GroupsInv
<1>a. IsJob(Groups!NoJob)
  BY DEF Groups!NoJob, IsJob
<1>1. ASSUME NEW t \in Tasks, Groups!Call(t)  PROVE GroupsInv'
  <2>1. CASE \E name \in Names :
               \/ \E r \in Regs : \/ Groups!GroupAdd(t, name, r) \/ Groups!GroupRemove(t, name, r)
                                  \/ Groups!GroupPostRemove(t, name, r)
               \/ Groups!GroupCreate(t, name) \/ Groups!GroupDelete(t, name)
    <3>1. PICK name \in Names :
               \/ \E r \in Regs : \/ Groups!GroupAdd(t, name, r) \/ Groups!GroupRemove(t, name, r)
                                  \/ Groups!GroupPostRemove(t, name, r)
               \/ Groups!GroupCreate(t, name) \/ Groups!GroupDelete(t, name)
      BY <2>1
    <3> QED  BY <3>1, CallsKeep, WholeGroupsKeep
  <2>2. /\ \A on \in BOOLEAN : Groups!SetEnabled(t, on) \/ Groups!SetAuto(t, on) => GroupsInv'
        /\ \A i \in 1..MaxGroups : Groups!AutoAdd(t, i) \/ Groups!AutoRemove(t, i) => GroupsInv'
        /\ Groups!ResetAll(t) => GroupsInv'
    BY FlagsKeep
  <2>3. CASE Groups!SaveElsewhere(t)
    <3>1. /\ flash' = pr /\ keptFlash' = kept /\ pr' = pr /\ kept' = kept /\ reg' = reg /\ job' = job
      BY <2>3 DEF Groups!SaveElsewhere, Groups!WriteFlash
    <3> QED  BY <3>1 DEF GroupsInv
  <2>4. ASSUME NEW id \in 0..MaxGroups, Groups!SaveStart(t, id)  PROVE GroupsInv'
    <3>1. /\ pr' = pr /\ kept' = kept /\ reg' = reg /\ flash' = flash /\ keptFlash' = keptFlash
          /\ \A s \in Tasks : s # t => job'[s] = job[s]
          /\ job' = [s \in Tasks |-> job'[s]]
          /\ \E todos : job'[t] = [todo |-> todos, at |-> 1, busy |-> TRUE]
      BY <1>0, <2>4 DEF Groups!SaveStart, Groups!history
    <3>2. IsJob(job'[t])
      BY <3>1 DEF IsJob
    <3>3. \A s \in Tasks : IsJob(job'[s])
      BY <3>1, <3>2 DEF GroupsInv
    <3> QED  BY <3>1, <3>3 DEF GroupsInv
  <2>5. ASSUME NEW id \in 0..MaxGroups, Groups!Restore(t, id)  PROVE GroupsInv'
    <3>1. /\ pr' = pr /\ kept' = kept /\ job' = job /\ flash' = flash /\ keptFlash' = keptFlash
          /\ reg' = Groups!Restored(pr, Groups!Numbered(pr, id), reg)
      BY <2>5 DEF Groups!Restore, Groups!history
    <3>2. reg' \in [Regs -> Values]
      BY <1>0, <3>1, RestoredTyped
    <3> QED  BY <3>1, <3>2 DEF GroupsInv
  <2>6. ASSUME NEW id \in 0..MaxGroups, Groups!Load(t, id)  PROVE GroupsInv'
    <3>1. /\ pr' = flash /\ kept' = keptFlash /\ job' = job /\ flash' = flash /\ keptFlash' = keptFlash
          /\ reg' = Groups!Restored(flash, Groups!Numbered(flash, id), reg)
      BY <2>6 DEF Groups!Load
    <3>2. reg' \in [Regs -> Values]
      BY <1>0, <3>1, RestoredTyped
    <3> QED  BY <3>1, <3>2 DEF GroupsInv
  <2> QED  BY ONLY <1>1, <2>1, <2>2, <2>3, <2>4, <2>5, <2>6, Zenon DEF Groups!Call
<1>2. ASSUME NEW t \in Tasks, Groups!SaveEnd(t)  PROVE GroupsInv'
  <2>1. /\ pr' = pr /\ kept' = kept /\ reg' = reg /\ job' = [job EXCEPT ![t] = Groups!NoJob]
        /\ \/ flash' = pr /\ keptFlash' = kept
           \/ flash' = flash /\ keptFlash' = keptFlash
    BY <1>2 DEF Groups!SaveEnd, Groups!WriteFlash
  <2>2. job' = [s \in Tasks |-> job'[s]] /\ \A s \in Tasks : IsJob(job'[s])
    BY <1>0, <1>a, <2>1 DEF GroupsInv
  <2> QED  BY <2>1, <2>2 DEF GroupsInv
<1>3. ASSUME NEW r \in Regs, NEW v \in Values, Groups!WriteReg(r, v)  PROVE GroupsInv'
  <2>1. /\ pr' = pr /\ kept' = kept /\ job' = job /\ flash' = flash /\ keptFlash' = keptFlash
        /\ reg' = [reg EXCEPT ![r] = v]
    BY <1>3 DEF Groups!WriteReg, Groups!history
  <2>2. reg' \in [Regs -> Values]
    BY <1>0, <2>1
  <2> QED  BY <2>1, <2>2 DEF GroupsInv
<1>4. CASE Groups!Boot
  <2>1. /\ pr' = flash /\ kept' = keptFlash /\ flash' = flash /\ keptFlash' = keptFlash
        /\ reg' = Groups!Restored(flash, Groups!AutoLoaded(flash),
                                  Groups!Restored(flash, Groups!Applied(flash), Groups!Zeros))
        /\ job' = [s \in Tasks |-> Groups!NoJob]
    BY <1>4 DEF Groups!Boot
  <2>2. Groups!Zeros \in [Regs -> Values]
    BY DeviceAssumption DEF Groups!Zeros, Groups!PersistAssumption
  <2>3. reg' \in [Regs -> Values]
    BY <1>0, <2>1, <2>2, RestoredTyped
  <2>4. job' = [s \in Tasks |-> job'[s]] /\ \A s \in Tasks : IsJob(job'[s])
    BY <1>a, <2>1
  <2> QED  BY <2>1, <2>3, <2>4 DEF GroupsInv
<1>5. CASE UNCHANGED groupVars
  BY <1>5 DEF groupVars, GroupsInv
<1>6. ASSUME NEW t \in Tasks, Groups!SaveReg(t)  PROVE GroupsInv'
  BY <1>6, SaveKeeps
<1> QED  BY ONLY <1>1, <1>2, <1>3, <1>4, <1>5, <1>6, Groups!Next \/ UNCHANGED groupVars, Zenon
         DEF Groups!Next

LEMMA GroupsBegin == Init => GroupsInv
<1> SUFFICES ASSUME Init  PROVE GroupsInv  OBVIOUS
<1>1. Groups!Init
  BY DEF Init
<1>2. job = [t \in Tasks |-> job[t]] /\ \A t \in Tasks : IsJob(job[t])
  BY <1>1 DEF Groups!Init, Groups!NoJob, IsJob
<1>3. reg \in [Regs -> Values]
  BY <1>1, DeviceAssumption DEF Groups!Init, Groups!PersistAssumption
<1> QED  BY <1>1, <1>2, <1>3, EmptyFormed DEF Groups!Init, GroupsInv

\* A value that was saved for a register stays beside its address, in RAM and in
\* flash: registers_persist.cpp shifts addresses and values of a group together,
\* and a group is loaded and created again with its own.
THEOREM ValuesFollowTheirRegisters == Spec => []ValuesFollow
<1>1. Init => GroupsInv
  BY GroupsBegin
<1>2. GroupsInv /\ [Next]_vars => GroupsInv'
  BY DeviceSteps, GroupsNext
<1>3. GroupsInv => ValuesFollow
  <2> SUFFICES ASSUME GroupsInv  PROVE ValuesFollow
    OBVIOUS
  <2> QED  BY DEF GroupsInv, Follows, ValuesFollow, Groups!ValuesFollow, Groups!None, None
<1> QED  BY <1>1, <1>2, <1>3, PTL DEF Spec

\* A start brings back what was saved, whichever groups it loads besides.
LEMMA BootRestores ==
  ASSUME GroupsInv, Groups!Boot, flash.enabled, NEW r \in Regs, keptFlash[r] # Groups!None,
         NEW g \in Groups!Ids(flash), Groups!Holders(flash, r) = {g}
  PROVE  reg'[r] = keptFlash[r]
<1> DEFINE applied == Groups!Restored(flash, Groups!Applied(flash), Groups!Zeros)
<1>1. WellFormed(flash) /\ Follows(flash, keptFlash) /\ keptFlash[r] # None
  BY DEF GroupsInv, Groups!None, None
<1>2. reg' = Groups!Restored(flash, Groups!AutoLoaded(flash), applied)
  BY DEF Groups!Boot
<1>3. g \in Groups!Applied(flash)
  BY DEF Groups!Applied
<1>4. applied[r] = keptFlash[r]
  BY <1>1, <1>3, RestoredOne
<1> HIDE DEF applied
<1>5. reg'[r] = IF g \in Groups!AutoLoaded(flash) THEN keptFlash[r] ELSE applied[r]
  BY <1>1, <1>2, RestoredOne
<1> QED  BY <1>4, <1>5

\* After a start a register that is in one group has the value it was last saved
\* with, whatever groups were shifted or edited before (config_apply.cpp,
\* registers_persist.cpp).
THEOREM SavedValuesComeBack == Spec => SavedComesBack
<1>1. Init => GroupsInv
  BY GroupsBegin
<1>2. GroupsInv /\ [Next]_vars => GroupsInv'
  BY DeviceSteps, GroupsNext
<1>3. GroupsInv /\ [Next]_vars =>
        [Groups!Boot /\ flash.enabled =>
           \A r \in Regs : keptFlash[r] # Groups!None
                             /\ (\E g \in Groups!Ids(flash) : Groups!Holders(flash, r) = {g})
                           => reg'[r] = keptFlash[r]]_(Groups!vars)
  BY BootRestores
<1> QED  BY <1>1, <1>2, <1>3, PTL DEF Spec, SavedComesBack, Groups!SavedComesBack


-----------------------------------------------------------------------------
(***************************************************************************)
(* A restore takes the settings, the programs and what the programs'       *)
(* deletion would have taken away, in this order, and nobody calls the     *)
(* device meanwhile.                                                       *)
(***************************************************************************)
Cells == file[1].cells
SettingsTaken ==
  /\ settings = [f \in Setting!Fields |-> settings[f]]
  /\ \A f \in DOMAIN Cells \ Setting!After : settings[f] = Cells[f]
ProgramsTaken == prog = file[1].prog /\ dat = file[1].prog
AllTaken ==
  /\ settings = [f \in Setting!Fields |-> settings[f]]
  /\ \A f \in DOMAIN Cells : settings[f] = Cells[f]

Stages == <<"settings", "programs", "after", "save">>
Programs == <<"programs", "after", "save">>
Afterwards == <<"after", "save">>
Saving == <<"save">>

SettingsInv ==
  /\ todo \in {<<>>, Stages, Programs, Afterwards, Saving}
  /\ file # <<>> => DOMAIN Cells \subseteq Setting!Fields
  /\ todo # <<>> => file # <<>>
  /\ todo = Programs => SettingsTaken
  /\ todo = Afterwards => SettingsTaken /\ ProgramsTaken
  /\ todo = Saving => AllTaken /\ ProgramsTaken

\* Which section is next, and what is left then.
LEMMA Sections ==
  /\ Stages # <<>> /\ Programs # <<>> /\ Afterwards # <<>> /\ Saving # <<>>
  /\ Head(Stages) = "settings" /\ Head(Programs) = "programs"
  /\ Head(Afterwards) = "after" /\ Head(Saving) = "save"
  /\ Tail(Stages) = Programs /\ Tail(Programs) = Afterwards
  /\ Tail(Afterwards) = Saving /\ Tail(Saving) = <<>>
<1>1. Tail(Stages) = Programs
  BY DEF Stages, Programs
<1>2. Tail(Programs) = Afterwards
  BY DEF Programs, Afterwards
<1>3. Tail(Afterwards) = Saving
  BY DEF Afterwards, Saving
<1>4. Tail(Saving) = <<>>
  BY DEF Saving
<1>5. /\ Head(Stages) = "settings" /\ Head(Programs) = "programs"
      /\ Head(Afterwards) = "after" /\ Head(Saving) = "save"
  BY DEF Stages, Programs, Afterwards, Saving
<1>6. Stages # <<>> /\ Programs # <<>> /\ Afterwards # <<>> /\ Saving # <<>>
  BY DEF Stages, Programs, Afterwards, Saving
<1> QED  BY <1>1, <1>2, <1>3, <1>4, <1>5, <1>6

LEMMA SettingsNext ==
  ASSUME SettingsInv, Setting!Next \/ UNCHANGED settingVars
  PROVE  SettingsInv'
<1> USE DEF SettingsInv
<1>a. ASSUME file' = file, settings' = settings, prog' = prog, dat' = dat, todo' = todo
      PROVE  SettingsInv'
  BY <1>a DEF Cells, SettingsTaken, ProgramsTaken, AllTaken
<1>b. ASSUME file' = file, todo' = <<>>  PROVE SettingsInv'
  BY <1>b, Sections DEF Cells
<1>1. CASE Setting!Boot
  BY <1>1, <1>b DEF Setting!Boot
<1>2. CASE Setting!Call /\ UNCHANGED <<file, todo>>
  BY <1>2, <1>b DEF Setting!Call
<1>3. CASE Setting!Damage
  BY <1>3, <1>a DEF Setting!Damage
<1>4. CASE Setting!Backup
  <2>1. todo' = <<>> /\ file' = <<[cells |-> [f \in Setting!Sections(settings) |-> settings[f]],
                                  prog |-> prog, keys |-> keys]>>
    BY <1>4 DEF Setting!Backup, Setting!Call
  <2>2. DOMAIN file'[1].cells = Setting!Sections(settings)
    BY <2>1
  <2>3. DOMAIN file'[1].cells \subseteq Setting!Fields
    BY <2>2 DEF Setting!Sections
  <2> QED  BY <2>1, <2>3, Sections DEF Cells
<1>5. CASE Setting!Restore
  <2>1. todo' = Stages /\ file' = file /\ file # <<>>
    BY <1>5 DEF Setting!Restore, Setting!Steps, Stages
  <2>2. Stages # Programs /\ Stages # Afterwards /\ Stages # Saving
    BY Sections
  <2> QED  BY <2>1, <2>2 DEF Cells
<1>6. CASE Setting!RestoreSettings
  <2>1. /\ file' = file /\ settings' = Setting!Taken(Setting!Fields \ Setting!After)
        /\ Setting!Section("settings")
    BY <1>6 DEF Setting!RestoreSettings
  <2>2. todo = Stages /\ todo' = Programs
    BY <2>1, Sections DEF Setting!Section
  <2>3. SettingsTaken'
    BY <2>1, <2>2, Sections DEF SettingsTaken, Setting!Taken, Cells
  <2> QED  BY <2>1, <2>2, <2>3, Sections DEF Cells
<1>7. CASE Setting!RestorePrograms
  <2>1. /\ file' = file /\ settings' = Setting!Deleted(settings)
        /\ prog' = file[1].prog /\ dat' = prog' /\ Setting!Section("programs")
    BY <1>7 DEF Setting!RestorePrograms
  <2>2. todo = Programs /\ todo' = Afterwards
    BY <2>1, Sections DEF Setting!Section
  <2>3. SettingsTaken
    BY <2>2
  <2>4. /\ settings' = [f \in Setting!Fields |-> settings'[f]]
        /\ \A f \in Setting!Fields : f # "maps" => settings'[f] = settings[f]
    BY <2>1, <2>3 DEF Setting!Deleted, SettingsTaken
  <2>5. SettingsTaken'
    BY <2>1, <2>2, <2>3, <2>4, Sections DEF SettingsTaken, Cells, Setting!After
  <2>6. ProgramsTaken'
    BY <2>1 DEF ProgramsTaken
  <2> QED  BY <2>1, <2>2, <2>5, <2>6, Sections DEF Cells
<1>8. CASE Setting!RestoreAfter
  <2>1. /\ file' = file /\ settings' = Setting!Taken(Setting!After)
        /\ prog' = prog /\ dat' = dat /\ Setting!Section("after")
    BY <1>8 DEF Setting!RestoreAfter
  <2>2. todo = Afterwards /\ todo' = Saving
    BY <2>1, Sections DEF Setting!Section
  <2>3. SettingsTaken /\ ProgramsTaken /\ DOMAIN Cells \subseteq Setting!Fields
    BY <2>2, Sections
  <2>4. AllTaken'
    BY <2>1, <2>3 DEF SettingsTaken, AllTaken, Setting!Taken, Cells
  <2>5. ProgramsTaken'
    BY <2>1, <2>3 DEF ProgramsTaken
  <2> QED  BY <2>1, <2>2, <2>4, <2>5, Sections DEF Cells
<1>9. CASE Setting!RestoreSave
  <2>1. file' = file /\ Setting!Section("save")
    BY <1>9 DEF Setting!RestoreSave
  <2>2. todo' = <<>>
    BY <2>1, Sections DEF Setting!Section
  <2> QED  BY <2>1, <2>2, <1>b
<1>10. CASE UNCHANGED settingVars
  BY <1>10, <1>a DEF settingVars
<1>11. ASSUME \/ Setting!Load \/ Setting!SetDefaults \/ Setting!Save \/ Setting!EditKeys
              \/ Setting!Upload \/ Setting!Delete \/ Setting!Bind
              \/ \E f \in Editable : Setting!Edit(f)
       PROVE  SettingsInv'
  BY <1>11, <1>2 DEF Setting!Load, Setting!SetDefaults, Setting!Save, Setting!EditKeys,
     Setting!Upload, Setting!Delete, Setting!Bind, Setting!Edit
<1> QED
  BY ONLY <1>1, <1>3, <1>4, <1>5, <1>6, <1>7, <1>8, <1>9, <1>10, <1>11,
          Setting!Next \/ UNCHANGED settingVars, Zenon DEF Setting!Next

\* A restore whose save succeeds leaves the settings, programs and users of the
\* backup in RAM and in flash (api_handler_system_restore).
THEOREM RestoresGiveTheBackup == Spec => RestoreGivesBackup
<1>1. Init => SettingsInv
  BY Sections DEF Init, Setting!Init, SettingsInv
<1>2. SettingsInv /\ [Next]_vars => SettingsInv'
  BY DeviceSteps, SettingsNext
<1>3. SettingsInv /\ [Next]_vars =>
        [Setting!RestoreSave /\ Setting!WriteBlob(settings) =>
           /\ prog' = file[1].prog /\ dat' = prog' /\ keys' = file[1].keys
           /\ \A f \in DOMAIN file[1].cells :
                settings'[f] = file[1].cells[f] /\ saved'[f] = settings'[f].val]_(Setting!vars)
  <2> SUFFICES ASSUME SettingsInv, Setting!RestoreSave, Setting!WriteBlob(settings)
               PROVE  /\ prog' = file[1].prog /\ dat' = prog' /\ keys' = file[1].keys
                      /\ \A f \in DOMAIN file[1].cells :
                           settings'[f] = file[1].cells[f] /\ saved'[f] = settings'[f].val
    OBVIOUS
  <2>1. /\ keys' = file[1].keys /\ settings' = settings /\ prog' = prog /\ dat' = dat
        /\ todo # <<>> /\ Head(todo) = "save" /\ saved' = Setting!SettingValues(settings)
    BY DEF Setting!RestoreSave, Setting!Section, Setting!WriteBlob
  <2>2. todo = Saving
    BY <2>1, Sections DEF SettingsInv
  <2>3. AllTaken /\ ProgramsTaken /\ DOMAIN Cells \subseteq Setting!Fields
    BY <2>1, <2>2 DEF SettingsInv
  <2>4. \A f \in DOMAIN Cells : settings[f] = Cells[f] /\ saved'[f] = settings[f].val
    BY <2>1, <2>3 DEF AllTaken, Setting!SettingValues
  <2> QED  BY <2>1, <2>3, <2>4 DEF ProgramsTaken, Cells
<1> QED  BY <1>1, <1>2, <1>3, PTL DEF Spec, RestoreGivesBackup, Setting!RestoreGivesBackup

-----------------------------------------------------------------------------
(***************************************************************************)
(* Counters.  What waits to be delivered is a number, and delivering it at *)
(* once is delivering it edge by edge.  The operators of the part, with    *)
(* the configuration as a parameter:                                       *)
(***************************************************************************)
WrapOf(c, v) == IF v > MaxValue THEN (c.start + (v - MaxValue - 1)) % (MaxValue + 1) ELSE v
EdgeOf(c, v) ==
  IF c.up THEN IF c.mode = "sw" THEN WrapOf(c, v + 1) ELSE v + 1
  ELSE IF v > 0 THEN v - 1 ELSE c.start
Runs(c) ==
  CHOOSE f : f = [n \in 0..Burst |-> [v \in 0..MaxValue |-> IF n = 0 THEN v ELSE f[n - 1][EdgeOf(c, v)]]]
TurnedOf(c, v, d) == (v + IF c.up THEN d ELSE -d) % (MaxValue + 1)
SummedOf(c, v, n) ==
  IF c.up THEN v + n ELSE IF v >= n THEN v - n ELSE (c.start - (n - v)) % Big
PolledOf(c, v, n) == WrapOf(c, SummedOf(c, v, n))
DeliveredOf(c, v, p, n) ==
  CASE c.mode = "sw"      -> Runs(c)[p][v]
    [] c.mode = "encoder" -> TurnedOf(c, v, p)
    [] c.mode = "isr"     -> WrapOf(c, v)
    [] c.mode = "pcnt"    -> PolledOf(c, WrapOf(c, v), n)
OneEdgeOf(c, v, d) ==
  CASE c.mode = "encoder" -> TurnedOf(c, v, d)
    [] c.mode = "pcnt"    -> PolledOf(c, v, 1)
    [] OTHER              -> WrapOf(c, EdgeOf(c, v))
UnreadOf(h, l) == (h - l) % PcntMod
Undelivered == UnreadOf(hw, IF poll.at = "note" THEN poll.seen ELSE lastHw)

LEMMA SameOperators ==
  /\ Counter!Delivered = DeliveredOf(counter, value, pending, Undelivered)
  /\ Counter!Edges = Runs(counter)
  /\ \A v, d : Counter!OneEdge(v, d) = OneEdgeOf(counter, v, d)
  /\ \A v, n : Counter!Polled(v, n) = PolledOf(counter, v, n)
  /\ \A v, n : Counter!Summed(v, n) = SummedOf(counter, v, n)
  /\ \A v, d : Counter!Turned(v, d) = TurnedOf(counter, v, d)
  /\ \A v : Counter!Wrapped(v) = WrapOf(counter, v)
  /\ \A v : Counter!Edge(v) = EdgeOf(counter, v)
<1> USE DEF WrapOf, EdgeOf, TurnedOf, PolledOf, SummedOf
<1>1. \A v : Counter!Wrapped(v) = WrapOf(counter, v)
  BY DEF Counter!Wrapped
<1>2. \A v : Counter!Edge(v) = EdgeOf(counter, v)
  BY <1>1 DEF Counter!Edge
<1>3. Counter!Edges = Runs(counter)
  BY DEF Counter!Edges, Counter!Edge, Counter!Wrapped, Runs
<1>4. \A v, d : Counter!Turned(v, d) = TurnedOf(counter, v, d)
  BY DEF Counter!Turned, Counter!Signed
<1>8. \A v, n : Counter!Summed(v, n) = SummedOf(counter, v, n)
  BY DEF Counter!Summed
<1> HIDE DEF WrapOf, EdgeOf, TurnedOf, SummedOf
<1>5. \A v, n : Counter!Polled(v, n) = PolledOf(counter, v, n)
  BY <1>1, <1>8 DEF Counter!Polled
<1> HIDE DEF PolledOf
<1>6. \A v, d : Counter!OneEdge(v, d) = OneEdgeOf(counter, v, d)
  BY <1>1, <1>2, <1>4, <1>5 DEF Counter!OneEdge, OneEdgeOf
<1>7. Counter!Delivered = DeliveredOf(counter, value, pending, Undelivered)
  BY <1>1, <1>3, <1>4, <1>5 DEF Counter!Delivered, DeliveredOf, Counter!Undelivered, Undelivered, UnreadOf
<1> QED  BY <1>1, <1>2, <1>3, <1>4, <1>5, <1>6, <1>7, <1>8

\* Remainders that lie a range away.
LEMMA Remainders ==
  ASSUME NEW m \in Nat \ {0}
  PROVE  /\ \A x \in 0..m - 1 : x % m = x /\ (x + m) % m = x /\ (x - m) % m = x
         /\ \A x \in Int : x % m \in 0..m - 1
<1>1. \A x \in Int : x % m \in 0..m - 1
  OBVIOUS
<1>2. ASSUME NEW x \in 0..m - 1  PROVE x % m = x
  OBVIOUS
<1>3. ASSUME NEW x \in 0..m - 1  PROVE (x + m) % m = x
  OBVIOUS
<1>4. ASSUME NEW x \in 0..m - 1  PROVE (x - m) % m = x
  OBVIOUS
<1> QED  BY <1>1, <1>2, <1>3, <1>4

\* A whole number of ranges, but one, further on.
LEMMA WholeRanges ==
  ASSUME NEW m \in Nat \ {0}, NEW b \in Nat, b % m = 0, b >= m, NEW y \in Int,
         y - (b - m) \in 0..m - 1
  PROVE  y % m = y - (b - m)
<1> DEFINE q == b \div m
           x == y - (b - m)
<1>1. q \in Nat /\ b = m * q /\ x \in 0..m - 1
  OBVIOUS
<1>2. y = x + (b - m)
  OBVIOUS
<1> HIDE DEF q, x
<1>3. y = m * (q - 1) + x
  BY <1>1, <1>2
<1>4. y % m = x
  BY <1>1, <1>3
<1> QED  BY <1>4 DEF x

LEMMA ConfigFacts ==
  ASSUME NEW c \in Configs
  PROVE  /\ c.mode \in {"sw", "encoder", "isr", "pcnt"} /\ c.up \in BOOLEAN
         /\ c.start \in 0..MaxValue /\ Burst + c.start <= MaxValue + 1
         /\ c.mode = "pcnt" /\ ~c.up => c.start = 0 \/ Burst <= 2 * c.start
         /\ MaxValue \in Nat /\ Burst \in Nat /\ MaxValue + 1 \in Nat \ {0} /\ Burst <= MaxValue + 1
         /\ Big \in Nat /\ Big > MaxValue + 1 /\ Big % (MaxValue + 1) = 0
         /\ PcntMod \in Nat \ {0} /\ 2 * Burst < PcntMod
BY DeviceAssumption DEF Counter!CounterAssumption

LEMMA WrapFacts ==
  ASSUME NEW c \in Configs, NEW v \in Nat
  PROVE  /\ WrapOf(c, v) \in 0..MaxValue /\ (v <= MaxValue => WrapOf(c, v) = v)
         /\ v > MaxValue /\ v - MaxValue < Burst + 1 => WrapOf(c, v) = c.start + (v - MaxValue - 1)
<1>1. MaxValue \in Nat /\ c.start \in Nat /\ MaxValue + 1 \in Nat \ {0} /\ Burst \in Nat
      /\ Burst + c.start <= MaxValue + 1
  BY ConfigFacts
<1>2. CASE v <= MaxValue
  BY <1>1, <1>2 DEF WrapOf
<1>3. CASE v > MaxValue
  <2> DEFINE x == c.start + (v - MaxValue - 1)
  <2>1. WrapOf(c, v) = x % (MaxValue + 1) /\ x \in Nat
    BY <1>1, <1>3 DEF WrapOf
  <2>2. x % (MaxValue + 1) \in 0..MaxValue
    <3> DEFINE m == MaxValue + 1
    <3>1. m \in Nat \ {0} /\ m - 1 = MaxValue
      BY <1>1
    <3> HIDE DEF x, m
    <3>2. x % m \in 0..m - 1
      BY <2>1, <3>1, Remainders
    <3> QED  BY <3>1, <3>2 DEF m
  <2>3. v - MaxValue < Burst + 1 => x \in 0..MaxValue
    BY <1>1, <1>3
  <2> HIDE DEF x
  <2>4. x \in 0..MaxValue => x % (MaxValue + 1) = x
    <3>1. (MaxValue + 1) \in Nat \ {0} /\ (MaxValue + 1) - 1 = MaxValue
      BY <1>1
    <3> QED  BY <3>1, Remainders
  <2>5. x = c.start + (v - MaxValue - 1)
    BY DEF x
  <2>6. ~(v <= MaxValue)
    BY <1>1, <1>3
  <2> QED  BY <2>1, <2>2, <2>3, <2>4, <2>5, <2>6
<1> QED  BY <1>1, <1>2, <1>3

\* One edge in the scan task or in an interrupt.
LEMMA EdgeFacts ==
  ASSUME NEW c \in Configs, NEW v \in 0..MaxValue
  PROVE  /\ EdgeOf(c, v) \in Nat /\ (c.mode = "sw" \/ ~c.up => EdgeOf(c, v) \in 0..MaxValue)
         /\ c.mode = "sw" => WrapOf(c, EdgeOf(c, v)) = EdgeOf(c, v)
<1>1. MaxValue \in Nat /\ c.start \in 0..MaxValue
  BY ConfigFacts
<1>2. WrapOf(c, v + 1) \in 0..MaxValue
  BY <1>1, WrapFacts
<1>3. EdgeOf(c, v) \in Nat /\ (c.mode = "sw" \/ ~c.up => EdgeOf(c, v) \in 0..MaxValue)
  BY <1>1, <1>2 DEF EdgeOf
<1> QED  BY <1>1, <1>3, WrapFacts

\* The pulses of a poll.
LEMMA PolledFacts ==
  ASSUME NEW c \in Configs, NEW v \in 0..MaxValue, NEW n \in Nat
  PROVE  PolledOf(c, v, n) \in 0..MaxValue /\ SummedOf(c, v, n) \in Nat /\ PolledOf(c, v, 0) = v
<1>1. MaxValue \in Nat /\ c.start \in 0..MaxValue /\ Big \in Nat \ {0}
  BY ConfigFacts
<1> DEFINE x == IF c.up THEN v + n ELSE IF v >= n THEN v - n ELSE (c.start - (n - v)) % Big
<1>2. x \in Nat
  <2>1. (c.start - (n - v)) % Big \in 0..Big - 1
    <3>1. c.start - (n - v) \in Int
      BY <1>1
    <3> QED  BY <1>1, <3>1, Remainders
  <2> QED  BY <1>1, <2>1
<1>3. PolledOf(c, v, n) = WrapOf(c, x) /\ SummedOf(c, v, n) = x
  BY DEF PolledOf, SummedOf
<1>4. PolledOf(c, v, 0) = WrapOf(c, v)
  BY <1>1 DEF PolledOf, SummedOf
<1> HIDE DEF x
<1> QED  BY <1>1, <1>2, <1>3, <1>4, WrapFacts

\* Below zero a poll goes on from the start value, and from the end of the
\* range when it passes zero once more.
LEMMA PolledBelow ==
  ASSUME NEW c \in Configs, c.mode = "pcnt", ~c.up, NEW k \in 1..Burst
  PROVE  WrapOf(c, (c.start - k) % Big)
           = IF c.start = 0 THEN MaxValue + 1 - k ELSE IF k <= c.start THEN c.start - k ELSE 2 * c.start - k
<1> DEFINE m == MaxValue + 1
           x == (c.start - k) % Big
<1>0. m = MaxValue + 1
  OBVIOUS
<1>1. /\ MaxValue \in Nat /\ c.start \in 0..MaxValue /\ Big \in Nat \ {0} /\ Big > m /\ Big % m = 0
      /\ Burst \in Nat /\ m \in Nat \ {0} /\ Burst + c.start <= m
      /\ c.start = 0 \/ Burst <= 2 * c.start
  BY ConfigFacts
<1> HIDE DEF m
<1>2. CASE k <= c.start
  <2>1. c.start - k \in 0..Big - 1 /\ c.start - k \in 0..MaxValue
    BY <1>0, <1>1, <1>2
  <2>2. x = c.start - k
    BY <1>1, <2>1, Remainders
  <2>3. WrapOf(c, c.start - k) = c.start - k
    BY <2>1, WrapFacts
  <2> QED  BY <1>1, <1>2, <2>2, <2>3
<1>3. CASE ~(k <= c.start)
  <2>1. Big + c.start - k \in 0..Big - 1 /\ k <= m
    BY <1>1, <1>3
  <2>2. ((Big + c.start - k) - Big) % Big = Big + c.start - k
    BY <1>1, <2>1, Remainders
  <2>3. (Big + c.start - k) - Big = c.start - k
    BY <1>1
  <2>4. x = Big + c.start - k
    BY <2>2, <2>3
  <2>5. Big >= m + m
    <3> DEFINE q == Big \div m
    <3>1. q \in Nat /\ Big = m * q
      BY <1>1
    <3>2. q # 1 /\ q # 0
      BY <1>1, <3>1
    <3> HIDE DEF q
    <3>3. q >= 2
      BY <3>1, <3>2
    <3> QED  BY <1>1, <3>1, <3>3
  <2> HIDE DEF x
  <2>6. x > MaxValue /\ x \in Nat
    BY <1>0, <1>1, <1>3, <2>1, <2>4, <2>5
  <2>7. WrapOf(c, x) = (c.start + (x - MaxValue - 1)) % m
    BY <1>0, <2>6 DEF WrapOf
  <2> DEFINE y == IF c.start = 0 THEN m - k ELSE 2 * c.start - k
  <2>8. y \in 0..m - 1
    BY <1>1, <1>3, <2>1
  <2> HIDE DEF y
  <2> DEFINE z == c.start + (x - MaxValue - 1)
  <2>a. /\ m = MaxValue + 1 /\ x = Big + c.start - k /\ m \in Int /\ Big \in Int /\ c.start \in Int
        /\ k \in Int /\ MaxValue \in Int
    BY ONLY <1>0, <1>1, <2>4, k \in 1..Burst
  <2>9. CASE c.start # 0
    <3>1. z - (Big - m) = 2 * c.start - k
      BY ONLY <2>a
    <3>2. z \in Int /\ y = 2 * c.start - k
      BY <1>0, <1>1, <2>4, <2>9 DEF y
    <3> HIDE DEF z
    <3>3. z % m = y
      <4>1. z - (Big - m) \in 0..m - 1 /\ z - (Big - m) = y
        BY <2>8, <3>1, <3>2
      <4>2. m \in Nat \ {0} /\ Big \in Nat /\ Big % m = 0 /\ Big >= m
        BY <1>1
      <4> HIDE DEF z
      <4> QED  BY ONLY <3>2, <4>1, <4>2, WholeRanges
    <3> QED  BY <1>3, <2>7, <2>9, <3>2, <3>3 DEF x, z
  <2>10. CASE c.start = 0
    <3>1. z - ((Big - m) - m) = m - k
      BY ONLY <2>a, <2>10
    <3>2. z \in Int /\ y = m - k
      BY <1>0, <1>1, <2>4, <2>10 DEF y
    <3>3. Big - m \in Nat /\ Big - m >= m
      BY <1>1, <2>5
    <3> DEFINE d == Big - m
    <3>a. d \in Nat /\ d >= m /\ d = Big - m /\ z - (d - m) = y
      BY <3>1, <3>2, <3>3
    <3>b. m \in Nat \ {0} /\ Big \in Nat /\ Big % m = 0 /\ Big >= m
      BY <1>1
    <3> HIDE DEF z, d
    <3>4. d % m = 0
      <4>1. d \in Int /\ d - (Big - m) = 0 /\ d - (Big - m) \in 0..m - 1
        BY ONLY <3>a, <3>b
      <4>2. d % m = d - (Big - m)
        BY ONLY <3>b, <4>1, WholeRanges
      <4> QED  BY <4>1, <4>2
    <3>5. z % m = y
      <4>1. z - (d - m) \in 0..m - 1
        BY <2>8, <3>a
      <4>2. z % m = z - (d - m)
        BY ONLY <3>2, <3>a, <3>b, <3>4, <4>1, WholeRanges
      <4> QED  BY <3>a, <4>2
    <3>6. WrapOf(c, x) = y
      BY <2>7, <3>5 DEF z
    <3>7. y = MaxValue + 1 - k
      BY ONLY <2>a, <3>2
    <3> QED  BY <2>10, <3>6, <3>7 DEF x
  <2> QED  BY <2>9, <2>10
<1> QED  BY <1>2, <1>3


\* The pulses of a poll may as well come in two.
LEMMA PolledTwice ==
  ASSUME NEW c \in Configs, c.mode = "pcnt", NEW v \in 0..MaxValue,
         NEW n \in Nat, NEW k \in Nat, n + k <= Burst
  PROVE  PolledOf(c, v, n + k) = PolledOf(c, PolledOf(c, v, n), k)
<1> DEFINE w == PolledOf(c, v, n)
<1>1. /\ MaxValue \in Nat /\ c.start \in 0..MaxValue /\ c.up \in BOOLEAN
      /\ Burst \in Nat /\ Burst + c.start <= MaxValue + 1
      /\ c.start = 0 \/ c.up \/ Burst <= 2 * c.start
  BY ConfigFacts
<1>2. w \in 0..MaxValue
  BY PolledFacts
<1>3. CASE c.up
  <2>1. \A x \in 0..MaxValue, j \in Nat : PolledOf(c, x, j) = WrapOf(c, x + j)
    BY <1>3 DEF PolledOf, SummedOf
  <2>2. w = WrapOf(c, v + n) /\ PolledOf(c, v, n + k) = WrapOf(c, v + (n + k)) /\ n + k \in Nat
    BY <2>1
  <2>3. PolledOf(c, w, k) = WrapOf(c, w + k)
    BY <1>2, <2>1
  <2>4. v + n \in Nat /\ v + (n + k) \in Nat /\ w + k \in Nat
    BY <1>1, <1>2
  <2> HIDE DEF w
  <2>5. CASE v + n <= MaxValue
    <3>1. w = v + n
      BY <2>2, <2>4, <2>5, WrapFacts
    <3>2. w + k = v + (n + k)
      BY <1>1, <3>1
    <3> QED  BY <2>2, <2>3, <3>2 DEF w
  <2>6. CASE ~(v + n <= MaxValue)
    <3>1. v + n > MaxValue /\ (v + n) - MaxValue < Burst + 1
          /\ v + (n + k) > MaxValue /\ (v + (n + k)) - MaxValue < Burst + 1
      BY <1>1, <2>6
    <3>2. /\ w = c.start + ((v + n) - MaxValue - 1)
          /\ WrapOf(c, v + (n + k)) = c.start + ((v + (n + k)) - MaxValue - 1)
      BY <2>2, <2>4, <3>1, WrapFacts
    <3>3. w + k = c.start + ((v + (n + k)) - MaxValue - 1) /\ w + k <= MaxValue
      BY <1>1, <3>1, <3>2
    <3>4. WrapOf(c, w + k) = w + k
      BY <2>4, <3>3, WrapFacts
    <3> QED  BY <2>2, <2>3, <3>2, <3>3, <3>4 DEF w
  <2> QED  BY <2>5, <2>6
<1>4. CASE ~c.up
  <2> DEFINE below(j) == IF c.start = 0 THEN MaxValue + 1 - j
                         ELSE IF j <= c.start THEN c.start - j ELSE 2 * c.start - j
  <2>1. ASSUME NEW x \in 0..MaxValue, NEW j \in 0..Burst
        PROVE  PolledOf(c, x, j) = IF x >= j THEN x - j ELSE below(j - x)
    <3>1. CASE x >= j
      <4>1. PolledOf(c, x, j) = WrapOf(c, x - j)
        BY <1>4, <3>1 DEF PolledOf, SummedOf
      <4>2. x - j \in Nat /\ x - j <= MaxValue
        BY <1>1, <3>1
      <4> QED  BY <3>1, <4>1, <4>2, WrapFacts
    <3>2. CASE ~(x >= j)
      <4>1. PolledOf(c, x, j) = WrapOf(c, (c.start - (j - x)) % Big)
        BY <1>4, <3>2 DEF PolledOf, SummedOf
      <4>2. j - x \in 1..Burst
        BY <1>1, <3>2
      <4>3. WrapOf(c, (c.start - (j - x)) % Big) = below(j - x)
        BY <1>4, <4>2, PolledBelow
      <4> QED  BY <3>2, <4>1, <4>3
    <3> QED  BY <3>1, <3>2
  <2>2. k \in 0..Burst /\ n \in 0..Burst /\ n + k \in 0..Burst
    BY <1>1
  <2>3. /\ w = IF v >= n THEN v - n ELSE below(n - v)
        /\ PolledOf(c, v, n + k) = IF v >= n + k THEN v - (n + k) ELSE below((n + k) - v)
        /\ PolledOf(c, w, k) = IF w >= k THEN w - k ELSE below(k - w)
    BY <1>2, <2>1, <2>2
  <2> HIDE DEF w
  <2>4. PolledOf(c, v, n + k) = PolledOf(c, w, k)
    BY ONLY <1>1, <1>2, <1>4, <2>3, n \in Nat, k \in Nat, n + k <= Burst, v \in 0..MaxValue
  <2> QED  BY <2>4 DEF w
<1> QED  BY <1>1, <1>3, <1>4

\* Steps of an encoder.
LEMMA TurnedFacts ==
  ASSUME NEW c \in Configs, NEW v \in 0..MaxValue, NEW p \in -Burst..Burst
  PROVE  /\ TurnedOf(c, v, p) \in 0..MaxValue /\ TurnedOf(c, v, 0) = v
         /\ \A d \in {-1, 1} : p + d \in -Burst..Burst =>
              TurnedOf(c, v, p + d) = TurnedOf(c, TurnedOf(c, v, p), d)
<1> DEFINE m == MaxValue + 1
           turn(x) == IF x < 0 THEN x + m ELSE IF x >= m THEN x - m ELSE x
<1>1. m \in Nat \ {0} /\ MaxValue = m - 1 /\ Burst \in Nat /\ Burst <= m /\ c.up \in BOOLEAN
  BY ConfigFacts
<1> HIDE DEF m
<1>2. ASSUME NEW x \in -m..m + m - 1  PROVE x % m = turn(x) /\ turn(x) \in 0..m - 1
  <2>1. turn(x) \in 0..m - 1
    BY <1>1
  <2>2. CASE x < 0
    <3> DEFINE y == x + m
    <3>1. y \in 0..m - 1 /\ y - m = x /\ y = x + m
      BY <1>1, <2>2
    <3> HIDE DEF y
    <3>2. (y - m) % m = y
      BY <1>1, <3>1, Remainders
    <3> QED  BY <2>1, <2>2, <3>1, <3>2
  <2>3. CASE x >= m
    <3> DEFINE y == x - m
    <3>1. y \in 0..m - 1 /\ y + m = x /\ y = x - m /\ ~(x < 0)
      BY <1>1, <2>3
    <3> HIDE DEF y
    <3>2. (y + m) % m = y
      BY <1>1, <3>1, Remainders
    <3> QED  BY <2>1, <2>3, <3>1, <3>2
  <2>4. CASE ~(x < 0) /\ ~(x >= m)
    BY <1>1, <2>1, <2>4, Remainders
  <2> QED  BY <2>2, <2>3, <2>4, <2>1
<1>3. \A x \in 0..m - 1, d \in -Burst..Burst :
        TurnedOf(c, x, d) = turn(x + IF c.up THEN d ELSE -d) /\ TurnedOf(c, x, d) \in 0..m - 1
  <2> TAKE x \in 0..m - 1, d \in -Burst..Burst
  <2>1. x + (IF c.up THEN d ELSE -d) \in -m..m + m - 1
    BY <1>1
  <2>2. TurnedOf(c, x, d) = (x + IF c.up THEN d ELSE -d) % m
    BY DEF TurnedOf, m
  <2> QED  BY <1>2, <2>1, <2>2
<1>4. v \in 0..m - 1 /\ 0 \in -Burst..Burst
  BY <1>1
<1>5. TurnedOf(c, v, p) \in 0..m - 1 /\ TurnedOf(c, v, 0) = v
  BY <1>1, <1>3, <1>4
<1>6. ASSUME NEW d \in {-1, 1}, p + d \in -Burst..Burst
      PROVE  TurnedOf(c, v, p + d) = TurnedOf(c, TurnedOf(c, v, p), d)
  <2>1. d \in -Burst..Burst
    BY <1>1, <1>6
  <2>2. /\ TurnedOf(c, v, p) = turn(v + IF c.up THEN p ELSE -p)
        /\ TurnedOf(c, v, p + d) = turn(v + IF c.up THEN p + d ELSE -(p + d))
        /\ TurnedOf(c, TurnedOf(c, v, p), d) = turn(TurnedOf(c, v, p) + IF c.up THEN d ELSE -d)
    BY <1>3, <1>4, <1>5, <1>6, <2>1
  <2> QED  BY <1>1, <1>4, <1>5, <1>6, <2>2
<1> QED  BY <1>1, <1>5, <1>6


-----------------------------------------------------------------------------
(***************************************************************************)
(* Induction and recursion over numbers, by the least counterexample.      *)
(***************************************************************************)
LEMMA LeastOf ==
  ASSUME NEW S \in SUBSET Nat, S # {}
  PROVE  \E m \in S : \A k \in S : m <= k
<1> DEFINE R == OpToRel(<, Nat)
<1>1. IsWellFoundedOn(R, Nat)
  BY NatLessThanWellFounded, Zenon
<1>2. \A x, y \in Nat : x < y => <<x, y>> \in R
  BY DEF OpToRel
<1> HIDE DEF R
<1>3. PICK m \in S : \A k \in S : ~ (<<k, m>> \in R)
  BY <1>1, WFMin
<1>4. \A k \in S : ~ (k < m)
  BY <1>2, <1>3
<1> QED  BY <1>4

LEMMA UpTo ==
  ASSUME NEW n \in Nat, NEW S, 0 \in S, \A i \in 1..n : i - 1 \in S => i \in S
  PROVE  \A i \in 0..n : i \in S
<1> DEFINE Bad == {i \in 0..n : i \notin S}
<1>1. SUFFICES ASSUME Bad # {}  PROVE FALSE
  OBVIOUS
<1>2. Bad \in SUBSET Nat
  OBVIOUS
<1>3. PICK m \in Bad : \A k \in Bad : m <= k
  <2> HIDE DEF Bad
  <2> QED  BY <1>1, <1>2, LeastOf
<1>4. m \in 1..n /\ m - 1 \in 0..n /\ m - 1 \notin Bad
  BY <1>3
<1> QED  BY <1>3, <1>4

\* The functions that Runs describes, up to m edges.
RunsTo(c, m, f) ==
  f = [n \in 0..m |-> [v \in 0..MaxValue |-> IF n = 0 THEN v ELSE f[n - 1][EdgeOf(c, v)]]]

LEMMA RunsExist ==
  ASSUME NEW c \in Configs, c.mode = "sw"
  PROVE  RunsTo(c, Burst, Runs(c))
<1>0. Burst \in Nat /\ MaxValue \in Nat /\ \A v \in 0..MaxValue : EdgeOf(c, v) \in 0..MaxValue
  BY ConfigFacts, EdgeFacts
<1> DEFINE T == {m \in 0..Burst : \E f : RunsTo(c, m, f)}
<1>1. 0 \in T
  <2> DEFINE f == [n \in 0..0 |-> [v \in 0..MaxValue |-> v]]
  <2>1. \A n \in 0..0 : f[n] = [v \in 0..MaxValue |-> IF n = 0 THEN v ELSE f[n - 1][EdgeOf(c, v)]]
    OBVIOUS
  <2>2. f = [n \in 0..0 |-> f[n]]
    OBVIOUS
  <2> HIDE DEF f
  <2>3. RunsTo(c, 0, f)
    BY <2>1, <2>2 DEF RunsTo
  <2> QED  BY <1>0, <2>3
<1>2. ASSUME NEW m \in 1..Burst, m - 1 \in T  PROVE m \in T
  <2>1. PICK f : RunsTo(c, m - 1, f)
    BY <1>2
  <2> DEFINE g == [n \in 0..m |-> IF n = m THEN [v \in 0..MaxValue |-> f[m - 1][EdgeOf(c, v)]] ELSE f[n]]
  <2>2. \A n \in 0..m - 1 : /\ f[n] = [v \in 0..MaxValue |-> IF n = 0 THEN v ELSE f[n - 1][EdgeOf(c, v)]]
                            /\ g[n] = f[n]
    <3>1. f = [n \in 0..m - 1 |-> [v \in 0..MaxValue |-> IF n = 0 THEN v ELSE f[n - 1][EdgeOf(c, v)]]]
      BY <2>1 DEF RunsTo
    <3>2. \A n \in 0..m - 1 : f[n] = [v \in 0..MaxValue |-> IF n = 0 THEN v ELSE f[n - 1][EdgeOf(c, v)]]
      BY <3>1, Zenon
    <3>3. \A n \in 0..m - 1 : g[n] = f[n]
      OBVIOUS
    <3> QED  BY <3>2, <3>3
  <2>3. g[m] = [v \in 0..MaxValue |-> f[m - 1][EdgeOf(c, v)]] /\ m # 0 /\ g[m - 1] = f[m - 1]
    OBVIOUS
  <2>4. g = [n \in 0..m |-> g[n]]
    OBVIOUS
  <2> HIDE DEF g
  <2>5. ASSUME NEW n \in 0..m
        PROVE  g[n] = [v \in 0..MaxValue |-> IF n = 0 THEN v ELSE g[n - 1][EdgeOf(c, v)]]
    <3>1. CASE n = m
      BY <2>3, <3>1
    <3>2. CASE n # m
      <4>1. n \in 0..m - 1 /\ (n # 0 => n - 1 \in 0..m - 1)
        BY <3>2
      <4>2. CASE n = 0
        BY <2>2, <4>1, <4>2
      <4>3. CASE n # 0
        <5>1. g[n - 1] = f[n - 1]
          BY <2>2, <4>1, <4>3
        <5> QED  BY <2>2, <4>1, <4>3, <5>1
      <4> QED  BY <4>2, <4>3
    <3> QED  BY <3>1, <3>2
  <2>6. RunsTo(c, m, g)
    BY <2>4, <2>5 DEF RunsTo
  <2> QED  BY <2>6
<1>3. Burst \in T
  <2>1. \A i \in 1..Burst : i - 1 \in T => i \in T
    BY <1>2
  <2> HIDE DEF T
  <2>2. \A i \in 0..Burst : i \in T
    BY <1>0, <1>1, <2>1, UpTo
  <2> QED  BY <1>0, <2>2
<1>4. \E f : RunsTo(c, Burst, f)
  BY <1>3
<1>5. RunsTo(c, Burst, CHOOSE f : RunsTo(c, Burst, f))
  BY <1>4, Zenon
<1>6. Runs(c) = CHOOSE f : RunsTo(c, Burst, f)
  BY DEF Runs, RunsTo
<1> QED  BY <1>5, <1>6

\* One edge more in a collection is one edge more after it.
LEMMA RunsFacts ==
  ASSUME NEW c \in Configs, c.mode = "sw", NEW v \in 0..MaxValue, NEW n \in 0..Burst
  PROVE  /\ Runs(c)[n][v] \in 0..MaxValue /\ Runs(c)[0][v] = v
         /\ n < Burst => Runs(c)[n + 1][v] = EdgeOf(c, Runs(c)[n][v])
<1>0. Burst \in Nat /\ MaxValue \in Nat /\ \A x \in 0..MaxValue : EdgeOf(c, x) \in 0..MaxValue
  BY ConfigFacts, EdgeFacts
<1>1. \A k \in 0..Burst, x \in 0..MaxValue :
        Runs(c)[k][x] = IF k = 0 THEN x ELSE Runs(c)[k - 1][EdgeOf(c, x)]
  <2>1. \A k \in 0..Burst :
          Runs(c)[k] = [x \in 0..MaxValue |-> IF k = 0 THEN x ELSE Runs(c)[k - 1][EdgeOf(c, x)]]
    <3>1. Runs(c) = [k \in 0..Burst |-> [x \in 0..MaxValue |-> IF k = 0 THEN x
                                                               ELSE Runs(c)[k - 1][EdgeOf(c, x)]]]
      BY RunsExist DEF RunsTo
    <3> QED  BY <3>1, Zenon
  <2> TAKE k \in 0..Burst, x \in 0..MaxValue
  <2>2. Runs(c)[k] = [y \in 0..MaxValue |-> IF k = 0 THEN y ELSE Runs(c)[k - 1][EdgeOf(c, y)]]
    BY <2>1
  <2> QED  BY <2>2, Zenon
<1> DEFINE Good(k) == \A x \in 0..MaxValue :
                        /\ Runs(c)[k][x] \in 0..MaxValue
                        /\ k < Burst => Runs(c)[k + 1][x] = EdgeOf(c, Runs(c)[k][x])
           T == {k \in 0..Burst : Good(k)}
<1>2. 0 \in T
  <2>1. 0 \in 0..Burst /\ \A x \in 0..MaxValue : Runs(c)[0][x] = x
    BY <1>0, <1>1
  <2>2. ASSUME 0 < Burst, NEW x \in 0..MaxValue  PROVE Runs(c)[0 + 1][x] = EdgeOf(c, Runs(c)[0][x])
    <3>1. 1 \in 0..Burst /\ 0 + 1 = 1 /\ 1 # 0 /\ 1 - 1 = 0
      BY <1>0, <2>2
    <3>2. Runs(c)[1][x] = Runs(c)[0][EdgeOf(c, x)]
      BY <1>1, <3>1
    <3>3. Runs(c)[0][EdgeOf(c, x)] = EdgeOf(c, x) /\ Runs(c)[0][x] = x
      BY <1>0, <2>1
    <3> QED  BY <3>1, <3>2, <3>3
  <2> QED  BY <2>1, <2>2
<1>3. ASSUME NEW k \in 1..Burst, k - 1 \in T  PROVE k \in T
  <2>1. Good(k - 1) /\ k \in 0..Burst /\ k - 1 < Burst /\ (k - 1) + 1 = k /\ k # 0
    BY <1>0, <1>3
  <2>2. \A x \in 0..MaxValue : Runs(c)[k][x] = EdgeOf(c, Runs(c)[k - 1][x]) /\ Runs(c)[k - 1][x] \in 0..MaxValue
    BY <2>1
  <2>3. \A x \in 0..MaxValue : Runs(c)[k][x] \in 0..MaxValue
    BY <1>0, <2>2
  <2>4. ASSUME NEW x \in 0..MaxValue, k < Burst  PROVE Runs(c)[k + 1][x] = EdgeOf(c, Runs(c)[k][x])
    <3>1. k + 1 \in 0..Burst /\ k + 1 # 0 /\ (k + 1) - 1 = k
      BY <1>0, <2>4
    <3>2. Runs(c)[k + 1][x] = Runs(c)[k][EdgeOf(c, x)]
      BY <1>1, <3>1
    <3>3. Runs(c)[k][EdgeOf(c, x)] = EdgeOf(c, Runs(c)[k - 1][EdgeOf(c, x)])
      BY <1>0, <2>2
    <3>4. Runs(c)[k][x] = Runs(c)[k - 1][EdgeOf(c, x)]
      BY <1>1, <2>1
    <3> QED  BY <3>2, <3>3, <3>4
  <2> QED  BY <2>1, <2>3, <2>4
<1>4. n \in T
  <2> HIDE DEF T
  <2> QED  BY <1>0, <1>2, <1>3, UpTo
<1>5. Runs(c)[0][v] = v
  BY <1>0, <1>1
<1> QED  BY <1>4, <1>5


\* With nothing that waits the count is the value.
LEMMA NothingWaits ==
  ASSUME NEW c \in Configs, NEW v \in 0..MaxValue
  PROVE  /\ DeliveredOf(c, v, 0, 0) = v
         /\ \A h \in Int : UnreadOf(h, h) = 0
<1>1. c.mode \in {"sw", "encoder", "isr", "pcnt"} /\ Burst \in Nat /\ MaxValue \in Nat
      /\ PcntMod \in Nat \ {0}
  BY ConfigFacts
<1>2. 0 \in 0..Burst /\ 0 \in -Burst..Burst /\ v \in Nat /\ v <= MaxValue
  BY <1>1
<1>3. /\ c.mode = "sw" => Runs(c)[0][v] = v
      /\ TurnedOf(c, v, 0) = v /\ WrapOf(c, v) = v /\ PolledOf(c, v, 0) = v
  BY <1>2, RunsFacts, TurnedFacts, WrapFacts, PolledFacts
<1>4. DeliveredOf(c, v, 0, 0) = v
  BY <1>1, <1>3 DEF DeliveredOf
<1>5. ASSUME NEW h \in Int  PROVE UnreadOf(h, h) = 0
  <2>1. h - h = 0 /\ 0 \in 0..PcntMod - 1
    BY <1>1
  <2>2. 0 % PcntMod = 0
    BY <1>1, <2>1, Remainders
  <2> QED  BY <2>1, <2>2 DEF UnreadOf
<1> QED  BY <1>4, <1>5

\* Outside the two steps in which a reset has cleared the pulse counter and not
\* yet its last reading, and with nothing torn, what waits and the value make
\* the count that is due.  An interrupt that counts up leaves a value past the
\* end of its range to the loop, a poll leaves it to its own last steps.
CountSteps == {"idle", "control", "clear", "store", "resume", "passClear", "passStore", "passResume",
           "passEnd"}
PollSteps == {"idle", "read", "add", "store", "note", "wrap", "over"}
Storing == \E t \in Counter!CounterTasks : counterJob[t] \in {"store", "passStore"}
PollTypes ==
  /\ poll.at \in PollSteps /\ poll.seen \in 0..PcntMod - 1 /\ poll.sum \in Nat
  /\ poll = [at |-> poll.at, seen |-> poll.seen, sum |-> poll.sum, past |-> poll.past]
  /\ poll.at # "idle" => counter.mode = "pcnt"
  /\ poll.at = "idle" => poll = Counter!Resting
CounterTypes ==
  /\ counter \in Configs
  /\ value \in Nat
  /\ \/ value <= MaxValue \/ counter.mode = "pcnt"
     \/ counter.mode = "isr" /\ counter.up /\ value <= MaxValue + Burst
  /\ pending \in -Burst..Burst /\ (counter.mode = "sw" => pending \in 0..Burst)
  /\ hw \in 0..PcntMod - 1 /\ lastHw \in 0..PcntMod - 1 /\ PollTypes /\ torn \in BOOLEAN
  /\ counterJob \in [Counter!CounterTasks -> CountSteps]
  /\ \A t \in Counter!CounterTasks :
       counterJob[t] \notin {"idle", "control", "passEnd"} => counter.mode = "pcnt"
Due == due = DeliveredOf(counter, value, pending, Undelivered)
\* The poll that is under way: what came after its reading and what it has read
\* make what is unread, and its sum is the value with what it has read.
Parted ==
  /\ UnreadOf(hw, lastHw) = UnreadOf(hw, poll.seen) + UnreadOf(poll.seen, lastHw)
  /\ UnreadOf(hw, poll.seen) = 0 \/ UnreadOf(hw, lastHw) <= Burst
PollSums ==
  /\ counter.mode = "pcnt" /\ poll.at \in {"idle", "read", "add", "store"} => value <= MaxValue
  /\ poll.at \in {"add", "store", "note"} => Parted
  /\ poll.at = "store" => poll.sum = SummedOf(counter, value, UnreadOf(poll.seen, lastHw))
  /\ poll.at = "over" => poll.sum = WrapOf(counter, value)
CounterInv == CounterTypes /\ (torn \/ Storing \/ (Due /\ PollSums))

LEMMA CounterValues ==
  ASSUME CounterTypes
  PROVE  /\ MaxValue \in Nat /\ Burst \in Nat /\ PcntMod \in Nat \ {0} /\ 2 * Burst < PcntMod
         /\ counter.mode \in {"sw", "encoder", "isr", "pcnt"} /\ counter.up \in BOOLEAN
         /\ counter.start \in 0..MaxValue /\ Burst + counter.start <= MaxValue + 1
         /\ counter.mode \in {"sw", "encoder"} \/ (counter.mode = "isr" /\ ~counter.up) =>
              value \in 0..MaxValue
         /\ WrapOf(counter, value) \in 0..MaxValue
         /\ \A h, l \in 0..PcntMod - 1 : UnreadOf(h, l) \in 0..PcntMod - 1
<1>1. /\ MaxValue \in Nat /\ Burst \in Nat /\ PcntMod \in Nat \ {0} /\ 2 * Burst < PcntMod
      /\ counter.mode \in {"sw", "encoder", "isr", "pcnt"} /\ counter.up \in BOOLEAN
      /\ counter.start \in 0..MaxValue /\ Burst + counter.start <= MaxValue + 1
  BY ConfigFacts DEF CounterTypes
<1>2. counter.mode \in {"sw", "encoder"} \/ (counter.mode = "isr" /\ ~counter.up) =>
        value \in 0..MaxValue
  BY <1>1 DEF CounterTypes
<1>3. ASSUME NEW h \in 0..PcntMod - 1, NEW l \in 0..PcntMod - 1
      PROVE  UnreadOf(h, l) \in 0..PcntMod - 1
  <2>1. h - l \in Int
    BY <1>1
  <2> QED  BY <1>1, <2>1, Remainders DEF UnreadOf
<1>4. WrapOf(counter, value) \in 0..MaxValue
  BY WrapFacts DEF CounterTypes
<1> QED  BY <1>1, <1>2, <1>3, <1>4

\* One pulse more is one more that is unread.
LEMMA UnreadMore ==
  ASSUME PcntMod \in Nat \ {0}, NEW h \in 0..PcntMod - 1, NEW l \in 0..PcntMod - 1,
         UnreadOf(h, l) < PcntMod - 1
  PROVE  UnreadOf((h + 1) % PcntMod, l) = UnreadOf(h, l) + 1
<1> DEFINE n == UnreadOf(h, l)
           g == (h + 1) % PcntMod
<1>1. n = IF h < l THEN h - l + PcntMod ELSE h - l
  <2>1. CASE h < l
    <3> DEFINE y == h - l + PcntMod
    <3>1. y \in 0..PcntMod - 1 /\ y - PcntMod = h - l
      BY <2>1
    <3> HIDE DEF y
    <3>2. (y - PcntMod) % PcntMod = y
      BY <3>1, Remainders
    <3> QED  BY <2>1, <3>1, <3>2 DEF UnreadOf, y
  <2>2. CASE ~(h < l)
    <3>1. h - l \in 0..PcntMod - 1
      BY <2>2
    <3> QED  BY <2>2, <3>1, Remainders DEF UnreadOf
  <2> QED  BY <2>1, <2>2
<1>2. g = IF h + 1 = PcntMod THEN 0 ELSE h + 1
  <2>1. CASE h + 1 = PcntMod
    <3>1. 0 \in 0..PcntMod - 1 /\ 0 + PcntMod = h + 1
      BY <2>1
    <3>2. (0 + PcntMod) % PcntMod = 0
      BY <3>1, Remainders
    <3> QED  BY <2>1, <3>1, <3>2
  <2>2. CASE h + 1 # PcntMod
    <3>1. h + 1 \in 0..PcntMod - 1
      BY <2>2
    <3> QED  BY <2>2, <3>1, Remainders
  <2> QED  BY <2>1, <2>2
<1>3. n + 1 \in 0..PcntMod - 1
  BY <1>1
<1> HIDE DEF n, g
<1>4. g - l = n + 1 \/ g - l = (n + 1) - PcntMod
  BY <1>1, <1>2, <1>3
<1>5. (n + 1) % PcntMod = n + 1 /\ ((n + 1) - PcntMod) % PcntMod = n + 1
  <2> DEFINE y == n + 1
  <2> HIDE DEF y
  <2>1. y \in 0..PcntMod - 1
    BY <1>3 DEF y
  <2>2. y % PcntMod = y /\ (y - PcntMod) % PcntMod = y
    BY <2>1, Remainders
  <2> QED  BY <2>2 DEF y
<1>6. (g - l) % PcntMod = n + 1
  BY ONLY <1>4, <1>5
<1> QED  BY <1>6 DEF UnreadOf, n, g


\* An edge of an input is due when it comes.
LEMMA ScanEdgeKeeps ==
  ASSUME CounterInv, NEW d \in {-1, 1}, Counter!ScanEdge(d),
         UNCHANGED <<counter, counterJob, lastHw, poll, torn>>
  PROVE  CounterInv'
<1> USE DEF CounterInv, Counter!ScanEdge
<1> DEFINE c == counter
<1>1. /\ c \in Configs /\ c.mode \in {"sw", "encoder"} /\ pending + d \in -Burst..Burst
      /\ value \in 0..MaxValue /\ Burst \in Nat /\ (c.mode = "sw" => pending \in 0..Burst /\ d = 1)
      /\ pending \in -Burst..Burst
  BY CounterValues DEF CounterTypes, Counter!Scanned
<1>2. CounterTypes'
  BY <1>1 DEF CounterTypes, PollTypes
<1>3. ~Storing /\ poll.at = "idle" /\ (PollSums /\ Due' => CounterInv')
  BY <1>1, <1>2 DEF CounterTypes, PollTypes, Storing, PollSums
<1>4. due' = OneEdgeOf(c, due, d)
  BY SameOperators
<1>5. CASE torn
  BY <1>2, <1>5
<1>6. CASE ~torn /\ c.mode = "sw"
  <2>1. due = Runs(c)[pending][value] /\ pending \in 0..Burst /\ pending < Burst /\ pending' = pending + 1
    BY <1>1, <1>3, <1>6 DEF Due, DeliveredOf
  <2>2. due \in 0..MaxValue /\ Runs(c)[pending + 1][value] = EdgeOf(c, due)
    BY <1>1, <1>6, <2>1, RunsFacts
  <2>3. due' = EdgeOf(c, due)
    BY <1>1, <1>4, <1>6, <2>2, EdgeFacts DEF OneEdgeOf
  <2>4. Due'
    BY <1>6, <2>1, <2>2, <2>3 DEF Due, DeliveredOf
  <2> QED  BY <1>3, <1>6, <2>4
<1>7. CASE ~torn /\ c.mode = "encoder"
  <2>1. due = TurnedOf(c, value, pending) /\ due' = TurnedOf(c, due, d)
    BY <1>3, <1>4, <1>7 DEF Due, DeliveredOf, OneEdgeOf
  <2>2. TurnedOf(c, value, pending + d) = due'
    BY <1>1, <2>1, TurnedFacts
  <2>3. Due'
    BY <1>7, <2>2 DEF Due, DeliveredOf
  <2> QED  BY <1>3, <1>7, <2>3
<1> QED  BY <1>1, <1>5, <1>6, <1>7

LEMMA InterruptKeeps ==
  ASSUME CounterInv, Counter!Interrupt, UNCHANGED <<counter, counterJob, lastHw, poll, torn>>
  PROVE  CounterInv'
<1> USE DEF CounterInv, Counter!Interrupt
<1> DEFINE c == counter
           v == value
<1>0. /\ c \in Configs /\ c.mode = "isr" /\ value' = EdgeOf(c, v) /\ due' = WrapOf(c, EdgeOf(c, due))
      /\ MaxValue \in Nat /\ Burst \in Nat /\ c.start \in 0..MaxValue /\ Burst + c.start <= MaxValue + 1
      /\ v \in Nat /\ v < MaxValue + Burst
  BY SameOperators, CounterValues DEF OneEdgeOf, CounterTypes
<1>1. CounterTypes'
  <2>1. value' \in Nat /\ (value' <= MaxValue \/ (c.up /\ value' <= MaxValue + Burst))
    <3>1. CASE ~c.up
      BY <1>0, <3>1, CounterValues, EdgeFacts
    <3>2. CASE c.up
      BY <1>0, <3>2 DEF EdgeOf
    <3> QED  BY <3>1, <3>2
  <2> QED  BY <1>0, <2>1 DEF CounterTypes, PollTypes
<1>2. ~Storing /\ poll.at = "idle" /\ (Due' => CounterInv')
  BY <1>0, <1>1 DEF CounterTypes, PollTypes, Storing, PollSums
<1>3. CASE torn
  BY <1>1, <1>3
<1>4. ASSUME ~torn  PROVE Due'
  <2>1. due = WrapOf(c, v)
    BY <1>0, <1>2, <1>4 DEF Due, DeliveredOf
  <2>2. due' = WrapOf(c, value')
    <3>1. CASE ~c.up
      <4>1. v \in 0..MaxValue
        BY <1>0, <3>1, CounterValues
      <4>2. due = v
        BY <1>0, <2>1, <4>1, WrapFacts
      <4> QED  BY <1>0, <4>2
    <3>2. CASE c.up
      <4>1. value' = v + 1 /\ due' = WrapOf(c, due + 1)
        BY <1>0, <3>2 DEF EdgeOf
      <4>2. CASE v <= MaxValue
        <5>1. due = v
          BY <1>0, <2>1, <4>2, WrapFacts
        <5> QED  BY <4>1, <5>1
      <4>3. CASE ~(v <= MaxValue)
        <5>1. v > MaxValue /\ v - MaxValue < Burst + 1 /\ v + 1 > MaxValue
              /\ (v + 1) - MaxValue < Burst + 1 /\ v + 1 \in Nat
          BY <1>0, <4>3
        <5>2. /\ due = c.start + (v - MaxValue - 1)
              /\ WrapOf(c, v + 1) = c.start + ((v + 1) - MaxValue - 1)
          BY <1>0, <2>1, <5>1, WrapFacts
        <5>3. due + 1 \in Nat /\ due + 1 <= MaxValue /\ WrapOf(c, v + 1) = due + 1
          BY <1>0, <5>1, <5>2
        <5>4. WrapOf(c, due + 1) = due + 1
          BY <1>0, <5>3, WrapFacts
        <5> QED  BY <4>1, <5>3, <5>4
      <4> QED  BY <4>2, <4>3
    <3> QED  BY <1>0, <3>1, <3>2, CounterValues DEF CounterTypes
  <2> QED  BY <1>0, <2>2 DEF Due, DeliveredOf
<1> QED  BY <1>2, <1>3, <1>4

LEMMA PulseKeeps ==
  ASSUME CounterInv, Counter!Pulse, UNCHANGED <<counter, counterJob, lastHw, poll, torn>>
  PROVE  CounterInv'
<1> USE DEF CounterInv, Counter!Pulse
<1> DEFINE c == counter
           n == UnreadOf(hw, lastHw)
           w == WrapOf(c, value)
<1>1. /\ c \in Configs /\ c.mode = "pcnt" /\ hw \in 0..PcntMod - 1 /\ lastHw \in 0..PcntMod - 1
      /\ poll.seen \in 0..PcntMod - 1
      /\ w \in 0..MaxValue /\ PcntMod \in Nat \ {0} /\ Burst \in Nat /\ 2 * Burst < PcntMod
      /\ n \in 0..PcntMod - 1 /\ n < Burst
  BY CounterValues DEF CounterTypes, PollTypes, UnreadOf, Counter!Unread
<1>2. hw' \in 0..PcntMod - 1 /\ UNCHANGED <<value, pending>>
  <2>1. hw + 1 \in Int
    BY <1>1
  <2> QED  BY <1>1, <2>1, Remainders
<1>3. CounterTypes'
  BY <1>1, <1>2 DEF CounterTypes, PollTypes
<1>4. UnreadOf(hw', lastHw') = n + 1
  <2>1. n < PcntMod - 1
    BY <1>1
  <2> QED  BY <1>1, <2>1, UnreadMore
<1>5. CASE torn \/ Storing
  BY <1>3, <1>5 DEF Storing
<1>6. CASE ~(torn \/ Storing)
  <2> DEFINE k == UnreadOf(hw, poll.seen)
             m == UnreadOf(poll.seen, lastHw)
             u == Undelivered
  <2> HIDE DEF n, w
  <2>0. k \in 0..PcntMod - 1 /\ m \in 0..PcntMod - 1
    BY <1>1, CounterValues
  <2>1. due = PolledOf(c, w, u) /\ due' = PolledOf(c, due, 1)
    BY <1>1, <1>6, SameOperators DEF Due, DeliveredOf, OneEdgeOf, w
  <2>2. ASSUME poll.at \in {"add", "store", "note"}
        PROVE  UnreadOf(hw', poll.seen) = k + 1 /\ k + m = n /\ k < Burst
    <3>1. n = k + m
      BY <1>6, <2>2 DEF PollSums, Parted, n
    <3> HIDE DEF k, m
    <3>2. k < Burst /\ k < PcntMod - 1
      BY <1>1, <2>0, <3>1
    <3> QED  BY <1>1, <3>1, <3>2, UnreadMore DEF k
  <2>3. PollSums'
    <3>1. poll.at \in {"add", "store", "note"} => Parted'
      <4> SUFFICES ASSUME poll.at \in {"add", "store", "note"}  PROVE Parted'
        OBVIOUS
      <4>1. UnreadOf(hw', poll.seen) = k + 1 /\ k + m = n
        BY <2>2
      <4> HIDE DEF k, m
      <4>2. n + 1 = (k + 1) + m /\ n + 1 <= Burst
        BY <1>1, <2>0, <4>1
      <4> QED  BY <1>4, <4>1, <4>2 DEF Parted, m
    <3> QED  BY <1>2, <1>6, <3>1 DEF PollSums
  <2>4. Undelivered' = u + 1 /\ u \in Nat /\ u + 1 <= Burst
    <3>1. CASE poll.at = "note"
      <4>1. u = k /\ Undelivered' = UnreadOf(hw', poll.seen)
        BY <3>1 DEF Undelivered
      <4> HIDE DEF u, k, m
      <4> QED  BY <1>1, <2>0, <2>2, <3>1, <4>1
    <3>2. CASE poll.at # "note"
      <4>1. u = n /\ Undelivered' = UnreadOf(hw', lastHw')
        BY <3>2 DEF Undelivered, n
      <4> HIDE DEF u
      <4> QED  BY <1>1, <1>4, <4>1
    <3> QED  BY <3>1, <3>2
  <2> HIDE DEF u
  <2>5. PolledOf(c, w, u + 1) = PolledOf(c, PolledOf(c, w, u), 1)
    BY <1>1, <2>4, PolledTwice
  <2>6. Due'
    BY <1>1, <1>2, <2>1, <2>4, <2>5 DEF Due, DeliveredOf, w
  <2> QED  BY <1>3, <2>3, <2>6
<1> QED  BY <1>5, <1>6

\* The steps of a poll leave the configuration, the pulses and the resets alone.
PollBeside == UNCHANGED <<counter, pending, hw, counterJob, due, torn>>
LEMMA PollBesides == Counter!Poll => PollBeside
BY DEF Counter!Poll, PollBeside, Counter!scan, Counter!pass, Counter!ghosts

\* It looks, reads the pulse counter and adds.
LEMMA PollReadsKeep ==
  ASSUME CounterInv, PollBeside, Counter!PollLooks \/ Counter!PollReads \/ Counter!PollAdds
  PROVE  CounterInv'
<1> DEFINE c == counter
           m == UnreadOf(poll.seen, lastHw)
<1>0. /\ UNCHANGED <<counter, pending, hw, counterJob, due, torn, value, lastHw>>
      /\ poll = [at |-> poll.at, seen |-> poll.seen, sum |-> poll.sum, past |-> poll.past]
  BY DEF PollBeside, Counter!PollLooks, Counter!PollReads, Counter!PollAdds, CounterInv, CounterTypes,
         PollTypes
<1>1. /\ c \in Configs /\ hw \in 0..PcntMod - 1 /\ lastHw \in 0..PcntMod - 1 /\ value \in Nat
      /\ poll.seen \in 0..PcntMod - 1 /\ PcntMod \in Nat \ {0} /\ 0 \in 0..PcntMod - 1
      /\ UnreadOf(hw, lastHw) \in 0..PcntMod - 1 /\ m \in 0..PcntMod - 1
      /\ \A h \in Int : UnreadOf(h, h) = 0
  <2>1. /\ c \in Configs /\ hw \in 0..PcntMod - 1 /\ lastHw \in 0..PcntMod - 1 /\ value \in Nat
        /\ poll.seen \in 0..PcntMod - 1
    BY DEF CounterInv, CounterTypes, PollTypes
  <2>2. /\ PcntMod \in Nat \ {0} /\ counter.start \in 0..MaxValue
        /\ \A h, l \in 0..PcntMod - 1 : UnreadOf(h, l) \in 0..PcntMod - 1
    BY CounterValues DEF CounterInv
  <2>3. \A h \in Int : UnreadOf(h, h) = 0
    BY <2>1, <2>2, NothingWaits
  <2>4. UnreadOf(hw, lastHw) \in 0..PcntMod - 1 /\ m \in 0..PcntMod - 1
    BY <2>1, <2>2
  <2>5. 0 \in 0..PcntMod - 1
    BY <2>2
  <2> HIDE DEF c, m
  <2> QED  BY <2>1, <2>2, <2>3, <2>4, <2>5
<1> USE DEF PollSteps
<1>2. CASE Counter!PollLooks
  <2>1. c.mode = "pcnt" /\ poll.at = "idle"
        /\ poll' = [at |-> "read", seen |-> poll.seen, sum |-> poll.sum, past |-> poll.past]
    BY <1>0, <1>2 DEF Counter!PollLooks, Counter!Resting
  <2>2. CounterTypes'
    BY <1>0, <2>1 DEF CounterInv, CounterTypes, PollTypes
  <2>3. Due => Due'
    BY <1>0, <2>1 DEF Due, Undelivered
  <2>4. PollSums => PollSums'
    BY <1>0, <2>1 DEF PollSums
  <2> QED  BY <1>0, <2>2, <2>3, <2>4 DEF CounterInv, Storing
<1>3. CASE Counter!PollReads
  <2>1. poll.at = "read"
        /\ poll' = [at |-> "add", seen |-> hw, sum |-> poll.sum, past |-> poll.past]
    BY <1>0, <1>3 DEF Counter!PollReads
  <2>2. CounterTypes'
    BY <1>0, <1>1, <2>1 DEF CounterInv, CounterTypes, PollTypes
  <2>3. Due => Due'
    BY <1>0, <2>1 DEF Due, Undelivered
  <2>4. Parted'
    <3>1. UnreadOf(hw, hw) = 0 /\ UnreadOf(hw, lastHw) = 0 + UnreadOf(hw, lastHw)
      BY <1>1
    <3> QED  BY <1>0, <2>1, <3>1 DEF Parted
  <2>5. PollSums => PollSums'
    BY <1>0, <2>1, <2>4 DEF PollSums
  <2> QED  BY <1>0, <2>2, <2>3, <2>5 DEF CounterInv, Storing
<1>4. CASE Counter!PollAdds /\ poll.seen = lastHw
  <2>1. poll.at = "add" /\ poll' = [at |-> "wrap", seen |-> 0, sum |-> 0, past |-> FALSE]
    BY <1>4 DEF Counter!PollAdds, Counter!Resting
  <2>2. CounterTypes'
    BY <1>0, <1>1, <2>1 DEF CounterInv, CounterTypes, PollTypes
  <2>3. Due => Due'
    BY <1>0, <2>1 DEF Due, Undelivered
  <2>4. PollSums'
    BY <2>1 DEF PollSums
  <2> QED  BY <1>0, <2>2, <2>3, <2>4 DEF CounterInv, Storing
<1>5. CASE Counter!PollAdds /\ poll.seen # lastHw
  <2>1. /\ poll.at = "add" /\ poll'.at = "store" /\ poll'.seen = poll.seen
        /\ poll'.sum = SummedOf(c, value, m)
        /\ poll' = [at |-> poll'.at, seen |-> poll'.seen, sum |-> poll'.sum, past |-> poll'.past]
    BY <1>0, <1>5, SameOperators DEF Counter!PollAdds, UnreadOf
  <2>2. poll'.sum \in Nat
    <3> HIDE DEF m
    <3>1. m \in Nat /\ Big \in Nat \ {0} /\ c.start \in Nat
      BY <1>1, ConfigFacts
    <3>2. (c.start - (m - value)) % Big \in 0..Big - 1
      <4>1. c.start - (m - value) \in Int
        BY <1>1, <3>1
      <4> QED  BY <3>1, <4>1, Remainders
    <3> QED  BY <1>1, <2>1, <3>1, <3>2 DEF SummedOf
  <2>3. CounterTypes'
    BY <1>0, <1>1, <2>1, <2>2 DEF CounterInv, CounterTypes, PollTypes
  <2>4. Due => Due'
    BY <1>0, <2>1 DEF Due, Undelivered
  <2>5. PollSums => PollSums'
    BY <1>0, <2>1 DEF PollSums, Parted
  <2> QED  BY <1>0, <2>3, <2>4, <2>5 DEF CounterInv, Storing
<1> QED  BY <1>2, <1>3, <1>4, <1>5

\* It stores the sum: what it has read is delivered, noted or not.
LEMMA PollStoresKeep ==
  ASSUME CounterInv, PollBeside, Counter!PollStores
  PROVE  CounterInv'
<1> DEFINE c == counter
           n == UnreadOf(hw, lastHw)
           k == UnreadOf(hw, poll.seen)
           m == UnreadOf(poll.seen, lastHw)
<1>1. /\ UNCHANGED <<counter, pending, hw, counterJob, due, torn, lastHw>> /\ value' = poll.sum
      /\ poll.at = "store" /\ poll' = [at |-> "note", seen |-> poll.seen, sum |-> 0, past |-> FALSE]
  BY DEF PollBeside, Counter!PollStores, Counter!Resting
<1>2. /\ c \in Configs /\ c.mode = "pcnt" /\ hw \in 0..PcntMod - 1 /\ lastHw \in 0..PcntMod - 1
      /\ poll.seen \in 0..PcntMod - 1 /\ poll.sum \in Nat /\ value \in Nat /\ MaxValue \in Nat
      /\ Burst \in Nat
  BY <1>1, CounterValues DEF CounterInv, CounterTypes, PollTypes
<1>3. n \in Nat /\ k \in Nat /\ m \in Nat
  <2>1. n \in 0..PcntMod - 1 /\ k \in 0..PcntMod - 1 /\ m \in 0..PcntMod - 1
    BY <1>2, CounterValues DEF CounterInv
  <2> QED  BY <2>1
<1>4. CounterTypes'
  BY <1>1, <1>2 DEF CounterInv, CounterTypes, PollTypes, PollSteps
<1>5. CASE torn \/ Storing
  BY <1>1, <1>4, <1>5 DEF CounterInv, Storing
<1>6. CASE ~(torn \/ Storing)
  <2>1. /\ value \in 0..MaxValue /\ n = k + m /\ (k = 0 \/ n <= Burst)
        /\ poll.sum = SummedOf(c, value, m) /\ due = DeliveredOf(c, value, pending, n)
    BY <1>1, <1>2, <1>6 DEF CounterInv, PollSums, Parted, Due, Undelivered
  <2>2. WrapOf(c, value) = value /\ due = PolledOf(c, value, n)
    <3>1. WrapOf(c, value) = value
      BY <1>2, <2>1, WrapFacts
    <3> QED  BY <1>2, <2>1, <3>1 DEF DeliveredOf
  <2> DEFINE s == PolledOf(c, value, m)
  <2>3. s = WrapOf(c, poll.sum) /\ s \in 0..MaxValue
    BY <1>2, <1>3, <2>1, PolledFacts DEF PolledOf
  <2> HIDE DEF n, k, m, s
  <2>4. PolledOf(c, value, n) = PolledOf(c, s, k)
    <3>1. CASE k = 0
      <4>1. n = m
        BY <1>3, <2>1, <3>1
      <4>2. PolledOf(c, s, 0) = s
        BY <1>2, <2>3, PolledFacts
      <4> QED  BY <3>1, <4>1, <4>2 DEF s
    <3>2. CASE n <= Burst
      <4>1. m + k = n
        BY <1>3, <2>1
      <4> QED  BY <1>2, <1>3, <2>1, <3>2, <4>1, PolledTwice DEF s
    <3> QED  BY <2>1, <3>1, <3>2
  <2>5. Due'
    <3>1. Undelivered' = k
      BY <1>1 DEF Undelivered, k
    <3> QED  BY <1>1, <1>2, <2>2, <2>3, <2>4, <3>1 DEF Due, DeliveredOf
  <2>6. PollSums'
    BY <1>1, <1>6 DEF CounterInv, PollSums, Parted
  <2> QED  BY <1>4, <2>5, <2>6 DEF CounterInv
<1> QED  BY <1>5, <1>6

\* It notes its reading, and looks for an overflow.
LEMMA PollEndsKeep ==
  ASSUME CounterInv, PollBeside, Counter!PollNotes \/ Counter!PollChecks \/ Counter!PollWraps
  PROVE  CounterInv'
<1> DEFINE c == counter
           w == WrapOf(c, value)
<1>0. UNCHANGED <<counter, pending, hw, counterJob, due, torn>>
  BY DEF PollBeside
<1>1. /\ c \in Configs /\ value \in Nat /\ MaxValue \in Nat /\ w \in 0..MaxValue /\ WrapOf(c, w) = w
      /\ poll.seen \in 0..PcntMod - 1 /\ poll.sum \in Nat /\ PcntMod \in Nat \ {0}
      /\ 0 \in 0..PcntMod - 1
      /\ poll = [at |-> poll.at, seen |-> poll.seen, sum |-> poll.sum, past |-> poll.past]
  <2>1. c \in Configs /\ value \in Nat /\ poll.seen \in 0..PcntMod - 1 /\ poll.sum \in Nat
        /\ poll = [at |-> poll.at, seen |-> poll.seen, sum |-> poll.sum, past |-> poll.past]
    BY DEF CounterInv, CounterTypes, PollTypes
  <2>2. MaxValue \in Nat /\ w \in 0..MaxValue /\ PcntMod \in Nat \ {0}
    BY CounterValues DEF CounterInv
  <2>3. WrapOf(c, w) = w
    <3> HIDE DEF w
    <3> QED  BY <2>1, <2>2, WrapFacts
  <2> QED  BY <2>1, <2>2, <2>3
<1> HIDE DEF w
<1> USE DEF PollSteps
<1>2. CASE Counter!PollNotes
  <2>1. /\ poll.at = "note" /\ poll' = [at |-> "wrap", seen |-> 0, sum |-> 0, past |-> FALSE]
        /\ lastHw' = poll.seen /\ value' = value
    BY <1>2 DEF Counter!PollNotes, Counter!Resting
  <2>2. CounterTypes'
    BY <1>0, <1>1, <2>1 DEF CounterInv, CounterTypes, PollTypes
  <2>3. Due => Due'
    BY <1>0, <2>1 DEF Due, Undelivered
  <2>4. PollSums'
    BY <2>1 DEF PollSums
  <2> QED  BY <1>0, <2>2, <2>3, <2>4 DEF CounterInv, Storing
<1>3. CASE Counter!PollChecks
  <2>1. /\ poll.at = "wrap" /\ lastHw' = lastHw /\ value' = value
        /\ \/ /\ value > MaxValue
              /\ poll' = [at |-> "over", seen |-> 0, sum |-> w, past |-> FALSE]
           \/ ~(value > MaxValue) /\ poll' = Counter!Resting
    BY <1>3, SameOperators DEF Counter!PollChecks, Counter!Resting, w
  <2>2. poll'.at \in {"idle", "over"} /\ (poll'.at = "idle" => value' <= MaxValue)
        /\ (poll'.at = "over" => poll'.sum = w)
    BY <1>1, <2>1 DEF Counter!Resting
  <2>3. CounterTypes'
    BY <1>0, <1>1, <2>1 DEF CounterInv, CounterTypes, PollTypes, Counter!Resting
  <2>4. Due => Due'
    BY <1>0, <2>1, <2>2 DEF Due, Undelivered
  <2>5. PollSums'
    BY <1>0, <2>1, <2>2 DEF PollSums, w
  <2> QED  BY <1>0, <2>3, <2>4, <2>5 DEF CounterInv, Storing
<1>4. CASE Counter!PollWraps
  <2>1. poll.at = "over" /\ poll' = Counter!Resting /\ poll'.at = "idle" /\ lastHw' = lastHw
        /\ value' = poll.sum
    BY <1>4 DEF Counter!PollWraps, Counter!Resting
  <2>2. CounterTypes'
    BY <1>0, <1>1, <2>1 DEF CounterInv, CounterTypes, PollTypes, Counter!Resting
  <2>3. PollSums => value' = w
    BY <2>1 DEF PollSums, w
  <2>4. Due /\ PollSums => Due'
    <3> SUFFICES ASSUME Due, PollSums  PROVE Due'
      OBVIOUS
    <3>1. c.mode = "pcnt"
      BY <2>1 DEF CounterInv, CounterTypes, PollTypes
    <3>2. Undelivered' = Undelivered
      BY <1>0, <2>1 DEF Undelivered
    <3> QED  BY <1>0, <1>1, <2>3, <3>1, <3>2 DEF Due, DeliveredOf, w
  <2>5. PollSums => PollSums'
    BY <1>0, <1>1, <2>1, <2>3 DEF PollSums
  <2> QED  BY <1>0, <2>2, <2>4, <2>5 DEF CounterInv, Storing
<1> QED  BY <1>2, <1>3, <1>4

\* What touches neither counts nor edges nor resets keeps the invariant.
Untouched == UNCHANGED <<counter, value, pending, hw, lastHw, poll, due, torn>>
LEMMA UntouchedKeeps ==
  ASSUME CounterInv, Untouched, counterJob' \in [Counter!CounterTasks -> CountSteps],
         \A t \in Counter!CounterTasks :
           counterJob'[t] \in {"idle", "control", "passEnd"} \/ counter.mode = "pcnt",
         \A t \in Counter!CounterTasks :
           counterJob[t] \in {"store", "passStore"} => counterJob'[t] = counterJob[t]
  PROVE  CounterInv'
<1>1. CounterTypes'
  BY DEF CounterInv, CounterTypes, PollTypes, Untouched
<1>2. (Due => Due') /\ (PollSums => PollSums') /\ torn' = torn
  BY DEF Due, PollSums, Parted, Undelivered, Untouched
<1>3. Storing => Storing'
  BY DEF Storing
<1> QED  BY <1>1, <1>2, <1>3 DEF CounterInv

\* A reset of the pulse counter, in its steps.
LEMMA ResetKeeps ==
  ASSUME CounterInv, NEW t \in Counter!CounterTasks, Counter!Reset(t)
  PROVE  CounterInv'
<1> DEFINE c == counter
<1>0. /\ c \in Configs /\ c.start \in 0..MaxValue /\ MaxValue \in Nat /\ PcntMod \in Nat \ {0}
      /\ 0 \in 0..PcntMod - 1 /\ hw \in 0..PcntMod - 1 /\ counterJob \in [Counter!CounterTasks -> CountSteps]
      /\ Burst \in Nat /\ 0 \in -Burst..Burst /\ 0 \in 0..Burst
      /\ \A s \in Counter!CounterTasks :
           counterJob[s] \in {"idle", "control", "passEnd"} \/ counter.mode = "pcnt"
  <2>1. \A s \in Counter!CounterTasks :
          counterJob[s] \in {"idle", "control", "passEnd"} \/ counter.mode = "pcnt"
    BY DEF CounterInv, CounterTypes
  <2>2. /\ c \in Configs /\ hw \in 0..PcntMod - 1
        /\ counterJob \in [Counter!CounterTasks -> CountSteps]
    BY DEF CounterInv, CounterTypes
  <2>3. /\ c.start \in 0..MaxValue /\ MaxValue \in Nat /\ PcntMod \in Nat \ {0} /\ Burst \in Nat
    BY <2>2, ConfigFacts
  <2> QED  BY <2>1, <2>2, <2>3
<1> USE DEF CountSteps
<1>1. CASE Counter!ResetAtOnce(t)
  <2> USE <1>1 DEF Counter!ResetAtOnce
  <2>1. /\ c.mode # "pcnt" /\ counter' = c /\ value' = c.start /\ due' = c.start /\ pending' = 0
        /\ hw' = hw /\ lastHw' = lastHw /\ counterJob' = counterJob /\ poll' = poll /\ torn' = FALSE
    BY DEF Counter!pulse, Counter!pass
  <2>2. CounterTypes'
    <3>1. c.start \in Nat /\ c.start <= MaxValue
      BY <1>0
    <3>2. PollTypes' /\ lastHw \in 0..PcntMod - 1
      BY <2>1 DEF CounterInv, CounterTypes, PollTypes
    <3> QED  BY <1>0, <2>1, <3>1, <3>2 DEF CounterTypes
  <2>3. DeliveredOf(c, c.start, 0, Undelivered) = DeliveredOf(c, c.start, 0, 0)
    BY <1>0, <2>1, ConfigFacts DEF DeliveredOf
  <2>4. Due'
    BY <1>0, <2>1, <2>3, NothingWaits DEF Due, Undelivered
  <2>5. PollSums'
    BY <2>1 DEF PollSums, CounterInv, CounterTypes, PollTypes
  <2> QED  BY <2>2, <2>4, <2>5 DEF CounterInv
<1>2. CASE Counter!ResetStarts(t)
  <2>1. /\ Untouched /\ c.mode = "pcnt" /\ counterJob[t] \in {"idle", "control"}
        /\ counterJob' \in [Counter!CounterTasks -> CountSteps]
        /\ \A s \in Counter!CounterTasks : s # t => counterJob'[s] = counterJob[s]
    BY <1>0, <1>2 DEF Counter!ResetStarts, Untouched, Counter!scan, Counter!ghosts
  <2> QED  BY <1>0, <2>1, UntouchedKeeps
<1>3. CASE Counter!ResetClears(t)
  <2>1. /\ counterJob[t] \in {"clear", "passClear"} /\ c.mode = "pcnt" /\ counter' = c /\ hw' = 0
        /\ counterJob'[t] \in {"store", "passStore"} /\ value' = value /\ pending' = pending
        /\ lastHw' = lastHw /\ counterJob' \in [Counter!CounterTasks -> CountSteps] /\ poll' = poll
        /\ torn' = torn
    BY <1>0, <1>3 DEF Counter!ResetClears, Counter!counts, Counter!scan, Counter!ghosts
  <2>2. CounterTypes'
    BY <1>0, <2>1 DEF CounterInv, CounterTypes, PollTypes
  <2>3. Storing'
    BY <2>1 DEF Storing
  <2> QED  BY <2>2, <2>3 DEF CounterInv
<1>4. CASE Counter!ResetStores(t)
  <2>1. /\ counterJob[t] \in {"store", "passStore"} /\ c.mode = "pcnt" /\ counter' = c /\ hw' = hw
        /\ value' = c.start /\ pending' = pending /\ lastHw' = 0
        /\ due' = PolledOf(c, c.start, hw) /\ counterJob' \in [Counter!CounterTasks -> CountSteps]
        /\ poll' = poll /\ torn' = (poll.at \in {"add", "store", "note", "over"})
    BY <1>0, <1>4, SameOperators DEF Counter!ResetStores, Counter!scan, Counter!Disturbed
  <2>2. CounterTypes'
    BY <1>0, <2>1 DEF CounterInv, CounterTypes, PollTypes
  <2>3. UnreadOf(hw, 0) = hw
    <3>1. hw - 0 = hw
      BY <1>0
    <3>2. hw % PcntMod = hw
      BY <1>0, Remainders
    <3> QED  BY <3>1, <3>2 DEF UnreadOf
  <2>4. ~torn' => Due' /\ PollSums'
    <3>1. WrapOf(c, c.start) = c.start
      BY <1>0, WrapFacts
    <3>2. poll.at # "note" => Undelivered' = hw
      BY <2>1, <2>3 DEF Undelivered
    <3> SUFFICES ASSUME ~torn'  PROVE Due' /\ PollSums'
      OBVIOUS
    <3>3. poll.at \notin {"add", "store", "note", "over"}
      BY <2>1
    <3>4. PollSums'
      BY <1>0, <2>1, <3>3 DEF PollSums
    <3>5. Due'
      <4>1. \A n : DeliveredOf(c, c.start, pending, n) = PolledOf(c, c.start, n)
        BY <2>1, <3>1 DEF DeliveredOf
      <4>2. Undelivered' = hw
        BY <3>2, <3>3
      <4> QED  BY <2>1, <4>1, <4>2 DEF Due
    <3> QED  BY <3>4, <3>5
  <2> QED  BY <2>2, <2>4 DEF CounterInv
<1>5. CASE Counter!ResetResumes(t)
  <2>1. /\ Untouched /\ counterJob[t] \in {"resume", "passResume"}
        /\ counterJob' \in [Counter!CounterTasks -> CountSteps] /\ counterJob'[t] \in {"idle", "passEnd"}
        /\ \A s \in Counter!CounterTasks : s # t => counterJob'[s] = counterJob[s]
    BY <1>0, <1>5 DEF Counter!ResetResumes, Untouched, Counter!scan
  <2> QED  BY <1>0, <2>1, UntouchedKeeps
<1> QED  BY <1>1, <1>2, <1>3, <1>4, <1>5 DEF Counter!Reset

\* The end of a pass of the loop: it collects what waits, or resets.
LEMMA PassEndKeeps ==
  ASSUME CounterInv, Counter!PassEnds
  PROVE  CounterInv'
<1> DEFINE c == counter
           go == "running" \in bits
           reset == "reset" \in bits /\ c.mode # "pcnt"
           collected == CASE c.mode = "sw"      -> IF go THEN Runs(c)[pending][value] ELSE value
                          [] c.mode = "encoder" -> IF go THEN TurnedOf(c, value, pending) ELSE value
                          [] c.mode = "isr"     -> IF c.up THEN WrapOf(c, value) ELSE value
                          [] OTHER              -> value
<1>0. /\ c \in Configs /\ c.start \in 0..MaxValue /\ MaxValue \in Nat /\ Burst \in Nat
      /\ 0 \in -Burst..Burst /\ 0 \in 0..Burst /\ c.mode \in {"sw", "encoder", "isr", "pcnt"}
      /\ value \in Nat /\ pending \in -Burst..Burst /\ (c.mode = "sw" => pending \in 0..Burst)
      /\ c.mode \in {"sw", "encoder"} \/ (c.mode = "isr" /\ ~c.up) => value \in 0..MaxValue
      /\ counterJob \in [Counter!CounterTasks -> CountSteps]
      /\ \A s \in Counter!CounterTasks :
           counterJob[s] \in {"idle", "control", "passEnd"} \/ counter.mode = "pcnt"
  <2>1. \A s \in Counter!CounterTasks :
          counterJob[s] \in {"idle", "control", "passEnd"} \/ counter.mode = "pcnt"
    BY DEF CounterInv, CounterTypes
  <2>2. /\ c \in Configs /\ counterJob \in [Counter!CounterTasks -> CountSteps]
        /\ value \in Nat /\ pending \in -Burst..Burst /\ (c.mode = "sw" => pending \in 0..Burst)
    BY DEF CounterInv, CounterTypes
  <2>3. c.mode \in {"sw", "encoder"} \/ (c.mode = "isr" /\ ~c.up) => value \in 0..MaxValue
    BY CounterValues DEF CounterInv
  <2>4. /\ c.start \in 0..MaxValue /\ MaxValue \in Nat /\ Burst \in Nat
        /\ c.mode \in {"sw", "encoder", "isr", "pcnt"}
    BY <2>2, ConfigFacts
  <2>5. 0 \in -Burst..Burst /\ 0 \in 0..Burst
    BY <2>4
  <2> HIDE DEF c
  <2> QED  BY <2>1, <2>2, <2>3, <2>4, <2>5
<1>1. collected = Counter!Collected(value, go)
  BY SameOperators DEF Counter!Collected
<1>2. /\ value' = IF reset THEN c.start ELSE collected
      /\ pending' = 0 /\ hw' = hw /\ lastHw' = lastHw /\ counter' = c
      /\ poll' = poll /\ poll = Counter!Resting
      /\ \/ /\ due' = IF reset THEN c.start
                     ELSE IF c.mode \in {"sw", "encoder"} /\ ~go THEN value ELSE due
            /\ torn' = (torn /\ ~reset)
         \/ c.mode = "isr" /\ torn' = TRUE
      /\ counterJob["loop"] \in {"passEnd", "control"}
      /\ counterJob' = [counterJob EXCEPT !["loop"] = "idle"]
  BY <1>1 DEF Counter!PassEnds, Counter!Scanned, Counter!MayRun
<1>3. collected \in Nat /\ (c.mode # "pcnt" => collected \in 0..MaxValue)
  <2>1. c.mode = "sw" => collected \in 0..MaxValue
    BY <1>0, RunsFacts
  <2>2. c.mode = "encoder" => collected \in 0..MaxValue
    BY <1>0, TurnedFacts
  <2>3. c.mode = "isr" => collected \in 0..MaxValue
    BY <1>0, WrapFacts
  <2>4. c.mode = "pcnt" => collected \in Nat
    BY <1>0
  <2> HIDE DEF collected
  <2> QED  BY <1>0, <2>1, <2>2, <2>3, <2>4
<1>4. value' \in Nat /\ (c.mode # "pcnt" => value' \in 0..MaxValue)
  <2> HIDE DEF collected
  <2> QED  BY <1>0, <1>2, <1>3
<1>5. /\ counterJob' \in [Counter!CounterTasks -> CountSteps]
      /\ \A s \in Counter!CounterTasks :
           counterJob'[s] \in {"idle", "control", "passEnd"} \/ counter.mode = "pcnt"
  BY <1>0, <1>2 DEF CountSteps
<1>6. CounterTypes'
  <2>1. torn' \in BOOLEAN
    BY <1>2 DEF CounterInv, CounterTypes
  <2> HIDE DEF collected, reset
  <2> QED  BY <1>0, <1>2, <1>4, <1>5, <2>1 DEF CounterInv, CounterTypes, PollTypes
<1>7. CASE c.mode = "pcnt"
  <2>1. value' = value /\ due' = due /\ torn' = torn /\ Undelivered' = Undelivered
    <3>1. ~reset /\ collected = value
      BY <1>7
    <3>2. torn \in BOOLEAN
      BY DEF CounterInv, CounterTypes
    <3> HIDE DEF reset, collected
    <3> QED  BY <1>2, <1>7, <3>1, <3>2 DEF Undelivered
  <2>2. (Due => Due') /\ (PollSums => PollSums')
    BY <1>2, <1>7, <2>1 DEF Due, DeliveredOf, PollSums, Counter!Resting
  <2>3. Storing => Storing'
    BY <1>0, <1>2 DEF Storing, Counter!CounterTasks
  <2> QED  BY <1>6, <2>1, <2>2, <2>3 DEF CounterInv
<1>8. CASE c.mode # "pcnt"
  <2>1. DeliveredOf(c, value', 0, Undelivered') = value'
    <3>1. DeliveredOf(c, value', 0, Undelivered') = DeliveredOf(c, value', 0, 0)
      BY <1>0, <1>8 DEF DeliveredOf
    <3> QED  BY <1>0, <1>4, <1>8, <3>1, NothingWaits
  <2>2. PollSums'
    BY <1>2, <1>8 DEF PollSums, Counter!Resting
  <2>3. ~Storing
    BY <1>0, <1>8 DEF Storing
  <2>4. ~torn' => due' = value'
    <3> SUFFICES ASSUME ~torn'  PROVE due' = value'
      OBVIOUS
    <3>1. CASE reset
      BY <1>2, <3>1
    <3>2. CASE ~reset /\ c.mode \in {"sw", "encoder"} /\ ~go
      <4>1. collected = value
        BY <3>2
      <4> HIDE DEF collected, reset, go
      <4> QED  BY <1>2, <3>2, <4>1
    <3>3. CASE ~reset /\ ~(c.mode \in {"sw", "encoder"} /\ ~go)
      <4>1. value' = collected /\ due' = due /\ ~torn
        <5> HIDE DEF collected, reset, go
        <5> QED  BY <1>2, <3>3
      <4>2. due = DeliveredOf(c, value, pending, Undelivered)
        BY <2>3, <4>1 DEF CounterInv, Due
      <4>3. c.mode = "isr" /\ ~c.up => WrapOf(c, value) = value
        BY <1>0, WrapFacts
      <4>4. collected = DeliveredOf(c, value, pending, Undelivered)
        BY <1>0, <1>8, <3>3, <4>3 DEF DeliveredOf
      <4> QED  BY <4>1, <4>2, <4>4
    <3> QED  BY <3>1, <3>2, <3>3
  <2>5. ~torn' => Due'
    BY <1>2, <2>1, <2>4 DEF Due
  <2> QED  BY <1>6, <2>2, <2>5 DEF CounterInv
<1> QED  BY <1>7, <1>8

LEMMA CounterNext ==
  ASSUME CounterInv, Counter!Next \/ UNCHANGED counterVars
  PROVE  CounterInv'
<1>0. /\ counterJob \in [Counter!CounterTasks -> CountSteps]
      /\ \A t \in Counter!CounterTasks :
           counterJob[t] \in {"idle", "control", "passEnd"} \/ counter.mode = "pcnt"
  BY DEF CounterInv, CounterTypes
<1>1. CASE Counter!Input
  <2>1. UNCHANGED <<counter, counterJob, lastHw, poll, torn>>
    BY <1>1 DEF Counter!Input, Counter!pass
  <2> QED  BY <1>1, <2>1, ScanEdgeKeeps, InterruptKeeps, PulseKeeps DEF Counter!Input
<1>2. CASE Counter!Poll
  <2>1. PollBeside
    BY <1>2, PollBesides
  <2>2. \/ Counter!PollLooks \/ Counter!PollReads \/ Counter!PollAdds \/ Counter!PollStores
        \/ Counter!PollNotes \/ Counter!PollChecks \/ Counter!PollWraps
    BY <1>2 DEF Counter!Poll
  <2> QED  BY <2>1, <2>2, PollReadsKeep, PollStoresKeep, PollEndsKeep
<1>3. CASE Counter!PassBegins
  <2>1. /\ Untouched /\ counterJob["loop"] = "idle"
        /\ counterJob' = [counterJob EXCEPT !["loop"] = IF counter.on THEN "control" ELSE "idle"]
    BY <1>3 DEF Counter!PassBegins, Untouched, Counter!counts, Counter!scan, Counter!pulse
  <2>2. /\ counterJob' \in [Counter!CounterTasks -> CountSteps]
        /\ \A t \in Counter!CounterTasks :
             counterJob'[t] \in {"idle", "control", "passEnd"} \/ counter.mode = "pcnt"
        /\ \A t \in Counter!CounterTasks :
             counterJob[t] \in {"store", "passStore"} => counterJob'[t] = counterJob[t]
    BY <1>0, <2>1 DEF CountSteps
  <2> QED  BY <2>1, <2>2, UntouchedKeeps
<1>4. CASE Counter!PassEnds  BY <1>4, PassEndKeeps
<1>5. CASE Counter!AlarmRead \/ \E t \in Counter!CounterTasks : Counter!Control(t)
  <2>1. Untouched /\ counterJob' = counterJob
    BY <1>5 DEF Counter!AlarmRead, Counter!Control, Untouched, Counter!counts, Counter!scan,
                Counter!pulse, Counter!pass, Counter!ghosts
  <2> QED  BY <1>0, <2>1, UntouchedKeeps
<1>6. CASE \E t \in Counter!CounterTasks : Counter!Reset(t)  BY <1>6, ResetKeeps
<1>7. ASSUME NEW c \in Configs, Counter!Configure(c)  PROVE CounterInv'
  <2>1. /\ counter' = c /\ value' = c.start /\ pending' = 0 /\ hw' = 0 /\ lastHw' = 0 /\ due' = c.start
        /\ poll' = poll /\ poll = Counter!Resting /\ torn' = FALSE
        /\ counterJob' = counterJob /\ \A t \in Counter!CounterTasks : counterJob[t] = "idle"
    BY <1>7 DEF Counter!Configure, Counter!Idle, Counter!pass
  <2>2. /\ c.start \in 0..MaxValue /\ MaxValue \in Nat /\ Burst \in Nat /\ 0 \in -Burst..Burst
        /\ 0 \in 0..Burst /\ 0 \in 0..PcntMod - 1
    BY ConfigFacts
  <2>3. CounterTypes'
    <3>1. PollTypes'
      BY <2>1 DEF CounterInv, CounterTypes, PollTypes, Counter!Resting
    <3>2. c.start \in Nat /\ c.start <= MaxValue
      BY <2>2
    <3> QED  BY <1>0, <2>1, <2>2, <3>1, <3>2 DEF CounterTypes
  <2>4. Due' /\ PollSums'
    BY <2>1, <2>2, NothingWaits DEF Due, Undelivered, PollSums, Counter!Resting
  <2> QED  BY <2>3, <2>4 DEF CounterInv
<1>8. CASE UNCHANGED counterVars
  <2>1. Untouched /\ counterJob' = counterJob
    BY <1>8 DEF counterVars, Untouched
  <2> QED  BY <1>0, <2>1, UntouchedKeeps
<1> QED  BY <1>1, <1>2, <1>3, <1>4, <1>5, <1>6, <1>7, <1>8 DEF Counter!Next

\* For counters of every sort the count, with what still waits to be collected,
\* is what the edges since the last reset amount to (counter_sw.cpp,
\* counter_sw_isr.cpp, counter_hw.cpp), for every range, start value and burst
\* with which a burst passes the end of the range at most once, and wherever a
\* poll of the pulse counter and the steps of a reset meet; but for what is
\* torn: a reset that stores while a poll holds a reading, and an interrupt that
\* meets the wrap of the loop.
THEOREM EveryEdgeIsCounted == Spec => []EveryEdgeOnce
<1>1. Init => CounterInv
  <2> SUFFICES ASSUME Init  PROVE CounterInv
    OBVIOUS
  <2>1. Counter!Init
    BY DEF Init
  <2>2. /\ counter \in Configs /\ value = counter.start /\ pending = 0 /\ hw = 0 /\ lastHw = 0
        /\ due = counter.start /\ poll = Counter!Resting /\ torn = FALSE
        /\ counterJob = [t \in Counter!CounterTasks |-> "idle"]
    BY <2>1 DEF Counter!Init
  <2>3. /\ counter.start \in 0..MaxValue /\ MaxValue \in Nat /\ Burst \in Nat /\ 0 \in -Burst..Burst
        /\ 0 \in 0..Burst /\ 0 \in 0..PcntMod - 1
    BY <2>2, ConfigFacts
  <2>4. CounterTypes
    <3>1. PollTypes
      BY <2>2, <2>3 DEF PollTypes, PollSteps, Counter!Resting
    <3>2. counter.start \in Nat /\ counter.start <= MaxValue
      BY <2>3
    <3> QED  BY <2>2, <2>3, <3>1, <3>2 DEF CounterTypes, CountSteps
  <2>5. Due /\ PollSums
    BY <2>2, <2>3, NothingWaits DEF Due, Undelivered, PollSums, Counter!Resting
  <2> QED  BY <2>4, <2>5 DEF CounterInv
<1>2. CounterInv /\ [Next]_vars => CounterInv'
  BY DeviceSteps, CounterNext
<1>3. CounterInv => EveryEdgeOnce
  <2> SUFFICES ASSUME CounterInv, ~Storing, ~torn  PROVE EveryEdgeOnce
    BY DEF EveryEdgeOnce, Counter!EveryEdgeOnce, Counter!Resetting, Storing
  <2>1. due = Counter!Delivered
    BY SameOperators DEF CounterInv, Due
  <2> QED  BY <2>1 DEF EveryEdgeOnce, Counter!EveryEdgeOnce
<1> QED  BY <1>1, <1>2, <1>3, PTL DEF Spec

-----------------------------------------------------------------------------
\* The types of what the workers change, named so that a leaf need not open them.
Readings == {NoItem} \cup Rooms!Items \X Values
Stands == [at : Rooms!Ats, reg : Int, watched : SUBSET Rooms!Items, todo : SUBSET Rooms!Items,
           val : Readings]
Marks == [active : BOOLEAN, leave : BOOLEAN]
WorkerTypes ==
  /\ count \in Int /\ worker \in [Rooms!Slots -> Stands]
  /\ queue \in [Rooms!Slots -> (SUBSET Rooms!Items) \cup {NoItem}]
  /\ slots \in [Rooms!Slots -> Marks]
TaskTypes ==
  /\ stored \in Limits /\ workers \subseteq Rooms!Slots /\ asking \subseteq Rooms!Slots
  /\ acceptor \in [at : {"listen", "admitted", "registered", "accepted", "cooldown"},
                   slot : Rooms!Slots, watched : SUBSET Rooms!Items]
  /\ cell \in [Rooms!Items -> Values]

LEMMA TypesInTwo == Rooms!TypeOK <=> WorkerTypes /\ TaskTypes
BY DEF Rooms!TypeOK, WorkerTypes, TaskTypes, Readings, Stands, Marks

LEMMA WorkTypes ==
  ASSUME WorkerTypes, TaskTypes, NEW s \in Rooms!Slots, Rooms!Work(s)
  PROVE  WorkerTypes'
<1> USE DEF WorkerTypes, Rooms!Goes, Rooms!Ats
<1>1. worker[s] \in Stands /\ Rooms!Idle \in Stands
  BY DEF Rooms!Idle, Stands, Readings
<1>2. CASE Rooms!Take(s)
  <2>1. queue[s] \in SUBSET Rooms!Items  BY <1>2 DEF Rooms!Take
  <2> QED  BY <1>1, <1>2, <2>1 DEF Rooms!Take, Stands
<1>3. CASE Rooms!Load(s)  BY <1>3 DEF Rooms!Load, Stands
<1>4. CASE Rooms!Store(s)
  <2>1. worker[s].reg \in Int  BY <1>1 DEF Stands
  <2>2. CASE worker[s].at = "store"  BY <1>4, <2>1, <2>2 DEF Rooms!Store, Stands
  <2>3. CASE worker[s].at = "downstore"  BY <1>1, <1>4, <2>1, <2>3 DEF Rooms!Store
  <2> QED  BY <1>4, <2>2, <2>3 DEF Rooms!Store
<1>5. CASE Rooms!Hello(s)  BY <1>5 DEF Rooms!Hello, Stands
<1>6. CASE Rooms!Snapshot(s)
  <2>1. CASE worker' = [worker EXCEPT ![s].at = "wait"]  BY <1>6, <2>1 DEF Rooms!Snapshot, Stands
  <2>2. CASE worker' = [worker EXCEPT ![s].at = "remove"]  BY <1>6, <2>2 DEF Rooms!Snapshot, Stands
  <2> QED  BY <1>6, <2>1, <2>2 DEF Rooms!Snapshot
<1>7. CASE Rooms!Wake(s)
  <2>1. CASE slots[s].leave  BY <1>7, <2>1 DEF Rooms!Wake, Stands
  <2>2. CASE ~slots[s].leave  BY <1>1, <1>7, <2>2 DEF Rooms!Wake, Stands
  <2> QED  BY <2>1, <2>2
<1>8. CASE Rooms!Look(s)
  <2> PICK i \in worker[s].todo :
        IF cell[i] \in {compared[s][i], NoEntry}
        THEN worker' = [worker EXCEPT ![s].todo = @ \ {i}]
        ELSE worker' = [worker EXCEPT ![s].at = "send", ![s].val = <<i, cell[i]>>]
    BY <1>8 DEF Rooms!Look
  <2>1. <<i, cell[i]>> \in Readings
    BY <1>1 DEF TaskTypes, Stands, Readings
  <2> QED  BY <1>1, <1>8, <2>1 DEF Rooms!Look, Stands
<1>9. CASE Rooms!Send(s)
  <2>1. CASE Rooms!Goes(s, "remove")  BY <1>9, <2>1 DEF Rooms!Send, Stands
  <2>2. CASE ~Rooms!Goes(s, "remove")
    <3>1. PICK i \in {worker[s].val[1]} :
            worker' = [worker EXCEPT ![s].at = "scan", ![s].todo = @ \ {i}, ![s].val = NoItem]
      BY <1>9, <2>2 DEF Rooms!Send
    <3> QED  BY <1>1, <1>9, <3>1 DEF Rooms!Send, Stands, Readings
  <2> QED  BY <2>1, <2>2
<1>10. CASE Rooms!PassEnds(s)
  <2>1. CASE worker' = [worker EXCEPT ![s].at = "wait"]  BY <1>10, <2>1 DEF Rooms!PassEnds, Stands
  <2>2. CASE worker' = [worker EXCEPT ![s].at = "remove"]  BY <1>10, <2>2 DEF Rooms!PassEnds, Stands
  <2> QED  BY <1>10, <2>1, <2>2 DEF Rooms!PassEnds
<1>11. CASE Rooms!Remove(s)
  <2>1. /\ [Rooms!Idle EXCEPT !.at = "left"] \in Stands
        /\ Rooms!NoSlot \in Marks
    BY <1>1 DEF Stands, Marks, Rooms!NoSlot
  <2> QED  BY <1>11, <2>1 DEF Rooms!Remove
<1>12. CASE Rooms!Left(s)  BY <1>12 DEF Rooms!Left, Stands
<1> QED  BY <1>2, <1>3, <1>4, <1>5, <1>6, <1>7, <1>8, <1>9, <1>10, <1>11, <1>12 DEF Rooms!Work

LEMMA TaskTypesKeep ==
  ASSUME WorkerTypes, TaskTypes, Rooms!Next \/ UNCHANGED sseVars
  PROVE  WorkerTypes' /\ TaskTypes'
<1> USE DeviceAssumption DEF Rooms!SseAssumption, WorkerTypes, TaskTypes
<1>1. Rooms!Listening.slot \in Rooms!Slots /\ Rooms!NoSlot \in Marks
  BY DEF Rooms!Listening, Rooms!Slots, Rooms!NoSlot, Marks
<1>2. CASE Rooms!Admit
  <2>1. PICK q \in Queries : acceptor' = [acceptor EXCEPT !.at = "admitted", !.watched = Rooms!Watched(q)]
    BY <1>2 DEF Rooms!Admit
  <2>2. Rooms!Watched(q) \subseteq Rooms!Items
    BY DEF Rooms!Watched, Rooms!Items
  <2>3. acceptor' \in [at : {"listen", "admitted", "registered", "accepted", "cooldown"},
                      slot : Rooms!Slots, watched : SUBSET Rooms!Items]
    BY <2>1, <2>2
  <2> QED  BY <1>2, <2>3 DEF Rooms!Admit
<1>3. CASE Rooms!Register
  <2>1. CASE acceptor' = Rooms!Listening /\ UNCHANGED <<slots, workers>>
    BY <1>1, <1>3, <2>1 DEF Rooms!Register, Rooms!Listening
  <2>2. ASSUME NEW s \in Rooms!Slots, acceptor' = Rooms!Listening, UNCHANGED workers,
               slots' = [slots EXCEPT ![s] = Rooms!NoSlot]
        PROVE  WorkerTypes' /\ TaskTypes'
    BY <1>1, <1>3, <2>2 DEF Rooms!Register, Rooms!Listening
  <2>3. ASSUME NEW s \in Rooms!Slots, workers' = workers \cup {s},
               slots' = [slots EXCEPT ![s] = [active |-> TRUE, leave |-> FALSE]],
               acceptor' = [acceptor EXCEPT !.at = "registered", !.slot = s]
        PROVE  WorkerTypes' /\ TaskTypes'
    <3>1. [active |-> TRUE, leave |-> FALSE] \in Marks  BY DEF Marks
    <3>2. slots' \in [Rooms!Slots -> Marks]  BY <2>3, <3>1
    <3> QED  BY <1>3, <2>3, <3>2 DEF Rooms!Register
  <2> QED  BY <1>3, <2>1, <2>2, <2>3 DEF Rooms!Register, Rooms!FreeSlots
<1>4. CASE Rooms!Headers
  BY <1>1, <1>4 DEF Rooms!Headers, Rooms!Listening
<1>5. CASE Rooms!Dispatch
  BY <1>1, <1>5 DEF Rooms!Dispatch, Rooms!Listening
<1>6. CASE Rooms!CoolDown
  BY <1>1, <1>6 DEF Rooms!CoolDown, Rooms!Listening
<1>7. CASE Rooms!Configure
  BY <1>7 DEF Rooms!Configure
<1>8. CASE Rooms!Change
  BY <1>8 DEF Rooms!Change
<1>9. ASSUME NEW s \in Rooms!Slots, Rooms!Ask(s) \/ Rooms!Asked(s)
      PROVE  WorkerTypes' /\ TaskTypes'
  <2>1. CASE Rooms!Ask(s)  BY <2>1 DEF Rooms!Ask
  <2>2. CASE Rooms!Asked(s)  BY <2>2 DEF Rooms!Asked, Marks
  <2> QED  BY <1>9, <2>1, <2>2
<1>10. ASSUME NEW s \in Rooms!Slots, Rooms!Work(s)  PROVE WorkerTypes' /\ TaskTypes'
  <2>1. TaskTypes'  BY <1>10 DEF Rooms!Work
  <2> QED  BY <1>10, <2>1, WorkTypes
<1>11. CASE UNCHANGED sseVars
  BY <1>11 DEF sseVars
<1> QED  BY <1>2, <1>3, <1>4, <1>5, <1>6, <1>7, <1>8, <1>9, <1>10, <1>11 DEF Rooms!Next

\* The counter of clients never passes the highest limit there has been: the
\* accepting task lets one client in at a time, and only where the counter is
\* below the limit, and the worker has counted it before the next is looked at.
\* And it reaches that number only by counting a client up, whose worker has
\* still to count it down.
Counted(s) == worker[s].at \notin {"idle", "load", "store"}
RoomInv ==
  /\ WorkerTypes /\ TaskTypes
  /\ highest \in Nat /\ Rooms!Limit <= highest
  /\ count <= highest
  /\ \A s \in Rooms!Slots : Rooms!Uncounted(s) => acceptor.at = "cooldown" /\ acceptor.slot = s
  /\ \A s \in Rooms!Slots : worker[s].at \in {"load", "store"} => queue[s] = NoItem
  /\ (\/ acceptor.at \in {"admitted", "registered", "accepted"}
      \/ acceptor.at = "cooldown" /\ Rooms!Uncounted(acceptor.slot)) => count < highest
  /\ \A s \in Rooms!Slots : /\ worker[s].at = "store" => worker[s].reg < highest
                            /\ worker[s].at = "downstore" => worker[s].reg <= highest
  /\ count = highest => \E s \in Rooms!Slots : Counted(s)

LEMMA LimitFacts ==
  ASSUME stored \in Limits
  PROVE  Rooms!Limit \in Nat /\ Rooms!Limit > 0
BY DeviceAssumption DEF Rooms!SseAssumption, Rooms!Limit

LEMMA RoomNext ==
  ASSUME RoomInv, Rooms!Next \/ UNCHANGED sseVars
  PROVE  RoomInv'
<1>0. WorkerTypes' /\ TaskTypes'
  BY TaskTypesKeep DEF RoomInv
<1> USE DEF RoomInv, Rooms!Uncounted, Counted
<1>1. /\ highest \in Nat /\ Rooms!Limit <= highest /\ Rooms!Limit \in Nat /\ highest > 0
      /\ count \in Int /\ worker \in [Rooms!Slots -> Stands] /\ count' \in Int
      /\ \A s \in Rooms!Slots : worker[s].reg \in Int
      /\ DOMAIN queue = Rooms!Slots /\ acceptor.slot \in Rooms!Slots
  <2>1. Rooms!Limit \in Nat /\ highest > 0
    BY LimitFacts DEF TaskTypes
  <2>2. \A s \in Rooms!Slots : worker[s].reg \in Int
    BY DEF WorkerTypes, Stands
  <2> QED  BY <1>0, <2>1, <2>2 DEF WorkerTypes, TaskTypes
<1>2. CASE Rooms!Configure
  <2>1. Rooms!Limit' \in Nat
    <3>1. stored' \in Limits
      BY <1>0 DEF TaskTypes
    <3> QED  BY <3>1, DeviceAssumption DEF Rooms!SseAssumption, Rooms!Limit
  <2>2. highest' \in Nat /\ Rooms!Limit' <= highest' /\ highest <= highest'
    BY <1>1, <1>2, <2>1 DEF Rooms!Configure
  <2>3. UNCHANGED <<count, queue, worker, acceptor>>
    BY <1>2 DEF Rooms!Configure
  <2>4. \A n \in Int : (n < highest => n < highest') /\ (n <= highest => n <= highest')
    BY <1>1, <2>2
  <2>5. count = highest' => \E s \in Rooms!Slots : Counted(s)
    BY <1>1, <2>2
  <2>6. \A s \in Rooms!Slots : /\ worker[s].at = "store" => worker[s].reg < highest'
                              /\ worker[s].at = "downstore" => worker[s].reg <= highest'
    BY <1>1, <2>4
  <2> QED  BY <1>0, <1>1, <2>2, <2>3, <2>4, <2>5, <2>6
\* The limit, and the highest there has been, change in no other step.
<1>3. CASE Rooms!Admit
  <2>1. /\ acceptor'.at = "admitted" /\ count < highest
        /\ UNCHANGED <<count, queue, worker, highest, Rooms!Limit>>
    BY <1>1, <1>3 DEF Rooms!Admit, Rooms!Full, Rooms!Limit, TaskTypes
  <2>2. \A s \in Rooms!Slots : ~Rooms!Uncounted(s)
    BY <1>3 DEF Rooms!Admit
  <2> QED  BY <1>0, <2>1, <2>2
<1>4. CASE Rooms!Register \/ Rooms!Headers
  <2>1. /\ acceptor'.at \in {"listen", "registered", "accepted"} /\ UNCHANGED <<count, queue, worker, highest, Rooms!Limit>>
        /\ acceptor.at \in {"admitted", "registered"}
    <3>1. CASE Rooms!Register
      <4>1. \A s \in Rooms!Slots :
              [acceptor EXCEPT !.at = "registered", !.slot = s].at = "registered"
        BY DEF TaskTypes
      <4>2. acceptor'.at \in {"listen", "registered"}
        <5>1. Rooms!Listening.at = "listen"
          BY DEF Rooms!Listening
        <5>2. CASE acceptor' = Rooms!Listening
          BY <5>1, <5>2
        <5>3. ASSUME NEW s \in Rooms!Slots, acceptor' = [acceptor EXCEPT !.at = "registered", !.slot = s]
              PROVE  acceptor'.at \in {"listen", "registered"}
          BY <4>1, <5>3
        <5> QED  BY <3>1, <5>2, <5>3 DEF Rooms!Register, Rooms!FreeSlots
      <4> QED  BY <3>1, <4>2 DEF Rooms!Register, Rooms!Limit
    <3>2. CASE Rooms!Headers
      BY <3>2 DEF Rooms!Headers, Rooms!Listening, Rooms!Limit, TaskTypes
    <3> QED  BY <1>4, <3>1, <3>2
  <2> QED  BY <1>0, <2>1
<1>5. CASE Rooms!Dispatch
  <2> DEFINE t == acceptor.slot
  <2>1. /\ acceptor.at = "accepted" /\ count < highest /\ UNCHANGED <<count, worker, highest, Rooms!Limit>>
        /\ \A s \in Rooms!Slots : s # t => queue'[s] = queue[s]
    BY <1>1, <1>5 DEF Rooms!Dispatch, Rooms!Limit
  <2>2. \A s \in Rooms!Slots : ~Rooms!Uncounted(s)
    BY <2>1
  <2>3. acceptor'.at = "cooldown" /\ acceptor'.slot = t
    BY <1>1, <1>5, <2>2 DEF Rooms!Dispatch, TaskTypes
  <2> QED  BY <1>0, <1>1, <2>1, <2>2, <2>3
<1>6. CASE Rooms!CoolDown
  <2>1. acceptor'.at = "listen" /\ UNCHANGED <<count, queue, worker, highest, Rooms!Limit>>
    BY <1>6 DEF Rooms!CoolDown, Rooms!Listening, Rooms!Limit
  <2>2. \A s \in Rooms!Slots : ~Rooms!Uncounted(s)
    BY <1>6 DEF Rooms!CoolDown
  <2> QED  BY <1>0, <2>1, <2>2
<1>7. CASE UNCHANGED <<count, queue, worker, acceptor, highest, stored>>
  BY <1>0, <1>7 DEF Rooms!Limit
<1>8. ASSUME NEW s \in Rooms!Slots, Rooms!Work(s)  PROVE RoomInv'
  <2> USE <1>8 DEF Rooms!Work, Rooms!Goes
  <2>1. acceptor' = acceptor /\ highest' = highest /\ Rooms!Limit' = Rooms!Limit
    BY DEF Rooms!Limit
  \* What a step of one worker may do to the others: nothing.
  <2>2. \A r \in Rooms!Slots : r # s => worker'[r] = worker[r] /\ queue'[r] = queue[r]
    BY <1>1 DEF Rooms!Take, Rooms!Load, Rooms!Store, Rooms!Hello, Rooms!Snapshot, Rooms!Wake,
       Rooms!Look, Rooms!Send, Rooms!PassEnds, Rooms!Remove, Rooms!Left, WorkerTypes
  <2>3. \A at : [worker EXCEPT ![s].at = at][s].at = at
    BY <1>1 DEF Stands
  <2>4. CASE Rooms!Take(s)
    <3>1. worker'[s].at = "load" /\ queue[s] # NoItem /\ queue'[s] = NoItem /\ UNCHANGED count
      BY <1>1, <2>4 DEF Rooms!Take, Stands
    <3>2. Rooms!Uncounted(s)
      BY <3>1
    <3>3. \A r \in Rooms!Slots : Rooms!Uncounted(r)' => Rooms!Uncounted(r)
      BY <2>2, <3>2
    <3>4. ~Counted(s)
      BY <2>4 DEF Rooms!Take
    <3> QED  BY <1>0, <1>1, <2>1, <2>2, <3>1, <3>2, <3>3, <3>4
  <2>5. CASE Rooms!Load(s)
    <3>1. CASE worker[s].at = "load"
      <4>1. worker'[s].at = "store" /\ worker'[s].reg = count /\ UNCHANGED <<count, queue>>
        BY <1>1, <2>5, <3>1 DEF Rooms!Load, Stands
      <4>2. Rooms!Uncounted(s) /\ count < highest
        BY <3>1
      <4> QED  BY <1>0, <1>1, <2>1, <2>2, <3>1, <4>1, <4>2
    <3>2. CASE worker[s].at = "down"
      <4>1. worker'[s].at = "downstore" /\ worker'[s].reg = count /\ UNCHANGED <<count, queue>>
        BY <1>1, <2>5, <3>2 DEF Rooms!Load, Stands
      <4> QED  BY <1>0, <1>1, <2>1, <2>2, <3>2, <4>1
    <3> QED  BY <2>5, <3>1, <3>2 DEF Rooms!Load
  <2>6. CASE Rooms!Store(s)
    <3>1. CASE worker[s].at = "store"
      <4>1. worker'[s].at = "hello" /\ count' = worker[s].reg + 1 /\ UNCHANGED queue
        BY <1>1, <2>6, <3>1 DEF Rooms!Store, Stands
      <4>2. Rooms!Uncounted(s) /\ count' <= highest /\ queue[s] = NoItem
        BY <1>1, <3>1, <4>1
      <4>3. \A r \in Rooms!Slots : ~Rooms!Uncounted(r)' \/ r = s
        BY <2>2, <4>1, <4>2
      <4>4. ~Rooms!Uncounted(acceptor.slot)' /\ acceptor.at = "cooldown"
        BY <1>1, <2>1, <4>1, <4>2, <4>3
      <4>5. \A r \in Rooms!Slots : /\ worker'[r].at = "store" => worker'[r].reg < highest
                                  /\ worker'[r].at = "downstore" => worker'[r].reg <= highest
        BY <2>2, <4>1
      <4>6. Counted(s)'
        BY <4>1
      <4> QED  BY <1>0, <2>1, <4>1, <4>2, <4>3, <4>4, <4>5, <4>6
    <3>2. CASE worker[s].at = "downstore"
      <4>1. worker'[s].at = "idle" /\ count' = worker[s].reg - 1 /\ UNCHANGED queue
        BY <1>1, <2>6, <3>2 DEF Rooms!Store, Rooms!Idle
      <4>2. count' < highest
        BY <1>1, <3>2, <4>1
      <4> QED  BY <1>0, <1>1, <2>1, <2>2, <3>2, <4>1, <4>2
    <3> QED  BY <2>6, <3>1, <3>2 DEF Rooms!Store
  \* The others neither count nor are counted.
  <2>7. ASSUME Counted(s), Counted(s)' \/ count < highest, worker'[s].at \notin {"load", "store", "downstore"},
               UNCHANGED <<count, queue>>
        PROVE  RoomInv'
    BY <1>0, <1>1, <2>1, <2>2, <2>7
  <2>8. CASE Rooms!Hello(s)
    <3>1. worker'[s].at \in {"snap", "remove"}
      BY <1>1, <2>8 DEF Rooms!Hello, Stands
    <3> QED  BY <2>7, <2>8, <3>1 DEF Rooms!Hello
  <2>9. CASE Rooms!Snapshot(s)
    <3>1. worker'[s].at \in {"wait", "remove"}
      BY <1>1, <2>9 DEF Rooms!Snapshot, Stands
    <3> QED  BY <2>7, <2>9, <3>1 DEF Rooms!Snapshot
  <2>10. CASE Rooms!Wake(s)
    <3>1. worker'[s].at \in {"remove", "scan"}
      BY <1>1, <2>10 DEF Rooms!Wake, Stands
    <3> QED  BY <2>7, <2>10, <3>1 DEF Rooms!Wake
  <2>11. CASE Rooms!Look(s)
    <3>1. worker'[s].at \in {"scan", "send"}
      BY <1>1, <2>11 DEF Rooms!Look, Stands
    <3> QED  BY <2>7, <2>11, <3>1 DEF Rooms!Look
  <2>12. CASE Rooms!Send(s)
    <3>1. worker'[s].at \in {"scan", "remove"}
      BY <1>1, <2>12 DEF Rooms!Send, Stands
    <3> QED  BY <2>7, <2>12, <3>1 DEF Rooms!Send
  <2>13. CASE Rooms!PassEnds(s)
    <3>1. worker'[s].at \in {"wait", "remove"}
      BY <1>1, <2>13 DEF Rooms!PassEnds, Stands
    <3> QED  BY <2>7, <2>13, <3>1 DEF Rooms!PassEnds
  <2>14. CASE Rooms!Remove(s)
    <3>1. worker'[s].at = "left"
      BY <1>1, <2>14 DEF Rooms!Remove, Rooms!Idle
    <3> QED  BY <2>7, <2>14, <3>1 DEF Rooms!Remove
  <2>15. CASE Rooms!Left(s)
    <3>1. worker'[s].at = (IF count > 0 THEN "down" ELSE "idle") /\ (count > 0 \/ count < highest)
      BY <1>1, <2>3, <2>15 DEF Rooms!Left
    <3> QED  BY <2>7, <2>15, <3>1 DEF Rooms!Left
  <2> QED  BY <2>4, <2>5, <2>6, <2>8, <2>9, <2>10, <2>11, <2>12, <2>13, <2>14, <2>15
<1>9. CASE Rooms!Change \/ UNCHANGED sseVars
  BY <1>7, <1>9 DEF Rooms!Change, sseVars
<1>10. ASSUME NEW s \in Rooms!Slots, Rooms!Ask(s) \/ Rooms!Asked(s)  PROVE RoomInv'
  BY <1>7, <1>10 DEF Rooms!Ask, Rooms!Asked
<1> QED  BY <1>2, <1>3, <1>4, <1>5, <1>6, <1>8, <1>9, <1>10 DEF Rooms!Next

\* With nobody connected there is room for a client, whatever the workers' races
\* on the counter of clients have made of it (sse_accept_task, sse_slot_worker),
\* for every number of slots, as long as the limit is the highest there has been.
THEOREM IdleMeansRoom == Spec => []RoomWhenIdle
<1>1. Init => RoomInv
  <2> SUFFICES ASSUME Init  PROVE RoomInv
    OBVIOUS
  <2>1. Rooms!Init
    BY DEF Init
  <2>2. Rooms!Idle \in Stands /\ Rooms!NoSlot \in Marks /\ 0 \in Rooms!Slots
    BY DeviceAssumption DEF Rooms!SseAssumption, Rooms!Idle, Stands, Readings, Rooms!Ats, Rooms!NoSlot, Marks,
       Rooms!Slots
  <2>3. WorkerTypes
    BY <2>1, <2>2 DEF Rooms!Init, WorkerTypes
  <2>4. TaskTypes
    BY <2>1, <2>2 DEF Rooms!Init, TaskTypes, Rooms!Listening
  <2>5. /\ count = 0 /\ highest = Rooms!Limit /\ acceptor.at = "listen"
        /\ \A s \in Rooms!Slots : worker[s].at = "idle" /\ ~Rooms!Uncounted(s)
    BY <2>1 DEF Rooms!Init, Rooms!Idle, Rooms!Listening, Rooms!Uncounted
  <2>6. highest \in Nat /\ highest > 0
    BY <2>4, <2>5, LimitFacts DEF TaskTypes
  <2> QED  BY <2>3, <2>4, <2>5, <2>6 DEF RoomInv
<1>2. RoomInv /\ [Next]_vars => RoomInv'
  BY DeviceSteps, RoomNext
<1>3. RoomInv => RoomWhenIdle
  BY DEF RoomInv, WorkerTypes, Counted, RoomWhenIdle, Rooms!RoomWhenIdle, Rooms!NobodyThere
<1> QED  BY <1>1, <1>2, <1>3, PTL DEF Spec

-----------------------------------------------------------------------------
\* Who has sent and waits holds the mutex, so that one transaction is in
\* progress; the buffer was emptied before its request was sent, and all that has
\* come in since came after that request and answers no later one.
Requested == [slave : Rtu!Slaves \cup {"none"}, op : Rtu!Ops \cup {"none"}, n : 0..16]
Calls == [at : {"none", "waits", "lock", "send", "receive", "done"}, ask : Requested,
          id : 0..MaxAsked, got : Seq(Rtu!Pieces), result : Rtu!Results]
BusTypes ==
  /\ master \in [enabled : BOOLEAN, rate : Rates, running : BOOLEAN]
  /\ port \in Rates \cup {"off"}
  /\ call \in [Rtu!Callers -> Calls] /\ requests \in Seq(Requested)
  /\ Len(requests) <= MaxAsked
  /\ owed \subseteq [of : 1..MaxAsked, next : {"head", "tail"}] /\ rx \in Seq(Rtu!Pieces)
NoLater == /\ \A o \in owed : o.of <= Len(requests)
           /\ \A j \in 1..Len(rx) : rx[j].of <= Len(requests)
Exchange(x) ==
  LET c == call[x]
  IN /\ \A i \in 1..Len(c.got) : c.got[i].of <= Len(requests)
     /\ c.at \in {"send", "receive"} => mutex = x
     /\ c.at \in {"lock", "send"} => c.got = <<>>
     /\ c.at = "receive" =>
          /\ c.id = Len(requests)
          /\ \A i \in 1..Len(c.got) : c.got[i].after = Len(requests)
          /\ \A j \in 1..Len(rx) : rx[j].after = Len(requests)
     /\ c.at # "done" => c.result = "none"
     /\ c.result \in {"ok", "exception"} =>
          /\ c.got # <<>> /\ \A i \in 1..Len(c.got) : c.got[i].after = c.id
          /\ \A y \in Rtu!Callers : call[y].at = "receive" => c.got[1].of < call[y].id
BusInv ==
  /\ BusTypes /\ NoLater
  /\ port = "off" => rx = <<>>
  /\ \A x \in Rtu!Callers : Exchange(x)

\* What an exchange looks at.
LEMMA SameExchange ==
  ASSUME NEW x \in Rtu!Callers, Exchange(x), call' = call, requests' = requests,
         call[x].at \in {"send", "receive"} => mutex' = mutex,
         rx' = rx \/ rx' = <<>>
  PROVE  Exchange(x)'
BY DEF Exchange

\* A console goes back to a rate it has left.
ConsoleTypes == console \in [Consoles ->
  [at : {"none", "typed", "begun", "rated", "asks", "asked", "left", "set", "make"},
   cmd : {"none", "read", "write", "scan", "on", "off"}, saved : Rates \cup {"none"}, asked : BOOLEAN]]

LEMMA ConsoleTypesKeep ==
  ASSUME BusTypes, ConsoleTypes, Rtu!Next \/ UNCHANGED rtuVars
  PROVE  ConsoleTypes'
<1>1. ASSUME NEW k \in Consoles, Rtu!Command(k)  PROVE ConsoleTypes'
  <2>1. \A at \in {"typed", "begun", "rated", "asks", "asked", "left", "set", "make"} :
          [console EXCEPT ![k].at = at] \in [Consoles ->
            [at : {"none", "typed", "begun", "rated", "asks", "asked", "left", "set", "make"},
             cmd : {"none", "read", "write", "scan", "on", "off"}, saved : Rates \cup {"none"},
             asked : BOOLEAN]]
    BY DEF ConsoleTypes
  <2>2. master.rate \in Rates
    BY DEF BusTypes
  <2>3. CASE Rtu!Type(k)  BY <2>1, <2>3 DEF Rtu!Type, Rtu!Goes, ConsoleTypes
  <2>4. CASE Rtu!Execute(k)
    BY <2>4 DEF Rtu!Execute, ConsoleTypes
  <2>5. CASE Rtu!TempBaud(k)
    <3>1. \/ console' = [console EXCEPT ![k].at = "rated"]
          \/ console' = [console EXCEPT ![k].at = "rated", ![k].saved = master.rate]
      BY <2>5 DEF Rtu!TempBaud, Rtu!Goes
    <3> QED  BY <2>1, <2>2, <3>1 DEF ConsoleTypes
  <2>6. CASE Rtu!Pause(k)  BY <2>1, <2>6 DEF Rtu!Pause, Rtu!Goes, ConsoleTypes
  <2>7. CASE Rtu!Ask(k)  BY <2>7 DEF Rtu!Ask, ConsoleTypes
  <2>8. CASE Rtu!Told(k)  BY <2>8 DEF Rtu!Told, ConsoleTypes
  <2>9. CASE Rtu!Unpause(k)  BY <2>1, <2>9 DEF Rtu!Unpause, Rtu!Goes, ConsoleTypes
  <2>10. CASE Rtu!RestoreBaud(k)  BY <2>1, <2>10 DEF Rtu!RestoreBaud, Rtu!Goes, ConsoleTypes
  <2>11. CASE Rtu!Leave(k)  BY <2>11 DEF Rtu!Leave, Rtu!NoCommand, ConsoleTypes
  <2>12. CASE Rtu!SetEnabled(k)  BY <2>1, <2>12 DEF Rtu!SetEnabled, Rtu!Goes, ConsoleTypes
  <2>13. CASE Rtu!MakeMutex(k)  BY <2>1, <2>13 DEF Rtu!MakeMutex, Rtu!Goes, ConsoleTypes
  <2> QED  BY <1>1, <2>3, <2>4, <2>5, <2>6, <2>7, <2>8, <2>9, <2>10, <2>11, <2>12, <2>13
           DEF Rtu!Command
<1>2. CASE UNCHANGED console
  BY <1>2 DEF ConsoleTypes
<1> QED  BY <1>1, <1>2 DEF Rtu!Next, Rtu!Transaction, Rtu!Lock, Rtu!Send, Rtu!Read, Rtu!TimesOut,
         Rtu!Answer, Rtu!TaskLooks, Rtu!TaskAsks, Rtu!TaskGoesOn, rtuVars

LEMMA BusNext ==
  ASSUME BusInv, ConsoleTypes, Rtu!Next \/ UNCHANGED rtuVars
  PROVE  BusInv'
<1> USE DeviceAssumption DEF Rtu!RtuAssumption
<1>0. /\ BusTypes /\ NoLater /\ call \in [Rtu!Callers -> Calls] /\ Len(requests) \in Nat
      /\ \A x \in Rtu!Callers : Exchange(x)
  BY DEF BusInv, BusTypes
<1>1. ASSUME call' = call, requests' = requests, owed' \subseteq owed, BusTypes',
             \A x \in Rtu!Callers : call[x].at \in {"send", "receive"} => mutex' = mutex,
             rx' = rx \/ rx' = <<>>, port' = "off" => rx' = <<>>
      PROVE  BusInv'
  <2>1. NoLater'
    BY <1>0, <1>1 DEF NoLater
  <2>2. \A x \in Rtu!Callers : Exchange(x)'
    BY <1>0, <1>1, SameExchange
  <2> QED  BY <1>1, <2>1, <2>2 DEF BusInv
\* A caller that has no transaction in progress after the step.
<1>2. ASSUME NEW x \in Rtu!Callers, NEW c \in Calls, call' = [call EXCEPT ![x] = c],
             UNCHANGED <<master, port, requests, owed, rx>>,
             mutex' = mutex \/ mutex \in {x, "free"},
             c.at \notin {"send", "receive"}, c.got = <<>> \/ c.got = call[x].got,
             c.result \notin {"ok", "exception"}, c.at # "done" => c.result = "none",
             c.at = "lock" => c.got = <<>>
      PROVE  BusInv'
  <2>1. BusTypes' /\ NoLater'
    BY <1>0, <1>2 DEF BusTypes, NoLater
  <2>2. call'[x] = c /\ \A y \in Rtu!Callers : y # x => call'[y] = call[y]
    BY <1>0, <1>2
  <2>3. Exchange(x)'
    BY <1>0, <1>2, <2>2 DEF Exchange
  <2>4. ASSUME NEW y \in Rtu!Callers, y # x  PROVE Exchange(y)'
    <3>1. call[y].at \in {"send", "receive"} => mutex = y /\ mutex # x /\ mutex # "free"
      BY <1>0, <2>4 DEF Exchange, Rtu!Callers
    <3> QED  BY <1>0, <1>2, <2>2, <2>4, <3>1 DEF Exchange
  <2> QED  BY <1>2, <2>1, <2>3, <2>4 DEF BusInv
<1>3. ASSUME NEW x \in Rtu!Callers, call[x].at \in {"none", "waits"},
             NEW q \in Asks, NEW s \in Rtu!Slaves, Rtu!Begin(x, [slave |-> s, op |-> q.op, n |-> q.n])
      PROVE  BusInv'
  <2> DEFINE c == [Rtu!NoCall EXCEPT !.at = IF master.enabled THEN "lock" ELSE "done",
                       !.ask = [slave |-> s, op |-> q.op, n |-> q.n],
                       !.result = IF master.enabled THEN "none" ELSE "not_enabled"]
  <2>1. /\ c \in Calls /\ c.got = <<>> /\ c.at \in {"lock", "done"}
        /\ c.result \in {"none", "not_enabled"} /\ (c.at = "lock" => c.result = "none")
    <3>1. [slave |-> s, op |-> q.op, n |-> q.n] \in Requested
      BY DEF Requested
    <3>2. <<>> \in Seq(Rtu!Pieces) /\ 0 \in 0..MaxAsked
      OBVIOUS
    <3> QED  BY <3>1, <3>2 DEF Rtu!NoCall, Calls, Requested, Rtu!Results
  <2>2. call' = [call EXCEPT ![x] = c] /\ UNCHANGED <<master, port, mutex, requests, owed, rx>>
    BY <1>3 DEF Rtu!Begin
  <2> HIDE DEF c
  <2> QED  BY <1>2, <2>1, <2>2
<1>4. Rtu!NoCall \in Calls /\ Rtu!NoCall.at = "none" /\ Rtu!NoCall.got = <<>> /\ Rtu!NoCall.result = "none"
  BY DEF Rtu!NoCall, Calls, Requested, Rtu!Results
<1>5. ASSUME NEW x \in Rtu!Callers, Rtu!Lock(x)  PROVE BusInv'
  <2>0. call[x].at = "lock" /\ call[x].got = <<>> /\ call[x].result = "none"
        /\ UNCHANGED <<master, port, requests, owed, rx>>
    BY <1>0, <1>5 DEF Rtu!Lock, Exchange
  <2>1. CASE mutex = "free" /\ mutex' = x /\ call' = [call EXCEPT ![x].at = "send"]
    <3>1. BusTypes' /\ NoLater'
      <4> DEFINE c == [call[x] EXCEPT !.at = "send"]
      <4>1. c \in Calls  BY <1>0 DEF Calls
      <4>2. call' = [call EXCEPT ![x] = c]  BY <1>0, <2>1
      <4> HIDE DEF c
      <4> QED  BY <1>0, <2>0, <4>1, <4>2 DEF BusTypes, NoLater
    <3>2. /\ call'[x].at = "send" /\ call'[x].got = <<>> /\ call'[x].result = "none"
          /\ \A y \in Rtu!Callers : y # x => call'[y] = call[y]
      BY <1>0, <2>0, <2>1 DEF Calls
    <3>3. \A y \in Rtu!Callers : call[y].at \notin {"send", "receive"}
      BY <1>0, <2>1 DEF Exchange
    <3>4. \A y \in Rtu!Callers : call'[y].at # "receive"
      BY <3>2, <3>3
    <3>5. Exchange(x)'
      BY <2>1, <3>2 DEF Exchange
    <3>6. ASSUME NEW y \in Rtu!Callers, y # x  PROVE Exchange(y)'
      BY <1>0, <2>0, <3>2, <3>3, <3>4, <3>6 DEF Exchange
    <3> QED  BY <2>0, <3>1, <3>5, <3>6 DEF BusInv
  <2>2. CASE call' = [call EXCEPT ![x].at = "done", ![x].result = "busy"] /\ UNCHANGED mutex
    <3> DEFINE c == [call[x] EXCEPT !.at = "done", !.result = "busy"]
    <3>1. c \in Calls /\ c.got = call[x].got /\ c.at = "done" /\ c.result = "busy"
      BY <1>0 DEF Calls, Rtu!Results
    <3>2. call' = [call EXCEPT ![x] = c]
      BY <1>0, <2>2
    <3> HIDE DEF c
    <3> QED  BY <1>2, <2>0, <2>2, <3>1, <3>2
  <2> QED  BY <1>5, <2>1, <2>2 DEF Rtu!Lock, Rtu!Ends
<1>6. ASSUME NEW x \in Rtu!Callers, Rtu!Send(x)  PROVE BusInv'
  <2> DEFINE id == Len(requests) + 1
  <2>1. /\ call[x].at = "send" /\ call[x].got = <<>> /\ call[x].result = "none" /\ mutex = x
        /\ Len(requests) < MaxAsked /\ requests' = Append(requests, call[x].ask)
        /\ call' = [call EXCEPT ![x].at = "receive", ![x].id = id]
        /\ rx' = (IF port = "off" THEN rx ELSE <<>>)
        /\ UNCHANGED <<master, port, mutex>>
    BY <1>0, <1>6 DEF Rtu!Send, Exchange
  <2>2. rx' = <<>>
    BY <2>1 DEF BusInv
  <2>3. /\ call'[x].at = "receive" /\ call'[x].id = id /\ call'[x].got = <<>> /\ call'[x].result = "none"
        /\ \A y \in Rtu!Callers : y # x => call'[y] = call[y]
    BY <1>0, <2>1 DEF Calls
  <2>4. Len(requests') = id /\ id \in 1..MaxAsked
    BY <1>0, <2>1 DEF BusTypes
  <2>5. owed' \subseteq owed \cup {[of |-> id, next |-> "head"]}
    BY <1>6 DEF Rtu!Send
  <2>a. id \in 0..MaxAsked /\ id > Len(requests)
    BY <1>0, <2>4
  <2> HIDE DEF id
  <2>6. BusTypes'
    <3> DEFINE c == [call[x] EXCEPT !.at = "receive", !.id = id]
    <3>a. c \in Calls  BY <1>0, <2>a DEF Calls
    <3>b. call' = [call EXCEPT ![x] = c]  BY <1>0, <2>1
    <3> HIDE DEF c
    <3>1. call' \in [Rtu!Callers -> Calls]
      BY <1>0, <3>a, <3>b
    <3>c. call[x].ask \in Requested
      BY <1>0 DEF Calls
    <3>2. requests' \in Seq(Requested)
      BY <1>0, <2>1, <3>c DEF BusTypes
    <3>3. owed' \subseteq [of : 1..MaxAsked, next : {"head", "tail"}]
      BY <1>0, <2>4, <2>5 DEF BusTypes
    <3> QED  BY <1>0, <2>1, <2>2, <2>4, <3>1, <3>2, <3>3 DEF BusTypes
  <2>7. NoLater'
    BY <1>0, <2>2, <2>4, <2>5, <2>a DEF NoLater, BusTypes
  <2>8. Exchange(x)'
    <3>1. Len(call'[x].got) = 0 /\ Len(rx') = 0
      BY <2>2, <2>3
    <3>2. \A i \in 1..Len(call'[x].got) : FALSE
      BY <3>1
    <3>3. \A j \in 1..Len(rx') : FALSE
      BY <3>1
    <3> QED  BY <2>1, <2>3, <2>4, <3>2, <3>3 DEF Exchange
  <2>9. ASSUME NEW y \in Rtu!Callers, y # x  PROVE Exchange(y)'
    <3>1. call[y].at \notin {"send", "receive"}
      BY <1>0, <2>1, <2>9 DEF Exchange
    <3>2. \A z \in Rtu!Callers : call'[z].at = "receive" => z = x \/ call[z].at = "receive"
      BY <2>3
    <3>3. \A z \in Rtu!Callers : call'[z].at = "receive" => call'[z].id = id
      BY <1>0, <2>1, <2>3 DEF Exchange
    <3>4. call[y].got \in Seq(Rtu!Pieces)
      BY <1>0, <2>9 DEF Calls
    <3>5. \A i \in 1..Len(call[y].got) : call[y].got[i] \in Rtu!Pieces
      BY <3>4
    <3>6. \A i \in 1..Len(call[y].got) : call[y].got[i].of < id /\ call[y].got[i].of <= id
      BY <1>0, <2>9, <2>a, <3>5 DEF Exchange, Rtu!Pieces
    <3>7. call[y].got # <<>> => 1 \in 1..Len(call[y].got)
      BY <3>4
    <3>8. call'[y] = call[y] /\ Exchange(y)
      BY <1>0, <2>3, <2>9
    <3> QED  BY <2>4, <3>1, <3>3, <3>6, <3>7, <3>8 DEF Exchange
  <2> QED  BY <2>2, <2>6, <2>7, <2>8, <2>9 DEF BusInv
<1>7. ASSUME NEW x \in Rtu!Callers, Rtu!Read(x)  PROVE BusInv'
  <2> DEFINE got == Append(call[x].got, Head(rx))
  <2>1. /\ call[x].at = "receive" /\ mutex = x /\ rx # <<>> /\ rx' = Tail(rx) /\ call[x].result = "none"
        /\ UNCHANGED <<master, port, requests, owed>> /\ port # "off" /\ call[x].id = Len(requests)
    BY <1>0, <1>7 DEF Rtu!Read, Exchange
  <2>2. /\ Head(rx) \in Rtu!Pieces /\ Head(rx).of <= Len(requests) /\ Head(rx).after = Len(requests)
        /\ Tail(rx) \in Seq(Rtu!Pieces) /\ \A j \in 1..Len(Tail(rx)) : j + 1 \in 1..Len(rx) /\ Tail(rx)[j] = rx[j + 1]
    BY <1>0, <2>1 DEF BusTypes, NoLater, Exchange
  <2>3. /\ got \in Seq(Rtu!Pieces) /\ got # <<>>
        /\ \A i \in 1..Len(got) : got[i].of <= Len(requests) /\ got[i].after = Len(requests)
    <3>1. call[x].got \in Seq(Rtu!Pieces) /\ Exchange(x)
      BY <1>0 DEF Calls
    <3>2. /\ Len(got) = Len(call[x].got) + 1 /\ got[Len(got)] = Head(rx) /\ got \in Seq(Rtu!Pieces)
          /\ \A i \in 1..Len(got) : i = Len(got) \/ (i \in 1..Len(call[x].got) /\ got[i] = call[x].got[i])
      BY <2>2, <3>1
    <3> HIDE DEF got
    <3>3. got # <<>>
      <4>1. Len(got) # 0
        BY <3>1, <3>2
      <4> QED  BY <4>1
    <3>4. ASSUME NEW i \in 1..Len(got)
          PROVE  got[i].of <= Len(requests) /\ got[i].after = Len(requests)
      <4>1. CASE i = Len(got)
        BY <2>2, <3>2, <4>1
      <4>2. CASE i \in 1..Len(call[x].got) /\ got[i] = call[x].got[i]
        <5>1. \A k \in 1..Len(call[x].got) :
                call[x].got[k].of <= Len(requests) /\ call[x].got[k].after = Len(requests)
          BY <2>1, <3>1 DEF Exchange
        <5> QED  BY <4>2, <5>1
      <4> QED  BY <3>2, <4>1, <4>2
    <3> QED  BY <3>2, <3>3, <3>4
  <2>4. NoLater' /\ \A j \in 1..Len(rx') : rx'[j].after = Len(requests)
    BY <1>0, <2>1, <2>2 DEF NoLater, Exchange
  <2>5. \A y \in Rtu!Callers : y # x => call[y].at \notin {"send", "receive"}
    BY <1>0, <2>1 DEF Exchange
  <2> HIDE DEF got
  <2>6. ASSUME NEW c \in Calls, call' = [call EXCEPT ![x] = c], c.got = got, c.id = Len(requests),
               \/ c.at = "receive" /\ c.result = "none" /\ mutex' = mutex
               \/ c.at = "done"
        PROVE  BusInv'
    <3>1. call'[x] = c /\ \A y \in Rtu!Callers : y # x => call'[y] = call[y]
      BY <1>0, <2>6
    <3>2. \A y \in Rtu!Callers : call'[y].at = "receive" => y = x /\ c.at = "receive"
      BY <2>5, <3>1
    <3>3. BusTypes'
      BY <1>0, <2>1, <2>2, <2>6 DEF BusTypes
    <3>4. Exchange(x)'
      BY <1>0, <2>1, <2>3, <2>4, <2>6, <3>1, <3>2 DEF Exchange
    <3>5. ASSUME NEW y \in Rtu!Callers, y # x  PROVE Exchange(y)'
      <4>1. call[y].at \notin {"send", "receive"} /\ call'[y] = call[y]
        BY <2>5, <3>1, <3>5
      <4>2. \A z \in Rtu!Callers : call'[z].at = "receive" => call[z].at = "receive" /\ call'[z].id = call[z].id
        BY <2>1, <2>6, <3>1, <3>2
      <4> QED  BY <1>0, <2>1, <3>5, <4>1, <4>2 DEF Exchange
    <3> QED  BY <2>1, <2>4, <3>3, <3>4, <3>5 DEF BusInv
  <2>7. CASE call' = [call EXCEPT ![x].got = got] /\ UNCHANGED mutex
    <3> DEFINE c == [call[x] EXCEPT !.got = got]
    <3>1. c \in Calls /\ c.got = got /\ c.id = Len(requests) /\ c.at = "receive" /\ c.result = "none"
      BY <1>0, <2>1, <2>3 DEF Calls
    <3>2. call' = [call EXCEPT ![x] = c]
      BY <1>0, <2>7
    <3> HIDE DEF c
    <3> QED  BY <2>6, <2>7, <3>1, <3>2
  <2>8. CASE call' = [call EXCEPT ![x].got = got, ![x].at = "done", ![x].result = Rtu!ResultOf(call[x].ask, got)]
    <3> DEFINE c == [call[x] EXCEPT !.got = got, !.at = "done", !.result = Rtu!ResultOf(call[x].ask, got)]
    <3>0. Rtu!ResultOf(call[x].ask, got) \in Rtu!Results
      BY DEF Rtu!ResultOf, Rtu!Results
    <3>1. c \in Calls /\ c.got = got /\ c.id = Len(requests) /\ c.at = "done"
      BY <1>0, <2>1, <2>3, <3>0 DEF Calls
    <3>2. call' = [call EXCEPT ![x] = c]
      BY <1>0, <2>8
    <3> HIDE DEF c
    <3> QED  BY <2>6, <3>1, <3>2
  <2> QED  BY <1>7, <2>7, <2>8 DEF Rtu!Read, got
<1>8. ASSUME NEW x \in Rtu!Callers, Rtu!TimesOut(x)  PROVE BusInv'
  <2> DEFINE c == [call[x] EXCEPT !.at = "done", !.result = "timeout"]
  <2>1. /\ c \in Calls /\ c.got = call[x].got /\ c.at = "done" /\ c.result = "timeout"
    BY <1>0 DEF Calls, Rtu!Results
  <2>2. mutex = x
    BY <1>0, <1>8 DEF Rtu!TimesOut, Exchange
  <2>3. call' = [call EXCEPT ![x] = c] /\ UNCHANGED <<master, port, requests, owed, rx>>
    BY <1>0, <1>8 DEF Rtu!TimesOut, Rtu!Ends
  <2> HIDE DEF c
  <2> QED  BY <1>2, <2>1, <2>2, <2>3
<1>9. CASE Rtu!Answer
  <2>1. /\ UNCHANGED <<master, port, mutex, call, requests>>
        /\ \E o \in owed : /\ \E piece \in {"head", "exception", "tail"} : Rtu!Arrives(piece, o)
                           /\ owed' \subseteq owed \cup {[o EXCEPT !.next = "tail"]}
    BY <1>9 DEF Rtu!Answer
  <2>2. PICK o \in owed : /\ \E piece \in {"head", "exception", "tail"} : Rtu!Arrives(piece, o)
                          /\ owed' \subseteq owed \cup {[o EXCEPT !.next = "tail"]}
    BY <2>1
  <2>3. o.of \in 1..MaxAsked /\ o.of <= Len(requests) /\ [o EXCEPT !.next = "tail"].of = o.of
        /\ [o EXCEPT !.next = "tail"] \in [of : 1..MaxAsked, next : {"head", "tail"}]
    BY <1>0 DEF BusTypes, NoLater
  <2>4. Len(requests) \in 1..MaxAsked
    BY <1>0, <2>3 DEF BusTypes
  <2>5. PICK e \in Rtu!Pieces :
          /\ e.of <= Len(requests) /\ e.after = Len(requests)
          /\ rx' = IF port = "off" THEN rx ELSE Append(rx, e)
    <3>1. PICK piece \in {"head", "exception", "tail"} : Rtu!Arrives(piece, o)
      BY <2>2
    <3> DEFINE e == [of |-> o.of, after |-> Len(requests),
                     part |-> IF port = RateOf[requests[o.of].slave] THEN piece ELSE "noise"]
    <3>2. e \in Rtu!Pieces /\ e.of <= Len(requests) /\ e.after = Len(requests)
      BY <2>3, <2>4 DEF Rtu!Pieces
    <3>3. rx' = IF port = "off" THEN rx ELSE Append(rx, e)
      BY <3>1 DEF Rtu!Arrives
    <3> HIDE DEF e
    <3> QED  BY <3>2, <3>3
  <2>6. rx' \in Seq(Rtu!Pieces) /\ Len(rx') \in Nat
        /\ \A j \in 1..Len(rx') : rx'[j] = e \/ (j \in 1..Len(rx) /\ rx'[j] = rx[j])
    BY <1>0, <2>5 DEF BusTypes
  <2>7. BusTypes' /\ NoLater' /\ (port' = "off" => rx' = <<>>)
    BY <1>0, <2>1, <2>2, <2>3, <2>5, <2>6 DEF BusTypes, NoLater, BusInv
  <2>8. ASSUME NEW x \in Rtu!Callers  PROVE Exchange(x)'
    BY <1>0, <2>1, <2>5, <2>6 DEF Exchange
  <2> QED  BY <2>7, <2>8 DEF BusInv
<1>10. CASE Rtu!TaskLooks
  <2> DEFINE c == [call[BusTask] EXCEPT !.at = "waits"]
  <2>1. BusTask \in Rtu!Callers
    BY DEF Rtu!Callers
  <2>2. /\ c \in Calls /\ c.got = call[BusTask].got /\ c.at = "waits" /\ c.result = "none"
    BY <1>0, <1>10, <2>1 DEF Rtu!TaskLooks, Calls, Exchange
  <2>3. call' = [call EXCEPT ![BusTask] = c] /\ UNCHANGED <<master, port, mutex, requests, owed, rx>>
    BY <1>0, <1>10 DEF Rtu!TaskLooks
  <2> HIDE DEF c
  <2> QED  BY <1>2, <2>1, <2>2, <2>3
<1>11. CASE Rtu!TaskAsks
  BY <1>3, <1>11 DEF Rtu!TaskAsks, Rtu!Callers
<1>12. CASE Rtu!TaskGoesOn
  BY <1>2, <1>4, <1>12 DEF Rtu!TaskGoesOn, Rtu!Callers
<1>13. ASSUME NEW k \in Consoles, Rtu!Command(k)  PROVE BusInv'
  <2> USE DEF Rtu!Callers
  <2>0. \A x \in Rtu!Callers : call[x].at \in {"send", "receive"} => mutex # "none"
    BY <1>0 DEF Exchange
  <2>1. CASE Rtu!Ask(k)  BY <1>3, <2>1 DEF Rtu!Ask
  <2>2. CASE Rtu!Told(k)  BY <1>2, <1>4, <2>2 DEF Rtu!Told
  <2>3. CASE Rtu!Type(k) \/ Rtu!Execute(k) \/ Rtu!Pause(k) \/ Rtu!Unpause(k) \/ Rtu!Leave(k)
    <3>1. UNCHANGED <<master, port, mutex, call, requests, owed, rx>>
      BY <2>3 DEF Rtu!Type, Rtu!Execute, Rtu!Pause, Rtu!Unpause, Rtu!Leave
    <3> QED  BY <1>0, <1>1, <3>1 DEF BusTypes, BusInv
  <2>4. CASE Rtu!TempBaud(k)
    <3>0. UNCHANGED <<mutex, call, requests, owed>>
      BY <2>4 DEF Rtu!TempBaud
    <3>1. master' \in [enabled : BOOLEAN, rate : Rates, running : BOOLEAN]
      BY <1>0, <2>4 DEF Rtu!TempBaud, BusTypes
    <3>2. port' \in Rates \cup {"off"} /\ (rx' = rx \/ rx' = <<>>) /\ (port' = "off" => rx' = <<>>)
      BY <1>0, <2>4, <3>1 DEF Rtu!TempBaud, Rtu!Reconfigured, BusTypes, BusInv
    <3>3. BusTypes'
      <4>2. <<>> \in Seq(Rtu!Pieces) /\ rx \in Seq(Rtu!Pieces)  BY <1>0 DEF BusTypes
      <4>1. rx' \in Seq(Rtu!Pieces)  BY <3>2, <4>2, Zenon
      <4> QED  BY <1>0, <3>0, <3>1, <3>2, <4>1 DEF BusTypes
    <3> QED  BY <1>1, <3>0, <3>2, <3>3
  <2>5. CASE Rtu!RestoreBaud(k)
    <3>0. UNCHANGED <<mutex, call, requests, owed>>
      BY <2>5 DEF Rtu!RestoreBaud
    <3>1. master' \in [enabled : BOOLEAN, rate : Rates, running : BOOLEAN]
      <4>1. console[k].saved # "none" => console[k].saved \in Rates
        BY DEF ConsoleTypes
      <4> QED  BY <1>0, <2>5, <4>1 DEF Rtu!RestoreBaud, BusTypes
    <3>2. port' \in Rates \cup {"off"} /\ (rx' = rx \/ rx' = <<>>) /\ (port' = "off" => rx' = <<>>)
      BY <1>0, <2>5, <3>1 DEF Rtu!RestoreBaud, Rtu!Reconfigured, BusTypes, BusInv
    <3>3. BusTypes'
      <4>2. <<>> \in Seq(Rtu!Pieces) /\ rx \in Seq(Rtu!Pieces)  BY <1>0 DEF BusTypes
      <4>1. rx' \in Seq(Rtu!Pieces)  BY <3>2, <4>2, Zenon
      <4> QED  BY <1>0, <3>0, <3>1, <3>2, <4>1 DEF BusTypes
    <3> QED  BY <1>1, <3>0, <3>2, <3>3
  <2>6. CASE Rtu!SetEnabled(k)
    <3>1. master' \in [enabled : BOOLEAN, rate : Rates, running : BOOLEAN]
      BY <1>0, <2>6 DEF Rtu!SetEnabled, BusTypes
    <3>2. port' \in Rates \cup {"off"} /\ rx' = <<>>
      BY <1>0, <2>6, <3>1 DEF Rtu!SetEnabled, Rtu!Reconfigured, BusTypes, BusInv
    <3> QED  BY <1>0, <1>1, <2>6, <3>1, <3>2 DEF Rtu!SetEnabled, BusTypes
  <2>7. CASE Rtu!MakeMutex(k)
    <3>1. master' \in [enabled : BOOLEAN, rate : Rates, running : BOOLEAN]
      BY <1>0, <2>7 DEF Rtu!MakeMutex, BusTypes
    <3> QED  BY <1>0, <1>1, <2>0, <2>7, <3>1 DEF Rtu!MakeMutex, BusTypes, BusInv
  <2> QED  BY <1>13, <2>1, <2>2, <2>3, <2>4, <2>5, <2>6, <2>7 DEF Rtu!Command
<1>14. CASE UNCHANGED rtuVars
  BY <1>0, <1>1, <1>14 DEF rtuVars, BusTypes, BusInv
<1> QED  BY <1>5, <1>6, <1>7, <1>8, <1>9, <1>10, <1>11, <1>12, <1>13, <1>14 DEF Rtu!Next, Rtu!Transaction

\* What a caller takes for an answer has come since it sent its request and
\* answers no request that another has in progress (modbus_master_send_request,
\* under the mutex and with the buffer emptied), however many callers there are and
\* whatever the commands do to the rate and to the master the while.
THEOREM AnswersAreTheirs == Spec => []AnswersAreFresh
<1>1. Init => BusInv /\ ConsoleTypes
  <2> SUFFICES ASSUME Init  PROVE BusInv /\ ConsoleTypes
    OBVIOUS
  <2>1. Rtu!Init
    BY DEF Init
  <2>2. Rtu!NoCall \in Calls /\ Rtu!NoCommand = [at |-> "none", cmd |-> "none", saved |-> "none", asked |-> FALSE]
    BY DeviceAssumption DEF Rtu!RtuAssumption, Requested, Rtu!NoCall, Calls, Rtu!Results, Rtu!NoCommand
  <2>3. BusTypes
    BY <2>1, <2>2, DeviceAssumption DEF Rtu!RtuAssumption, Rtu!Init, BusTypes
  <2>4. /\ requests = <<>> /\ owed = {} /\ rx = <<>>
        /\ \A x \in Rtu!Callers : call[x].at = "none" /\ call[x].got = <<>> /\ call[x].result = "none"
    BY <2>1 DEF Rtu!Init, Rtu!NoCall
  <2>5. ConsoleTypes
    BY <2>1, <2>2 DEF Rtu!Init, ConsoleTypes
  <2> QED  BY <2>3, <2>4, <2>5 DEF BusInv, NoLater, Exchange
<1>2. BusInv /\ ConsoleTypes /\ [Next]_vars => BusInv' /\ ConsoleTypes'
  BY DeviceSteps, BusNext, ConsoleTypesKeep DEF BusInv
<1>3. BusInv => AnswersAreFresh
  <2> SUFFICES ASSUME BusInv, NEW x \in Rtu!Callers, call[x].result \in {"ok", "exception"}
               PROVE  /\ \A i \in 1..Len(call[x].got) : call[x].got[i].after = call[x].id
                      /\ call[x].got[1].of \notin Rtu!InProgress
    BY DEF AnswersAreFresh, Rtu!AnswersAreFresh
  <2>1. Exchange(x) /\ call[x] \in Calls
    BY DEF BusInv, BusTypes
  <2>2. call[x].got \in Seq(Rtu!Pieces) /\ call[x].got # <<>>
    BY <2>1 DEF Exchange, Calls
  <2>3. call[x].got[1] \in Rtu!Pieces
    BY <2>2
  <2>4. \A y \in Rtu!Callers : call[y].at = "receive" => call[x].got[1].of # call[y].id
    BY <2>1, <2>3 DEF Exchange, Rtu!Pieces, BusInv, BusTypes, Calls
  <2> QED  BY <2>1, <2>4 DEF Exchange, Rtu!InProgress
<1> QED  BY <1>1, <1>2, <1>3, PTL DEF Spec

-----------------------------------------------------------------------------
(* The terminals.                                                           *)

\* Where a login stands, and that it has been made by this very client or is
\* known to have been left by another.
LoginFields == {"state", "user", "attempts", "locked"}
IsLogin(l, given) ==
  /\ DOMAIN l = LoginFields
  /\ l.state \in {"waiting", "username", "authenticated"}
  /\ l.locked \in {"no", "yes", "over"}
  /\ l.state = "authenticated" => given
Excused(x) == DOMAIN x = {"telnet", "serial", "login"} /\ x.login \in BOOLEAN
LoginInv ==
  /\ entered \in BOOLEAN /\ Excused(spoilt)
  /\ IsLogin(login, entered \/ spoilt.login)

LEMMA NoLoginIs ==
  ASSUME NEW l, NEW b \in BOOLEAN, NEW c \in BOOLEAN, IsLogin(l, b)
  PROVE  IsLogin(Terminal!NoLogin(l), c) /\ Terminal!NoLogin(l).state = "waiting"
BY DEF IsLogin, LoginFields, Terminal!NoLogin

\* What is noted of the lines leaves what is noted of the login.
SameExcuse == Excused(spoilt') /\ spoilt'.login = spoilt.login
LEMMA ExcuseKeeps ==
  ASSUME LoginInv,
         \/ Terminal!TelnetLooks \/ Terminal!Cuts \/ Terminal!Breaks \/ Terminal!TelnetByte
         \/ Terminal!TelnetEnds \/ Terminal!LoginLine \/ Terminal!CommandLine \/ Terminal!PasteByte
         \/ Terminal!PasteEnds \/ Terminal!SerialByte \/ Terminal!WebBegins \/ Terminal!WebEnds
         \/ Terminal!Arrives \/ Terminal!SendsKeys \/ Terminal!Leaves \/ Terminal!TypesKeys
         \/ Terminal!Expires \/ UNCHANGED terminalVars
  PROVE  SameExcuse
<1>1. /\ Excused(spoilt)
      /\ \A t : /\ Excused([spoilt EXCEPT !.telnet = t])
                /\ [spoilt EXCEPT !.telnet = t].login = spoilt.login
      /\ \A t : /\ Excused([spoilt EXCEPT !.serial = t])
                /\ [spoilt EXCEPT !.serial = t].login = spoilt.login
      /\ \A t, u : /\ Excused([spoilt EXCEPT !.telnet = t, !.serial = u])
                   /\ [spoilt EXCEPT !.telnet = t, !.serial = u].login = spoilt.login
  BY DEF LoginInv, Excused
<1>2. CASE spoilt' = spoilt
  BY ONLY <1>1, <1>2 DEF SameExcuse
<1>3. ASSUME NEW t, spoilt' = [spoilt EXCEPT !.telnet = t]  PROVE SameExcuse
  BY ONLY <1>1, <1>3 DEF SameExcuse
<1>4. ASSUME NEW t, spoilt' = [spoilt EXCEPT !.serial = t]  PROVE SameExcuse
  BY ONLY <1>1, <1>4 DEF SameExcuse
<1>5. ASSUME NEW t, NEW u, spoilt' = [spoilt EXCEPT !.telnet = t, !.serial = u]  PROVE SameExcuse
  BY ONLY <1>1, <1>5 DEF SameExcuse
<1>6. CASE Terminal!TelnetByte
  BY <1>3, <1>6 DEF Terminal!TelnetByte
<1>7. CASE Terminal!LoginLine
  BY <1>3, <1>7 DEF Terminal!LoginLine
<1>8. CASE Terminal!CommandLine
  BY <1>3, <1>5, <1>8 DEF Terminal!CommandLine, Terminal!UploadsLine, Terminal!IgnoresLine,
     Terminal!Exits, Terminal!RunsLine
<1>9. CASE Terminal!PasteEnds
  BY <1>3, <1>9 DEF Terminal!PasteEnds
<1>10. CASE Terminal!SerialByte
  BY <1>2, <1>4, <1>10 DEF Terminal!SerialByte
<1>11. CASE Terminal!WebEnds
  BY <1>4, <1>11 DEF Terminal!WebEnds
<1> QED
  BY <1>2, <1>6, <1>7, <1>8, <1>9, <1>10, <1>11
  DEF Terminal!TelnetLooks, Terminal!Cuts, Terminal!Breaks, Terminal!TelnetEnds, Terminal!PasteByte,
      Terminal!WebBegins, Terminal!Arrives, Terminal!SendsKeys, Terminal!Leaves,
      Terminal!TypesKeys, Terminal!Expires, Terminal!ghosts, terminalVars

LEMMA LoginNext ==
  ASSUME LoginInv, Terminal!Next \/ UNCHANGED terminalVars
  PROVE  LoginInv'
<1> DEFINE none == Terminal!NoLogin(login)
           given == entered \/ spoilt.login
<1>1. /\ entered \in BOOLEAN /\ given \in BOOLEAN /\ IsLogin(login, given)
      /\ none.state = "waiting" /\ \A c \in BOOLEAN : IsLogin(none, c)
  BY NoLoginIs DEF LoginInv, Excused
<1> HIDE DEF none
<1>2. CASE Terminal!TelnetLooks
  <2>1. login' \in {login, none} /\ entered' = entered
    BY <1>2 DEF Terminal!TelnetLooks, Terminal!ghosts, none
  <2>2. SameExcuse
    BY <1>2, ExcuseKeeps
  <2> QED  BY ONLY <1>1, <2>1, <2>2 DEF LoginInv, SameExcuse
<1>3. CASE Terminal!TelnetAccepts
  \* Whoever is seen coming finds nobody's login, and who is not is excused.
  <2> DEFINE other == conn = "none" /\ conn' = "up"
             greeted == other /\ reading = "new"
  <2>1. /\ login' = IF greeted THEN none ELSE login
        /\ entered' = (entered /\ ~other)
        /\ spoilt' = IF other THEN [spoilt EXCEPT !.telnet = ~greeted \/ telnet.parse # "none",
                                                  !.login = ~greeted]
                     ELSE spoilt
    BY <1>3 DEF Terminal!TelnetAccepts, Terminal!Greeted, none
  <2>2. Excused(spoilt)
    BY DEF LoginInv
  <2>3. CASE ~other
    BY ONLY <1>1, <2>1, <2>2, <2>3 DEF LoginInv
  <2>4. CASE other
    <3>1. Excused(spoilt') /\ spoilt'.login = ~greeted /\ entered' = FALSE
      BY ONLY <1>1, <2>1, <2>2, <2>4 DEF Excused
    <3>2. CASE greeted
      BY ONLY <1>1, <2>1, <3>1, <3>2 DEF LoginInv
    <3>3. CASE ~greeted
      BY ONLY <1>1, <2>1, <3>1, <3>3 DEF LoginInv, IsLogin
    <3> QED  BY ONLY <3>2, <3>3
  <2> QED  BY ONLY <2>3, <2>4
\* The other steps leave what excuses a login.
<1>4. ASSUME SameExcuse, entered' \in BOOLEAN, IsLogin(login', entered' \/ spoilt.login)
      PROVE  LoginInv'
  BY ONLY <1>4 DEF LoginInv, SameExcuse
<1>5. CASE Terminal!LoginLine
  <2>1. \/ UNCHANGED <<login, entered>>
        \/ /\ login.state # "authenticated" /\ login' = [login EXCEPT !.locked = "no", !.attempts = 0]
           /\ UNCHANGED entered
        \/ login' = [login EXCEPT !.state = "username", !.user = telnet.text] /\ UNCHANGED entered
        \/ login' = [login EXCEPT !.state = "authenticated", !.attempts = 0] /\ entered' = TRUE
        \/ /\ login.state = "username" /\ login' = Terminal!Fails
           /\ UNCHANGED entered
    BY <1>5 DEF Terminal!LoginLine
  <2>2. Terminal!Fails \in {[login EXCEPT !.attempts = @ + 1, !.locked = "yes"], [none EXCEPT !.attempts = @ + 1]}
    BY DEF Terminal!Fails, none
  <2>3. /\ DOMAIN login = LoginFields /\ DOMAIN none = LoginFields
        /\ login.state \in {"waiting", "username", "authenticated"}
        /\ login.state = "authenticated" => given
        /\ login.locked \in {"no", "yes", "over"}
        /\ none.state = "waiting" /\ none.locked \in {"no", "yes", "over"}
    BY ONLY <1>1 DEF IsLogin
  <2> DEFINE Fine == entered' \in BOOLEAN /\ IsLogin(login', entered' \/ spoilt.login)
  <2>4. ASSUME UNCHANGED <<login, entered>>  PROVE Fine
    BY ONLY <1>1, <2>4
  <2>5. ASSUME login.state # "authenticated", login' = [login EXCEPT !.locked = "no", !.attempts = 0],
               UNCHANGED entered
        PROVE  Fine
    BY ONLY <1>1, <2>3, <2>5 DEF IsLogin, LoginFields
  <2>6. ASSUME login' = [login EXCEPT !.state = "username", !.user = telnet.text], UNCHANGED entered
        PROVE  Fine
    BY ONLY <1>1, <2>3, <2>6 DEF IsLogin, LoginFields
  <2>7. ASSUME login' = [login EXCEPT !.state = "authenticated", !.attempts = 0], entered' = TRUE
        PROVE  Fine
    BY ONLY <1>1, <2>3, <2>7 DEF IsLogin, LoginFields
  <2>8. ASSUME login.state = "username", login' = Terminal!Fails, UNCHANGED entered  PROVE Fine
    BY ONLY <1>1, <2>2, <2>3, <2>8 DEF IsLogin, LoginFields
  <2>9. Fine
    BY ONLY <2>1, <2>4, <2>5, <2>6, <2>7, <2>8
  <2>10. SameExcuse
    BY <1>5, ExcuseKeeps
  <2> QED  BY ONLY <1>4, <2>9, <2>10
<1>6. CASE UNCHANGED <<login, entered>> /\ SameExcuse
  BY ONLY <1>1, <1>4, <1>6
<1>7. CASE Terminal!CommandLine
  <2>1. SameExcuse
    BY <1>7, ExcuseKeeps
  <2>2. CASE Terminal!Exits
    <3>1. login' = [none EXCEPT !.attempts = 0, !.locked = "no"] /\ entered' = entered
      BY <2>2 DEF Terminal!Exits, none
    <3>2. DOMAIN none = LoginFields /\ none.state \in {"waiting", "username", "authenticated"}
          /\ none.state # "authenticated"
      BY ONLY <1>1 DEF IsLogin
    <3>3. IsLogin(login', entered' \/ spoilt.login)
      BY ONLY <3>1, <3>2 DEF IsLogin, LoginFields
    <3> QED  BY ONLY <1>1, <1>4, <2>1, <3>1, <3>3
  <2> QED
    BY <1>6, <1>7, <2>1, <2>2
    DEF Terminal!CommandLine, Terminal!UploadsLine, Terminal!IgnoresLine, Terminal!RunsLine
<1>8. CASE Terminal!Expires
  <2>1. login' = [login EXCEPT !.locked = "over"] /\ entered' = entered
    BY <1>8 DEF Terminal!Expires, Terminal!ghosts
  <2>2. IsLogin(login', given)
    BY ONLY <1>1, <2>1 DEF IsLogin, LoginFields
  <2>3. SameExcuse
    BY <1>8, ExcuseKeeps
  <2> QED  BY ONLY <1>1, <1>4, <2>1, <2>2, <2>3
<1> QED
  BY <1>2, <1>3, <1>5, <1>6, <1>7, <1>8, ExcuseKeeps
  DEF Terminal!Next, Terminal!Cuts, Terminal!Breaks, Terminal!TelnetByte, Terminal!TelnetEnds,
      Terminal!PasteByte, Terminal!PasteEnds, Terminal!SerialByte, Terminal!WebBegins,
      Terminal!WebEnds, Terminal!Arrives, Terminal!SendsKeys, Terminal!Leaves,
      Terminal!TypesKeys, Terminal!ghosts, terminalVars

\* A Telnet client that telnet_server_loop has seen coming runs commands only
\* after it has given a name and a password itself, whatever client was there
\* before it, however that one has gone or was cut off, and whatever the other
\* terminals do the while.
THEOREM LoginsComeFirst == Spec => []Terminal!NoticedLogin
<1>1. Init => LoginInv
  <2> SUFFICES ASSUME Init  PROVE LoginInv
    OBVIOUS
  <2>1. Terminal!Init
    BY DEF Init
  <2>2. /\ entered = FALSE
        /\ login = [state |-> "waiting", user |-> Terminal!None, attempts |-> 0, locked |-> "no"]
        /\ spoilt = [telnet |-> FALSE, serial |-> FALSE, login |-> FALSE]
    BY <2>1 DEF Terminal!Init
  <2> QED  BY ONLY <2>2 DEF LoginInv, IsLogin, LoginFields, Excused
<1>2. LoginInv /\ [Next]_vars => LoginInv'
  BY DeviceSteps, LoginNext
<1>3. LoginInv => Terminal!NoticedLogin
  BY DEF LoginInv, IsLogin, Terminal!LoginFirst, Terminal!NoticedLogin
<1> QED  BY <1>1, <1>2, <1>3, PTL DEF Spec
=============================================================================
