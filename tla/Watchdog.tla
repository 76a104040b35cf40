----------------------------- MODULE Watchdog -----------------------------
(***************************************************************************)
(* Crashes in a row and the safe mode (watchdog_monitor.cpp).  At each     *)
(* start watchdog_init looks at why the device was reset and how long it   *)
(* had been up; after SafeStreak crashes with less than ten minutes        *)
(* between them it starts in safe mode.  The uptime is kept in memory that *)
(* outlives every reset but that of the power.                             *)
(*                                                                         *)
(* A crash is a panic or a watchdog's reset, and may come at any moment:   *)
(* before watchdog_init, while it runs, later.  The ten minutes are an     *)
(* event, Settle.  The watchdogs themselves, their timeouts and the log of *)
(* the last error are left out.                                            *)
(***************************************************************************)
EXTENDS Naturals

CONSTANTS
  SafeStreak,   \* WATCHDOG_SAFE_MODE_STREAK
  MaxStreak,    \* the counter's limit, 255
  MaxEnds       \* bound: resets of the model

WatchdogAssumption ==
  SafeStreak \in Nat \ {0} /\ MaxStreak \in Nat /\ SafeStreak <= MaxStreak /\ MaxEnds \in Nat

VARIABLES
  phase,    \* "start": before watchdog_init; "init": in it; "up";
            \* "reboot": in the last 200 ms of watchdog_reboot_for
  reason,   \* of the last reset
  settled,  \* up for WATCHDOG_STABLE_UPTIME_MS
  cleared,  \* g_streak_cleared
  state,    \* g_watchdog_state
  nvs,      \* its copy in flash
  rtcLong,  \* the uptime in RTC memory is that of a settled run
  ends,     \* number of resets so far
  \* For the properties only:
  bad,      \* crashes and reboots for a program since the last settled run or reset
  late      \* of these, the ones that watchdog_init cannot have missed

vars == <<phase, reason, settled, cleared, state, nvs, rtcLong, ends, bad, late>>
history == <<bad, late>>

States == [streak : 0..MaxStreak, safe : BOOLEAN]
Next1(n) == IF n < MaxStreak THEN n + 1 ELSE n
Counted(n) == IF n <= MaxEnds THEN n + 1 ELSE n

Init ==
  /\ phase = "start" /\ reason = "power" /\ settled = FALSE /\ cleared = FALSE
  /\ nvs = [streak |-> 0, safe |-> FALSE] /\ state = nvs
  /\ rtcLong = FALSE /\ ends = 0 /\ bad = 0 /\ late = 0

\* The streak a start finds: one more if the last run was short or unknown.
Judged(s) == IF reason # "crash" THEN s ELSE IF rtcLong THEN 1 ELSE Next1(s)

WatchdogInit ==
  /\ phase = "start" /\ phase' = "init"
  /\ LET n == Judged(nvs.streak)
     IN  state' = [streak |-> n, safe |-> nvs.safe \/ n >= SafeStreak]
  /\ rtcLong' = FALSE
  /\ UNCHANGED <<reason, settled, cleared, nvs, ends, history>>

InitDone ==
  /\ phase = "init" /\ phase' = "up"
  /\ nvs' = state /\ settled' = FALSE /\ cleared' = FALSE
  /\ UNCHANGED <<reason, state, rtcLong, ends, history>>

Settle ==
  /\ phase = "up" /\ ~settled /\ settled' = TRUE
  /\ UNCHANGED <<phase, reason, cleared, state, nvs, rtcLong, ends, history>>

\* watchdog_feed, in every round of the main loop.
Feed ==
  /\ phase = "up"
  /\ rtcLong' = settled
  /\ IF settled /\ ~cleared
     THEN /\ cleared' = TRUE /\ state' = [state EXCEPT !.streak = 0]
          /\ nvs' = IF state.streak # 0 THEN state' ELSE nvs
          /\ bad' = 0 /\ late' = 0
     ELSE UNCHANGED <<cleared, state, nvs, history>>
  /\ UNCHANGED <<phase, reason, settled, ends>>

Reset(why) ==
  /\ ends < MaxEnds /\ ends' = ends + 1
  /\ phase' = "start" /\ reason' = why
  /\ UNCHANGED <<settled, cleared, state, nvs>>

\* What comes after a settled run is the first of a row.
Crash ==
  /\ Reset("crash") /\ UNCHANGED rtcLong
  /\ bad' = Counted(bad)
  /\ late' = IF phase # "up" THEN late ELSE IF rtcLong THEN 1 ELSE Counted(late)

\* A crash that watchdog_init has not saved yet is lost with the power.
PowerLoss ==
  /\ Reset("power") /\ rtcLong' = FALSE
  /\ late' = IF phase \in {"start", "init"} THEN 0 ELSE late
  /\ UNCHANGED bad

Restart == phase = "up" /\ Reset("software") /\ UNCHANGED <<rtcLong, history>>

\* Mutant: the controlled reboot is not counted.
RebootForFree ==
  /\ phase = "up" /\ ~state.safe /\ phase' = "reboot"
  /\ bad' = Counted(bad)
  /\ late' = IF settled THEN 1 ELSE Counted(late)
  /\ UNCHANGED <<reason, settled, cleared, state, nvs, rtcLong, ends>>

\* An ST program's watchdog asks for it; in safe mode no program runs.
RebootFor ==
  /\ phase = "up" /\ ~state.safe
  /\ state' = [state EXCEPT !.streak = IF ~settled /\ @ < MaxStreak THEN @ + 1 ELSE 1]
  /\ nvs' = state' /\ phase' = "reboot"
  /\ bad' = Counted(bad)
  /\ late' = IF settled THEN 1 ELSE Counted(late)
  /\ UNCHANGED <<reason, settled, cleared, rtcLong, ends>>

RebootDone == phase = "reboot" /\ Reset("software") /\ UNCHANGED <<rtcLong, history>>

Clear(s) ==
  /\ phase = "up" /\ state' = s /\ nvs' = s
  /\ bad' = 0 /\ late' = 0
  /\ UNCHANGED <<phase, reason, settled, cleared, rtcLong, ends>>

ClearSafeMode == Clear([streak |-> 0, safe |-> FALSE])
ResetStats == Clear([state EXCEPT !.streak = 0])

Next == \/ WatchdogInit \/ InitDone \/ Settle \/ Feed
        \/ Crash \/ PowerLoss \/ Restart \/ RebootFor \/ RebootDone
        \/ ClearSafeMode \/ ResetStats

Spec == Init /\ [][Next]_vars

-----------------------------------------------------------------------------
TypeOK ==
  /\ phase \in {"start", "init", "up", "reboot"}
  /\ reason \in {"power", "software", "crash"}
  /\ settled \in BOOLEAN /\ cleared \in BOOLEAN /\ rtcLong \in BOOLEAN
  /\ state \in States /\ nvs \in States
  /\ ends \in 0..MaxEnds /\ bad \in Nat /\ late \in Nat

\* A device that keeps crashing, or keeps being rebooted for its programs,
\* within ten minutes of each start, is in safe mode from the third time on:
\* power failures and restarts in between do not hide it
\* (watchdog_monitor.h: "saa en gentagen "reboot" ogsaa ender i safe mode").
CrashLoopIsCaught == phase = "up" /\ late >= SafeStreak => state.safe

\* Safe mode, kept over every restart, is entered only after that many, and
\* left only when somebody clears it ("forlades IKKE automatisk").
SafeModeIsEarned ==
  [][/\ nvs.safe => nvs'.safe \/ ClearSafeMode
     /\ ~nvs.safe /\ nvs'.safe => bad >= SafeStreak]_vars
=============================================================================
