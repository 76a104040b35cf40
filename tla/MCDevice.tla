------------------------------ MODULE MCDevice ------------------------------
(***************************************************************************)
(* Parts of the device that share nothing, each with calls and failures of *)
(* its own.  TLC explores one after the other: `part' says which, and the  *)
(* others stay as they start.                                              *)
(***************************************************************************)
EXTENDS Integers

CONSTANTS Tasks, Names, Regs, Values, MaxGroups, MaxRegs, MaxAuto, GroupCalls,
          SafeStreak, MaxStreak, MaxEnds,
          MaxValue, PcntMod, Big, Burst, CounterCalls,
          TimerMod, TimerCalls,
          Origins, Editable, SettingCalls, ConfigCalls,
          Top, MaxQuantity, Silence, BufferMax, MaxSent, MaxNoise,
          MaxClients, Limits, Counters, Timers, Registers, First, Statistics, External,
          Queries, NoEntry, NoItem,
          BusTask, Consoles, RateOf, Rates, Asks, MaxAsked,
          Sends, Types, WebLines, Accounts, UploadLine, EndLine, ExitLine, LineSize, UploadSize,
          HistorySize, PasteMax, MaxAttempts, TerminalCalls

VARIABLES part,
  pr, reg, job, flash, calls, kept, keptFlash,
  phase, reason, settled, cleared, state, nvs, rtcLong, ends, bad, late,
  counter, value, over, counting, pending, mirror, hw, lastHw, poll, gate, ctrl, last, counterJob,
    bits, due, torn, counterCalls,
  timer, active, timerPhase, start, coil, input, prev, ready, commands, clock, step, own, now,
    age, ahead, timerCalls,
  up, settings, prog, keys, blob, dat, file, todo, saved, lost, settingCalls,
  line, slaveState, buffer, quiet, request, response, table, asked, rest, held, sent, noise,
    calm, may, done, open,
  device, subject, configCalls,
  count, slots, workers, queue, worker, compared, acceptor, stored, asking, cell, told, highest,
  master, port, mutex, paused, busy, console, call, requests, owed, rx,
  conn, waiting, wire, telnet, lastCr, login, was, reading, budget, serial, serialWire, history, nav,
    upload, web, terminalCalls, ideal, meant, entered, spoilt

groupVars == <<pr, reg, job, flash, calls, kept, keptFlash>>
watchVars == <<phase, reason, settled, cleared, state, nvs, rtcLong, ends, bad, late>>
counterVars == <<counter, value, over, counting, pending, mirror, hw, lastHw, poll, gate, ctrl, last,
                 counterJob, bits, due, torn, counterCalls>>
timerVars == <<timer, active, timerPhase, start, coil, input, prev, ready, commands, clock, step,
               own, now, age, ahead, timerCalls>>
settingVars == <<up, settings, prog, keys, blob, dat, file, todo, saved, lost, settingCalls>>
slaveVars == <<line, slaveState, buffer, quiet, request, response, table, asked, rest, held, sent,
               noise, calm, may, done, open>>
configVars == <<device, subject, configCalls>>
sseVars == <<count, slots, workers, queue, worker, compared, acceptor, stored, asking, cell, told, highest>>
rtuVars == <<master, port, mutex, paused, busy, console, call, requests, owed, rx>>
terminalVars == <<conn, waiting, wire, telnet, lastCr, login, was, reading, budget, serial, serialWire,
                  history, nav, upload, web, terminalCalls, ideal, meant, entered, spoilt>>
vars == <<part, groupVars, watchVars, counterVars, timerVars, settingVars, slaveVars, configVars,
          sseVars, rtuVars, terminalVars>>

-----------------------------------------------------------------------------
None == -1
CounterOf(m, u, s, c) == [mode |-> m, up |-> u, start |-> s, cmp |-> c, on |-> TRUE]
Configs == {CounterOf("sw", TRUE, 1, 2), CounterOf("sw", FALSE, 2, None),
            CounterOf("encoder", FALSE, 2, 2),
            CounterOf("isr", TRUE, 0, 2), [CounterOf("isr", FALSE, 2, None) EXCEPT !.on = FALSE],
            CounterOf("pcnt", TRUE, 2, None), CounterOf("pcnt", FALSE, 1, None)}

TimerOf(m, a, b, c) == [mode |-> m, on |-> TRUE, rising |-> TRUE,
                        last |-> [p \in 0..2 |-> <<a, b, c>>[p + 1]],
                        level |-> [p \in 0..2 |-> p = 1]]
TimerConfigs == {TimerOf("oneshot", 1, 2, 0), TimerOf("monostable", 0, 2, 0),
                 TimerOf("astable", 2, 1, 0), TimerOf("trigger", 2, 0, 0),
                 TimerOf("trigger", 0, 0, 0),
                 [TimerOf("astable", 1, 1, 0) EXCEPT !.on = FALSE]}

Ask(f, a, n, v) == [fc |-> f, addr |-> a, n |-> n, vals |-> v]
Requests == {Ask("FC01", 1, 2, <<>>), Ask("FC02", 2, 1, <<>>), Ask("FC03", 1, 2, <<>>),
             Ask("FC03", 2, 2, <<>>), Ask("FC04", 1, 1, <<>>), Ask("FC05", 1, 1, <<1>>),
             Ask("FC05", 1, 1, <<2>>), Ask("FC06", 2, 1, <<3>>), Ask("FC0F", 1, 2, <<1, 1>>),
             Ask("FC10", 1, 2, <<2, 2>>), Ask("FC10", 1, 2, <<1>>), Ask("FC03", 1, 0, <<>>),
             Ask("FC07", 1, 1, <<>>)}

MCQueries == {[subscribe |-> {"system"}, listed |-> {}]}

MCRateOf == [s \in {"a"} |-> "r1"]
MCAsks == {[op |-> "read_holding", n |-> 1], [op |-> "write_holding", n |-> 1]}

\* "a" is a name, its password and a line; "U" starts an upload, "E" ends it, "X" ends the session.
MCSends == {<<"a", "enter", "a", "crlf">>, <<"U", "enter", "a", "newline", "E", "newline", "a">>,
            <<"U", "crlf", "left", "a">>, <<"option", "E", "back", "E", "newline">>,
            <<"up", "left", "alt", "home", "a", "enter">>, <<"X", "left", "down", "right", "newline">>}
MCTypes == {<<"U", "enter", "a", "left", "alt">>, <<"up", "right", "back", "down", "E", "crlf">>}
MCWebLines == {<<"U">>, <<"a">>}
MCAccounts == {<<<<"a">>, <<"a">>>>}
MCUploadLine == <<"U">>
MCEndLine == <<"E">>
MCExitLine == <<"X">>

Groups == INSTANCE PersistGroups WITH MaxCalls <- GroupCalls
Watch == INSTANCE Watchdog
Counter == INSTANCE Counters WITH MaxCalls <- CounterCalls, cfg <- counter,
                                  job <- counterJob, calls <- counterCalls
Timer == INSTANCE Timers WITH MaxCalls <- TimerCalls, ClockMod <- TimerMod, cfg <- timer,
                              phase <- timerPhase, ctrl <- commands, calls <- timerCalls
Setting == INSTANCE Settings WITH MaxCalls <- SettingCalls, cfg <- settings, flash <- blob,
                                  calls <- settingCalls
Slave == INSTANCE ModbusSlave WITH state <- slaveState
Config == INSTANCE Configuring WITH MaxCalls <- ConfigCalls, calls <- configCalls
Rooms == INSTANCE SseServer WITH None <- NoItem, prev <- compared
Rtu == INSTANCE RtuMaster WITH Task <- BusTask, MaxSent <- MaxAsked, asked <- requests
Terminal == INSTANCE Terminals WITH MaxCalls <- TerminalCalls, calls <- terminalCalls,
                                    at <- reading

ASSUME DeviceAssumption ==
  /\ Groups!PersistAssumption /\ Watch!WatchdogAssumption
  /\ Counter!CounterAssumption /\ Timer!TimerAssumption
  /\ Setting!SettingsAssumption /\ Slave!SlaveAssumption
  /\ Config!ConfiguringAssumption /\ Rooms!SseAssumption /\ Rtu!RtuAssumption
  /\ Terminal!TerminalAssumption

Init ==
  /\ part \in {"groups", "watch", "counter", "timer", "settings", "slave", "config", "rooms",
               "rtu", "terminals"}
  /\ Groups!Init /\ Watch!Init /\ Slave!Init /\ Terminal!Init
  /\ Counter!Init
  /\ part # "counter" => counter = CounterOf("sw", TRUE, 1, 2) /\ ctrl = {}
  /\ Timer!Init
  /\ part # "timer" => timer = TimerOf("trigger", 0, 0, 0) /\ clock = 0
  /\ Setting!Init
  /\ part # "settings" => blob = Setting!Written(34, 0)
  /\ Rooms!Init
  /\ part # "rooms" => workers = {} /\ stored = CHOOSE l \in Limits : TRUE
  /\ Rtu!Init
  /\ part # "rtu" => ~master.enabled
  /\ master.rate = CHOOSE r \in Rates : \E s \in DOMAIN RateOf : RateOf[s] = r
  /\ IF part = "config" THEN Config!Init ELSE device = <<>> /\ subject = "" /\ configCalls = 0

InGroups ==
  /\ part = "groups"
  /\ UNCHANGED <<part, watchVars, counterVars, timerVars, settingVars, slaveVars,
                 configVars, sseVars, rtuVars, terminalVars>>
InWatch ==
  /\ part = "watch"
  /\ UNCHANGED <<part, groupVars, counterVars, timerVars, settingVars, slaveVars,
                 configVars, sseVars, rtuVars, terminalVars>>
InCounter ==
  /\ part = "counter"
  /\ UNCHANGED <<part, groupVars, watchVars, timerVars, settingVars, slaveVars,
                 configVars, sseVars, rtuVars, terminalVars>>
InTimer ==
  /\ part = "timer"
  /\ UNCHANGED <<part, groupVars, watchVars, counterVars, settingVars, slaveVars,
                 configVars, sseVars, rtuVars, terminalVars>>
InSettings ==
  /\ part = "settings"
  /\ UNCHANGED <<part, groupVars, watchVars, counterVars, timerVars, slaveVars,
                 configVars, sseVars, rtuVars, terminalVars>>
InSlave ==
  /\ part = "slave"
  /\ UNCHANGED <<part, groupVars, watchVars, counterVars, timerVars, settingVars,
                 configVars, sseVars, rtuVars, terminalVars>>
InConfig ==
  /\ part = "config"
  /\ UNCHANGED <<part, groupVars, watchVars, counterVars, timerVars, settingVars,
                 slaveVars, sseVars, rtuVars, terminalVars>>
InRooms ==
  /\ part = "rooms"
  /\ UNCHANGED <<part, groupVars, watchVars, counterVars, timerVars, settingVars,
                 slaveVars, configVars, rtuVars, terminalVars>>
InRtu ==
  /\ part = "rtu"
  /\ UNCHANGED <<part, groupVars, watchVars, counterVars, timerVars, settingVars,
                 slaveVars, configVars, sseVars, terminalVars>>
InTerminals ==
  /\ part = "terminals"
  /\ UNCHANGED <<part, groupVars, watchVars, counterVars, timerVars, settingVars,
                 slaveVars, configVars, sseVars, rtuVars>>

Next == \/ InGroups /\ Groups!Next
        \/ InWatch /\ Watch!Next
        \/ InCounter /\ Counter!Next
        \/ InTimer /\ Timer!Next
        \/ InSettings /\ Setting!Next
        \/ InSlave /\ Slave!Next
        \/ InConfig /\ Config!Next
        \/ InRooms /\ Rooms!Next
        \/ InRtu /\ Rtu!Next
        \/ InTerminals /\ Terminal!Next

Spec == Init /\ [][Next]_vars

-----------------------------------------------------------------------------
\* The properties of the parts: see their modules.

\* Persistent groups: a saved value stays with its register.
ValuesFollow == Groups!ValuesFollow

\* Persistent groups: a start brings back what was saved.
SavedComesBack == Groups!SavedComesBack

\* Watchdog: a loop of crashes ends in safe mode.
CrashLoopIsCaught == Watch!CrashLoopIsCaught

\* Counters: no edge is lost or counted twice.
EveryEdgeOnce == Counter!EveryEdgeOnce

\* Timers: phases last as long as they shall.
PhasesLast == Timer!PhasesLast

\* Settings: what was saved is there after a start, whatever firmware wrote it.
SettingsSurvive == Setting!SettingsSurvive

\* Settings: a restore gives back the device of the backup.
RestoreGivesBackup == Setting!RestoreGivesBackup

\* Modbus slave: an answer to each request, and to the right one.
QuestionsAreAnswered == Slave!QuestionsAreAnswered

\* Configuration: the text of "show config" makes the same settings again; so do
\* a save with a start, and a GET that is posted back.
CopiesComeBack == part = "config" => Config!PasteRestores /\ Config!CopiesComeBack

\* Event stream: when nobody is connected, somebody can be.
RoomWhenIdle == Rooms!RoomWhenIdle

\* RTU bus: what is taken for an answer is none to a request in progress elsewhere.
AnswersAreFresh == Rtu!AnswersAreFresh

\* Terminals: each has the line that was typed on it, and Telnet runs none before a login.
LinesAreTheirs == Terminal!LinesAreTheirs
=============================================================================
