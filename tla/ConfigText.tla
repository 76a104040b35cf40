----------------------------- MODULE ConfigText -----------------------------
(***************************************************************************)
(* "show config" as the set commands that make the configuration again     *)
(* (cli_show.cpp), a device fresh from the factory, and the device after a *)
(* start from a saved configuration (config_apply and the drivers' init).  *)
(*                                                                         *)
(* The text is a sequence of the lines ConfigCommands executes.  A comment *)
(* is no line.  Passwords are printed as asterisks.  What is printed with  *)
(* few digits (a scale) is rounded here, and a text with blanks falls      *)
(* apart into words when it is read again.                                 *)
(***************************************************************************)
EXTENDS ConfigCommands

When(condition, lines) == IF condition THEN lines ELSE <<>>
Switch(b) == IF b THEN "enable" ELSE "disable"
Stars == << <<"********">> >>
\* A text in a line: a word of its own for each of its words.
Words(text) == [i \in DOMAIN text |-> <<text[i]>>]
\* A line for each of some fields of a section, under the names on the right.
Lines(head, section, fields, names) ==
  [i \in DOMAIN fields |-> <<head, names[i], section[fields[i]]>>]

\* %g and %.2f: six digits of a number of ten millionths, two of thousandths.
Digits[n \in Nat] == IF n < 10 THEN 1 ELSE 1 + Digits[n \div 10]
RoundTo(n, unit) == ((n + unit \div 2) \div unit) * unit
SixDigits(n) == IF Digits[n] <= 6 THEN n ELSE RoundTo(n, 10 ^ (Digits[n] - 6))

-----------------------------------------------------------------------------
\* The sections of the text, in their order.

ModbusText(c) ==
  LET UartLine(role) == <<"modbus", role, "uart", Uarts[c.modbus[role] + 1]>>
      Delay(head, section) ==
        When(section.delay # 0, << <<head, "inter-frame-delay", section.delay>> >>)
  IN  << <<"modbus", "mode", c.modbus.mode>>, UartLine("slave"), UartLine("master"),
         <<"modbus-slave", "enabled", OnOff(c.slave.on)>> >>
      \o When(c.slave.on,
              Lines("modbus-slave", c.slave, <<"id", "baud", "parity", "stop">>,
                    <<"slave-id", "baudrate", "parity", "stop-bits">>)
              \o Delay("modbus-slave", c.slave))
      \o << <<"modbus-master", "enabled", OnOff(c.master.on)>> >>
      \o When(c.master.on,
              Lines("modbus-master", c.master, <<"baud", "parity", "stop", "timeout">>,
                    <<"baudrate", "parity", "stop-bits", "timeout">>)
              \o Delay("modbus-master", c.master)
              \o Lines("modbus-master", c.master, <<"requests", "ttl", "cache", "queue">>,
                       <<"max-requests", "cache-ttl", "cache-size", "queue-size">>))

\* Nothing of an analog output but its mode.
AnalogText(c) ==
  LET InputLine(ch) ==
        LET a == c.analog[ch]
        IN  <<"analog", ch, "enabled", OnOff(a.on), "scale", SixDigits(a.scale),
              "offset", a.offset, "samples", a.samples>>
  IN  <<InputLine("vi1"), InputLine("ii1"),
        <<"ao1", "mode", c.modbus["ao1"]>>, <<"ao2", "mode", c.modbus["ao2"]>> >>

ModuleText(c) ==
  LET PinsOf(uart) ==
        LET p == c.rs485[uart]
        IN  When(p.tx # Unused,
                 << <<"modul", "rs485", uart, "tx", p.tx, "rx", p.rx>>
                    \o When(p.dir # Unused, <<"dir", p.dir>>) >>)
  IN  PinsOf("uart1") \o PinsOf("uart2") \o << <<"modul", "ethernet", Switch(c.eth.on)>> >>

SystemText(c) ==
  LET name == IF c.system.hostname = <<>> THEN <<"modbus-esp32">> ELSE c.system.hostname
  IN  << <<"hostname">> \o Words(name) >>
      \o When(c.system.description # <<>>, << <<"description">> \o Words(c.system.description) >>)
      \o << <<"echo", OnOff(c.system.echo)>>, <<"gpio", 2, Switch(c.system.gpio2)>> >>

AddressText(head, section) ==
  << <<head, "dhcp", OnOff(section.dhcp)>> >>
  \o When(~section.dhcp,
          LET fields == <<"ip", "gateway", "netmask", "dns">>
          IN  Lines(head, section, fields, fields))

WifiText(c) ==
  << <<"wifi", Switch(c.wifi.on)>> >>
  \o When(c.wifi.on,
          When(c.wifi.ssid # <<>>, << <<"wifi", "ssid">> \o Words(c.wifi.ssid) >>)
          \o When(c.wifi.password # <<>>, << <<"wifi", "password">> \o Stars >>)
          \o AddressText("wifi", c.wifi)
          \o << <<"wifi", "power-save", OnOff(c.wifi.power)>> >>)

\* The old user name and password are those without RBAC.
TelnetText(c) ==
  << <<"telnet", Switch(c.telnet.on)>> >>
  \o When(c.telnet.on,
          When(~c.rbac.on,
               When(c.telnet.user # <<>>, << <<"telnet", "user">> \o Words(c.telnet.user) >>)
               \o When(c.telnet.pass # <<>>, << <<"telnet", "pass">> \o Stars >>))
          \o << <<"telnet", "port", c.telnet.port>> >>)

EthernetText(c) ==
  << <<"ethernet", Switch(c.eth.on)>> >> \o When(c.eth.on, AddressText("ethernet", c.eth))

HttpText(c) ==
  << <<"http", Switch(c.http.on)>> >>
  \o When(c.http.on,
          << <<"http", "tls", Switch(c.http.tls)>>, <<"http", "port", c.http.port>>,
             <<"http", "https-port", c.http["https-port"]>>, <<"http", "api", Switch(c.http.api)>> >>
          \o When(~c.rbac.on,
                  << <<"http", "auth", Switch(c.http.auth)>> >>
                  \o When(c.http.auth,
                          When(c.http.username # <<>>,
                               << <<"http", "username">> \o Words(c.http.username) >>)
                          \o When(c.http.password # <<>>, << <<"http", "password">> \o Stars >>)))
          \o << <<"http", "priority", c.http.priority>> >>)

RbacText(c) ==
  LET UserLine(u) == <<"user">> \o Words(u.name) \o << <<"password">> >> \o Stars
                     \o << <<"roles">>, rbac_roles_to_str(u.roles), <<"privilege">>, <<u.privilege>> >>
      users == SelectSeq(SetToSortSeq(DOMAIN c.rbac.users, <), LAMBDA i : c.rbac.users[i] # NoUser)
  IN  When(c.rbac.on, [i \in DOMAIN users |-> UserLine(c.rbac.users[users[i]])])

SseText(c) ==
  LET Shown(v, range, default) == IF v \in range THEN v ELSE default
  IN  << <<"sse", Switch(c.sse.on)>> >>
      \o When(c.sse.on,
              << <<"sse", "port", c.sse.port>>,
                 <<"sse", "max-clients", Shown(c.sse.clients, 1..5, 3)>>,
                 <<"sse", "interval", Shown(c.sse.interval, 50..5000, 100)>>,
                 <<"sse", "heartbeat", Shown(c.sse.heartbeat, 1000..60000, 15000)>> >>)

\* A program is named when it has a text or is on.
LogicText(d) ==
  LET ids == SelectSeq(SetToSortSeq(DOMAIN d.programs, <),
                       LAMBDA i : d.programs[i].text \/ d.programs[i].on)
  IN  << <<"logic-interval", d.cfg.logic.interval>> >>
      \o [i \in DOMAIN ids |->
            <<"logic", ids[i], IF d.programs[ids[i]].on THEN "enabled" ELSE "disabled">>]

PersistText(c) ==
  LET groups == c.persist.groups
      GroupLine(i) == <<"persist", "group", i, "name", groups[i].name, "regs">> \o groups[i].regs
  IN  When(c.persist.on /\ groups # <<>>,
           << <<"persist", "enable">> >> \o [i \in DOMAIN groups |-> GroupLine(i)])

\* Counters and timers are printed from the engines.  Of a mode, the values
\* it works with.
PairsOf(keys, names) == [i \in DOMAIN names |-> <<names[i], keys[names[i]]>>]
CounterText(id, c) ==
  LET k == [c.keys EXCEPT !["scale"] = RoundTo(@, 10), !["compare-value"] = <<0, @[2]>>]
      Control(pairs) == <<"counter", id, "control">> \o pairs
  IN  IF ~c.on THEN << <<"counter", id, "disable">> >>
      ELSE << <<"counter", id, "mode", 1, <<"parameter">> >>
              \o PairsOf(k, <<"hw-mode", "edge", "prescaler", "resolution", "direction", "scale",
                              "start", "debounce">>)
              \o When(k["debounce"] = "on", PairsOf(k, <<"debounce-time">>))
              \o PairsOf(k, <<"input-dis">>)
              \o When(k["hw-mode"] = "encoder", PairsOf(k, <<"dt-dis">>))
              \o When(k["compare"] = "enable",
                      PairsOf(k, <<"compare", "compare-mode", "compare-source", "compare-value",
                                   "reset-on-read">>)) >>
           \o When(c.auto, <<Control(<< <<"auto-start", "on">>, <<"running", "on">> >>)>>)
           \o When(c.ror, <<Control(<< <<"counter-reg-reset-on-read", "on">> >>)>>)

TimerShows ==
  << <<"p1-duration", "p1-output", "p2-duration", "p2-output", "p3-duration", "p3-output">>,
     <<"pulse-ms", "p1-output", "p2-output">>,
     <<"on-ms", "off-ms", "p1-output", "p2-output">>,
     <<"input-dis", "trigger-edge", "delay-ms", "p1-output">> >>
TimerText(id, t) ==
  IF ~t.on THEN << <<"timer", id, "disable">> >>
  ELSE << <<"timer", id, "mode", t.mode, <<"parameter">> >>
          \o PairsOf(t.keys, TimerShows[t.mode] \o <<"output-coil", "ctrl-reg">>) >>

GpioText(c) ==
  [i \in DOMAIN c.gpio |->
     <<"gpio", c.gpio[i].pin, IF c.gpio[i].input THEN "input" ELSE "coil", c.gpio[i].reg>>]

\* cli_cmd_show_config.
Text(d) ==
  LET c == d.cfg
      PerId(F(_, _), parts) == FlattenSeq([id \in DOMAIN parts |-> F(id, parts[id])])
  IN  ModbusText(c) \o AnalogText(c) \o ModuleText(c) \o SystemText(c) \o WifiText(c)
      \o TelnetText(c) \o EthernetText(c) \o HttpText(c) \o RbacText(c) \o SseText(c)
      \o << <<"rate-limit", Switch(d.limit)>> >> \o LogicText(d) \o PersistText(c)
      \o PerId(CounterText, d.counters) \o PerId(TimerText, d.timers) \o GpioText(c)

\* The text, pasted line by line: each on what the lines before have made
\* (bound as a value, for TLC to have it before it goes on).
Paste(d, lines) ==
  LET made[n \in 0..Len(lines)] ==
        IF n = 0 THEN d
        ELSE CHOOSE after \in {SetLine(before, lines[n]) : before \in {made[n - 1]}} : TRUE
  IN  made[Len(lines)]

-----------------------------------------------------------------------------
\* A configuration from the factory (config_init_defaults).

BusDefaults == [on |-> FALSE, baud |-> 9600, parity |-> "none", stop |-> 1, timeout |-> 500,
                delay |-> 0, requests |-> 10, ttl |-> 0, cache |-> 32, queue |-> 16]
RunningDefaults == [BusDefaults EXCEPT !.delay = 10]
NoPins == [tx |-> Unused, rx |-> Unused, dir |-> Unused]
StaticAddress(ip) == [dhcp |-> TRUE, ip |-> ip, gateway |-> "192.168.1.1",
                      netmask |-> "255.255.255.0", dns |-> "8.8.8.8"]
\* Zeros: only the engines have counter_config_defaults, timer_config_defaults.
NoCounter ==
  [counter_config_defaults EXCEPT
     !.keys = [k \in DOMAIN @ |->
       CASE k \in {"debounce", "reset-on-read"} -> "off"
         [] k \in {"hw-mode", "edge", "direction", "compare", "start", "compare-value"} -> @[k]
         [] OTHER -> 0]]
NoTimer == [on |-> FALSE, mode |-> 0, keys |-> [k \in TimerKeys |-> 0]]
FactoryConfig ==
  [modbus |-> [mode |-> "slave", slave |-> 0, master |-> 0,
               ao1 |-> "voltage", ao2 |-> "voltage"],
   slave |-> [on |-> TRUE, id |-> 1, baud |-> 9600, parity |-> "none", stop |-> 1, delay |-> 0],
   master |-> BusDefaults,
   analog |-> [ch \in Channels |->
     [on |-> FALSE, samples |-> 1,
      scale |-> CASE ch = "vi1" -> 3030303 [] ch = "ii1" -> 4848485 [] ch = "ao1" -> 39215686,
      offset |-> IF ch = "ii1" THEN 0 - 825 ELSE 0]],
   rs485 |-> [u \in {"uart1", "uart2"} |-> NoPins],
   system |-> [hostname |-> <<"modbus-esp32">>, description |-> <<>>, echo |-> TRUE,
               gpio2 |-> FALSE],
   wifi |-> [on |-> TRUE, ssid |-> <<>>, password |-> <<>>, power |-> FALSE]
            @@ StaticAddress("192.168.1.100"),
   eth |-> [on |-> FALSE] @@ StaticAddress("192.168.1.101"),
   telnet |-> [on |-> TRUE, user |-> <<"admin">>, pass |-> <<"telnet123">>, port |-> 23],
   http |-> [on |-> TRUE, port |-> 80, auth |-> TRUE, mode |-> "bearer", username |-> <<"admin">>,
             password |-> <<"modbus123">>, api |-> TRUE, tls |-> FALSE, priority |-> "normal"]
            @@ [k \in {"https-port"} |-> 443],
   sse |-> [on |-> TRUE, port |-> 0, clients |-> 2, interval |-> 100, heartbeat |-> 15000],
   ntp |-> [on |-> FALSE, server |-> <<"pool.ntp.org">>, timezone |-> <<"CET">>, interval |-> 60],
   rbac |-> [on |-> FALSE, users |-> [i \in 1..2 |-> NoUser]],
   modules |-> [counters |-> TRUE, timers |-> TRUE, st_logic |-> TRUE],
   logic |-> [interval |-> 10],
   persist |-> [on |-> FALSE, groups |-> <<>>],
   counters |-> [id \in 1..2 |-> NoCounter], timers |-> [id \in 1..2 |-> NoTimer],
   gpio |-> <<>>]

-----------------------------------------------------------------------------
\* The start of a device from a configuration.

\* Engines begin with their defaults and take over what is enabled.
StartedCounters(c) ==
  [id \in DOMAIN c.counters |->
     IF c.counters[id].on /\ CounterIsTaken(c.counters[id])
     THEN counter_config_sanitize(c.counters[id]) ELSE counter_config_defaults]
StartedTimers(c) ==
  [id \in DOMAIN c.timers |->
     IF c.timers[id].on /\ c.timers[id].mode \in 1..4
     THEN timer_config_sanitize(c.timers[id]) ELSE timer_config_defaults(id)]

\* register_allocator_init, in its order: counters, timers whose control
\* register it has, and the analog channels.
Allocate(d, requests) ==
  FoldLeft(LAMBDA e, q : register_allocator_allocate_range(e, {q[1]}, q[2], q[3]), d, requests)
register_allocator_init(d) ==
  LET counted == FoldLeft(register_allocator_allocate_counter, [d EXCEPT !.owner = {}],
                          SetToSortSeq(DOMAIN d.counters, <))
      timed == [id \in DOMAIN d.timers |-> <<d.timers[id].keys["ctrl-reg"], "timer", id>>]
      analog == << <<0, "analog", "vi1">>, <<1, "analog", "vi1">>, <<8, "analog", "ii1">>,
                   <<9, "analog", "ii1">>, <<16, "analog", "ao1">> >>
  IN  Allocate(Allocate(counted, SelectSeq(timed, LAMBDA q : d.timers[q[3]].on)),
               SelectSeq(analog, LAMBDA q : d.cfg.analog[q[3]].on))

\* The running master is the stored one only on a device that starts as a
\* master; otherwise it is what it was compiled with.
Boot(c, programs, wdt) ==
  register_allocator_init(
    [cfg |-> c, counters |-> StartedCounters(c), timers |-> StartedTimers(c),
     master |-> IF c.modbus.mode = "master" THEN c.master ELSE RunningDefaults,
     run |-> {id \in DOMAIN c.counters : c.counters[id].on /\ c.counters[id].auto},
     programs |-> programs, owner |-> {}, limit |-> TRUE, wdt |-> wdt])

WatchdogDefaults == [on |-> TRUE, timeout |-> 30, ext |-> FALSE]
Factory(programs) == Boot(FactoryConfig, programs, WatchdogDefaults)
=============================================================================
