----------------------------- MODULE Configuring -----------------------------
(***************************************************************************)
(* A device that is configured: lines are typed on a console, requests     *)
(* come over REST, and it is saved and started again.  In any order, but   *)
(* each behaviour stays with one subject, for the subjects hardly share    *)
(* anything: the bus, the network, the users, counters and timers, the     *)
(* rest.                                                                   *)
(*                                                                         *)
(* What is asked of it is that the three copies of the configuration the   *)
(* device can give away, the text of "show config", what it saves and what *)
(* a GET shows, make the same device again when they are given back.       *)
(***************************************************************************)
EXTENDS ConfigRest

CONSTANT MaxCalls
ConfiguringAssumption == MaxCalls \in Nat

VARIABLES
  device,     \* see ConfigCommands
  subject,    \* what this behaviour is about
  calls       \* how many calls it has seen
vars == <<device, subject, calls>>

\* Program 1 is compiled, program 2 is a text that has not been.
Programs ==
  <<[on |-> FALSE, compiled |-> TRUE, text |-> TRUE, high |-> FALSE, interval |-> 10],
    [on |-> FALSE, compiled |-> FALSE, text |-> TRUE, high |-> FALSE, interval |-> 10]>>

-----------------------------------------------------------------------------
\* The calls: lines, and requests <<resource, which, body>>.

BusLines ==
  {<<"modbus", "mode", m>> : m \in {"master", "off"}}
  \cup {<<"modbus", role, "uart", "uart2">> : role \in {"slave", "master"}}
  \cup {<<"modbus-slave", "enabled", w>> : w \in {"on", "off"}}
  \cup {<<"modbus-slave", "slave-id", 300>>, <<"modbus-slave", "parity", "even">>,
        <<"modbus-slave", "inter-frame-delay", 5>>, <<"id", 0>>, <<"baud", 300>>}
  \cup {<<"modbus-master", "enabled", w>> : w \in {"on", "off"}}
  \cup {<<"modbus-master", "stop-bits", 2>>, <<"modbus-master", "inter-frame-delay", 0>>,
        <<"modbus-master", "queue-size", 2>>}
BusPosts ==
  {<<"modbus", "slave", [id |-> 7, delay |-> 3]>>,
   <<"modbus", "slave", [mode |-> "off", slave_uart |-> 1, id |-> 0]>>,
   <<"modbus", "master", [on |-> TRUE, mode |-> "master"]>>,
   <<"modbus", "master", [parity |-> "odd", stop |-> 3, requests |-> 300]>>}

NetLines ==
  {<<s, w>> : s \in {"wifi", "telnet", "ethernet", "sse", "ntp"}, w \in {"enable", "disable"}}
  \cup {<<s, "dhcp", "off">> : s \in {"wifi", "ethernet"}}
  \cup {<<"wifi", "ssid", <<"guest", "net">>>>, <<"wifi", "password", <<"secret12">>>>,
        <<"ethernet", "ip", "10.0.0.7">>, <<"telnet", "port", 65536>>, <<"telnet", "port", 2323>>,
        <<"http", "port", 8080>>, <<"http", "enable">>, <<"http", "auth", "off">>,
        <<"http", "tls", "enable">>, <<"sse", "max-clients", 1>>, <<"sse", "interval", 49>>,
        <<"watchdog", "ext", "on">>, <<"modul", "ethernet", "enable">>}
NetPosts ==
  {<<"wifi", 0, [ssid |-> <<"long">>, dhcp |-> FALSE]>>,
   <<"wifi", 0, [netmask |-> "255.0.255.0"]>>,
   <<"ethernet", 0, [dhcp |-> FALSE, on |-> TRUE]>>,
   <<"telnet", 0, [port |-> 70000, user |-> <<>>]>>,
   <<"ntp", 0, [on |-> TRUE, interval |-> 0]>>,
   <<"http", 0, [port |-> 0, mode |-> "none"]>>,
   <<"http", 0, [sse |-> [clients |-> 9, heartbeat |-> 2000]]>>}

UserLines ==
  {<<"user", <<"ann">>, <<"password">>, <<"pw">>, <<"roles">>, <<"api", "cli">>>>,
   <<"user", <<"bob">>, <<"password">>, <<"pw">>, <<"privilege">>, <<"read">>>>,
   <<"user", <<"ann", "lee">>, <<"password">>, <<"pw">>>>,
   <<"delete-user", <<"ann">>>>, <<"rbac", "enable">>, <<"rbac", "disable">>,
   <<"telnet", "user", <<"op">>>>, <<"http", "username", <<"op">>>>}
UserPosts ==
  {<<"users", 0, [name |-> <<"cyd">>, password |-> <<"pw">>]>>,
   <<"users", 0, [name |-> <<"ann">>, password |-> <<"pw">>, privilege |-> "write"]>>,
   <<"users", 0, [name |-> <<"<b>">>, password |-> <<"pw">>]>>,
   <<"delete-user", <<"ann">>, <<>>>>, <<"rbac", 0, [on |-> TRUE]>>}

CounterLine1(pairs) == <<"counter", 1, "mode", 1, <<"parameter">>>> \o pairs
PartLines ==
  {CounterLine1(p) : p \in
     {<<<<"hw-mode", "encoder">>, <<"dt-dis", 3>>, <<"resolution", 64>>>>,
      <<<<"prescaler", 0>>>>, <<<<"resolution", 12>>, <<"scale", 1234>>, <<"debounce", "off">>>>,
      <<<<"compare", "on">>, <<"compare-value", <<1, 5>>>>, <<"reset-on-read", "off">>>>,
      <<<<"enable", "off">>>>}}
  \cup {<<"counter", 1, "control", <<k, "on">>>> :
          k \in {"counter-reg-reset-on-read", "compare-reg-reset-on-read", "auto-start", "running"}}
  \cup {<<"counter", 1, "disable">>, <<"timer", 1, "disable">>,
        <<"timer", 1, "mode", 3, <<"parameter">>, <<"on-ms", 200>>, <<"ctrl-reg", 100>>>>,
        <<"timer", 1, "mode", 1, <<"parameter">>, <<"p1-output", 2>>, <<"ctrl-reg", 185>>>>,
        <<"timer", 2, "mode", 4, <<"parameter">>, <<"input-dis", 7>>, <<"ctrl-reg", 60>>>>}
PartPosts ==
  {<<"counter", 1, [on |-> TRUE, auto |-> TRUE, prescaler |-> 0]>>,
   <<"counter", 1, [on |-> TRUE] @@ ("hw-mode" :> "encoder")>>,
   <<"counter", 1, ("debounce-time" :> 0) @@ ("resolution" :> 64)>>,
   <<"counter-control", 1, [running |-> TRUE]>>, <<"delete-counter", 1, <<>>>>,
   <<"timer", 1, [on |-> TRUE]>>,
   <<"timer", 1, [mode |-> "monostable"] @@ ("ctrl-reg" :> 70000)>>}

OtherLines ==
  {<<"analog", "vi1", "enabled", "on", "scale", 12345678, "samples", 33>>,
   <<"analog", "ao1", "enabled", "on">>, <<"ao1", "mode", "current">>,
   <<"modul", "rs485", "uart1", "tx", 4, "rx", 5>>, <<"modul", "rs485", "uart2", "tx", 4>>,
   <<"hostname", <<"two", "words">>>>, <<"description", <<"hall">>, <<"two">>>>,
   <<"echo", "off">>, <<"gpio", 2, "enable">>, <<"gpio", 4, "input", 10>>,
   <<"gpio", 100, "coil", 300>>, <<"no-gpio", 4>>, <<"ethernet", "enable">>,
   <<"watchdog", "timeout", 60>>, <<"rate-limit", "disable">>,
   <<"logic-interval", 50>>, <<"logic", 1, "enabled">>, <<"logic", 2, "enabled">>,
   <<"logic", 1, "priority", "high">>, <<"logic", 1, "interval", 1>>,
   <<"logic", 1, "delete">>,
   <<"persist", "group", "a", "add", 1, 2>>, <<"persist", "group", "a", "remove", 1>>,
   <<"persist", "group", "a", "delete">>, <<"persist", "enable", "off">>}
OtherPosts ==
  {<<"analog", "ao1", [scale |-> 5, mode |-> "voltage", setpoint |-> 400]>>,
   <<"modules", 0, [timers |-> FALSE]>>, <<"logic", 0, [interval |-> 1]>>,
   <<"watchdog", 0, [timeout |-> 20, action |-> "none"]>>,
   <<"hostname", 0, [hostname |-> <<>>, description |-> <<"x">>]>>,
   <<"rate-limit", 0, [on |-> TRUE]>>}

LinesOf == [bus |-> BusLines, net |-> NetLines, users |-> UserLines, parts |-> PartLines,
            other |-> OtherLines]
PostsOf == [bus |-> BusPosts, net |-> NetPosts, users |-> UserPosts, parts |-> PartPosts,
            other |-> OtherPosts]

-----------------------------------------------------------------------------
Init ==
  /\ device = Factory(Programs)
  /\ subject \in DOMAIN LinesOf
  /\ calls = 0

Call(d) == /\ calls < MaxCalls
           /\ device' = d
           /\ calls' = calls + 1
           /\ UNCHANGED subject

Typed == \E line \in LinesOf[subject] : Call(SetLine(device, line))
Posted == \E p \in PostsOf[subject] : Call(Post(device, p[1], p[2], p[3]).device)
\* A save and a start.  The programs are in files of their own.
Started(d) == Boot(d.cfg, d.programs, d.wdt)
Restart == Call(Started(device))

Next == Typed \/ Posted \/ Restart
Spec == Init /\ [][Next]_vars

-----------------------------------------------------------------------------
\* What pasting the text on another device with the same programs brings
\* back, section by section, and what it cannot: a value the line refuses,
\* all but the first word of a text, digits that are not printed, and what
\* no line is about.

Pasted(d) ==
  Paste(Factory([i \in DOMAIN d.programs |-> [d.programs[i] EXCEPT !.on = FALSE]]), Text(d))

SameFields(c, p, fields, Takes(_, _)) == \A f \in fields : Takes(f, c[f]) => p[f] = c[f]
OneRole(c) ==
  c.modbus.mode = (IF c.slave.on THEN "slave" ELSE IF c.master.on THEN "master" ELSE "off")
  /\ ~(c.slave.on /\ c.master.on)
BusComesBack(c, p) ==
  /\ \A role \in {"slave", "master"} : p.modbus[role] = c.modbus[role]
  /\ OneRole(c) => /\ p.modbus.mode = c.modbus.mode
                   /\ p.slave.on = c.slave.on /\ p.master.on = c.master.on
  /\ OneRole(c) /\ c.slave.on => SameFields(c.slave, p.slave, ToSet(SlaveFields), SlaveTakes)
  /\ c.master.on => SameFields(c.master, p.master, {"timeout", "requests", "ttl", "cache", "queue",
                                                     "baud", "parity", "stop", "delay"},
                               LAMBDA f, v : MasterTakes(f, v) /\ MasterKept(f, v) = v)

AddressComesBack(c, p) ==
  /\ p.dhcp = c.dhcp
  /\ ~c.dhcp => SameFields(c, p, AddressFields, IsAddress)
FirstWord(text) == IF text = <<>> THEN <<>> ELSE <<Head(text)>>
NetworkComesBack(c, p) ==
  /\ \A s \in {"wifi", "telnet", "eth", "sse"} : p[s].on = c[s].on
  /\ c.wifi.on => AddressComesBack(c.wifi, p.wifi) /\ p.wifi.ssid = FirstWord(c.wifi.ssid)
  /\ c.eth.on => AddressComesBack(c.eth, p.eth)
  /\ c.telnet.on => /\ p.telnet.port = c.telnet.port
                    /\ ~c.rbac.on /\ c.telnet.user # <<>> =>
                         p.telnet.user = FirstWord(c.telnet.user)
  /\ c.http.on => SameFields(c.http, p.http, {"tls", "port", "https-port", "api"},
                             LAMBDA f, v : f = "port" => v # 0)
  /\ c.sse.on => p.sse = c.sse

\* Users come back in their order, with asterisks for a password.
UsersOf(c) ==
  LET slots == SelectSeq(SetToSortSeq(DOMAIN c.rbac.users, <), LAMBDA i : c.rbac.users[i] # NoUser)
  IN  [i \in DOMAIN slots |->
         LET u == c.rbac.users[slots[i]] IN <<FirstWord(u.name), u.roles, u.privilege>>]
Distinct(c) == \A i, j \in DOMAIN UsersOf(c) : UsersOf(c)[i][1] = UsersOf(c)[j][1] => i = j
UsersComeBack(c, p) ==
  IF ~c.rbac.on THEN p.rbac.users = [i \in 1..2 |-> NoUser] /\ ~p.rbac.on
  ELSE Distinct(c) => UsersOf(p) = UsersOf(c) /\ p.rbac.on = (UsersOf(c) # <<>>)

CounterComesBack(c, p) ==
  LET shown == {"hw-mode", "edge", "prescaler", "resolution", "direction", "start", "debounce",
                "input-dis"}
               \cup (IF c.keys["debounce"] = "on" THEN {"debounce-time"} ELSE {})
               \cup (IF c.keys["hw-mode"] = "encoder" THEN {"dt-dis"} ELSE {})
               \cup (IF c.keys["compare"] = "enable"
                     THEN {"compare-mode", "compare-source", "reset-on-read"} ELSE {})
  IN  IF ~c.on THEN p = counter_config_defaults
      ELSE /\ p.on /\ p.auto = c.auto /\ p.ror = c.ror
           /\ \A k \in shown : p.keys[k] = c.keys[k]
           /\ p.keys["compare"] = c.keys["compare"]
           /\ p.keys["scale"] \in (c.keys["scale"] - 5)..(c.keys["scale"] + 5)
           /\ c.keys["compare"] = "enable" => p.keys["compare-value"][2] = c.keys["compare-value"][2]

TimerComesBack(t, p) ==
  /\ p.on = t.on
  /\ t.on => /\ p.mode = t.mode
             /\ \A k \in ToSet(TimerShows[t.mode]) \cup {"output-coil", "ctrl-reg"} :
                  p.keys[k] = t.keys[k]
\* The register a timer is told to use is one the allocator has and that no
\* counter of this text has taken.
RegisterIsFree(p, t) == t.keys["ctrl-reg"] \in 1..255 => register_allocator_check(p, t.keys["ctrl-reg"])

\* "Copy/paste these commands to recreate current config" (cli_show.cpp:1372):
\* this holds of the timers, whose control registers are among what is printed.
TimersComeBack ==
  \A id \in DOMAIN device.timers : TimerComesBack(device.timers[id], Pasted(device).timers[id])

PartsComeBack(d, p) ==
  /\ \A id \in DOMAIN d.counters : CounterComesBack(d.counters[id], p.counters[id])
  /\ \A id \in DOMAIN d.timers :
       RegisterIsFree(p, d.timers[id]) => TimerComesBack(d.timers[id], p.timers[id])

OthersComeBack(d, p) ==
  LET c == d.cfg
      q == p.cfg
  IN  /\ \A ch \in Inputs : q.analog[ch] = [c.analog[ch] EXCEPT !.scale = SixDigits(@)]
      /\ q.modbus["ao1"] = c.modbus["ao1"] /\ q.modbus["ao2"] = c.modbus["ao2"]
      /\ q.rs485 = c.rs485
      /\ q.system.hostname = FirstWord(c.system.hostname)
      /\ \A f \in {"description", "echo", "gpio2"} : q.system[f] = c.system[f]
      /\ p.limit = d.limit
      /\ c.logic.interval \in Intervals => q.logic.interval = c.logic.interval
      /\ \A i \in DOMAIN d.programs : p.programs[i].on = d.programs[i].on
      /\ SelectSeq(c.gpio, LAMBDA m : ~Reserved(p, m.pin, ~m.input)) = q.gpio

\* Whatever was set, and however: the text of "show config", pasted on a
\* fresh device that has the same programs, sets every value that has a line
\* which takes it.
PasteRestores ==
  LET p == Pasted(device)
  IN  /\ BusComesBack(device.cfg, p.cfg)
      /\ NetworkComesBack(device.cfg, p.cfg)
      /\ UsersComeBack(device.cfg, p.cfg)
      /\ PartsComeBack(device, p)
      /\ OthersComeBack(device, p)

-----------------------------------------------------------------------------
\* What "show config" prints comes partly from the stored configuration and
\* partly from the engines.  After a save and a start it is the same, but for
\* the rate limit, a counter with a prescaler the engine has refused, one
\* that only runs because it was told to, and the flag "control" does not
\* store.
SavedIsShown ==
  LET b == Started(device)
      Kept(id) == (device.cfg.counters[id].on => device.cfg.counters[id].keys["prescaler"] >= 1)
                  /\ (device.counters[id].on => device.cfg.counters[id].on)
      Settled(id) ==
        IF Kept(id)
        THEN [b.counters[id] EXCEPT !.keys["reset-on-read"] = device.counters[id].keys["reset-on-read"]]
        ELSE device.counters[id]
  IN  Text([b EXCEPT !.limit = device.limit, !.counters = [id \in DOMAIN @ |-> Settled(id)]])
        = Text(device)

\* The settings a GET shows, posted to the resource they are from, change
\* nothing, but that the stored master becomes the running one that the GET
\* has shown.
PostBack ==
  \A s \in Shown(device) :
    LET after == Post(device, s[1], s[2], s[3]).device
    IN  IF s[1] = "modbus" /\ s[2] = "master"
        THEN after = [device EXCEPT !.cfg.master = [f \in DOMAIN @ |->
                        IF f \in ToSet(MasterFields) THEN device.master[f] ELSE @[f]]]
        ELSE after = device

\* Of the copies that are not typed: a start from the saved one shows the same
\* text, and a GET can be posted back.
CopiesComeBack == SavedIsShown /\ PostBack
=============================================================================
