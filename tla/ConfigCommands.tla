--------------------------- MODULE ConfigCommands ---------------------------
(***************************************************************************)
(* The "set" commands of the device: what each line, typed or pasted, does *)
(* to the stored configuration and to the parts that run from a copy of    *)
(* it.  A command is an operator from the device to the device after it.   *)
(*                                                                         *)
(* A device is a record: cfg is g_persist_config, master the configuration *)
(* the bus task runs with (g_modbus_master_config), counters and timers    *)
(* those of the engines, owner who holds each holding register             *)
(* (register_allocator.cpp), limit the rate limit, wdt what the watchdog   *)
(* keeps for itself.                                                       *)
(*                                                                         *)
(* A line is a sequence of words, without "set".  Words stand in one       *)
(* spelling of those the parser takes; numbers are integers; a word        *)
(* "key:value" is a pair, as is a text in quotes that may hold blanks (a   *)
(* sequence of words).  IP addresses and the lengths of texts are those of *)
(* a few literals.  Two channels of the analog inputs and one output stand *)
(* for all, and two counters and timers for the four.                      *)
(***************************************************************************)
EXTENDS Integers, SequencesExt

\* What a word keeps of a number in a variable of 8 and 16 bits.
Byte(n) == n % 256
Short(n) == n % 65536

Put(d, section, field, v) == [d EXCEPT !.cfg[section][field] = v]
IsOn(word) == word = "on"

Unused == 255
Bauds == {2400, 4800, 9600, 19200, 38400, 57600, 115200}
Parities == {"none", "even", "odd"}

-----------------------------------------------------------------------------
\* Modbus: one transceiver on most boards, so one of the two roles runs.

\* Bus parameters of the slave: the values each command takes.
SlaveTakes(field, v) ==
  CASE field = "id" -> v \in 1..247
    [] field = "baud" -> v \in Bauds
    [] field = "parity" -> v \in Parities
    [] field = "stop" -> v \in {1, 2}
    [] field = "delay" -> v <= 1000

set_modbus_slave(d, field, v) ==
  IF SlaveTakes(field, v) THEN Put(d, "slave", field, v) ELSE d

set_modbus_slave_enabled(d, on) ==
  LET e == Put(d, "slave", "on", on)
  IN  IF on THEN [e EXCEPT !.cfg.modbus.mode = "slave", !.cfg.master.on = FALSE]
      ELSE IF ~e.cfg.master.on THEN Put(e, "modbus", "mode", "off") ELSE e

\* "set id" and "set baudrate", which are older.
set_id(d, v) == IF v <= 247 THEN Put(d, "slave", "id", v) ELSE d
set_baud(d, v) == IF v \in 300..115200 THEN Put(d, "slave", "baud", v) ELSE d

\* The master's parameters are written to the running configuration and to
\* the stored one.
MasterTakes(field, v) ==
  CASE field = "baud" -> v \in Bauds
    [] field = "parity" -> v \in Parities
    [] field = "stop" -> v \in {1, 2}
    [] field = "timeout" -> v \in 100..5000
    [] field = "delay" -> v <= 1000
    [] field = "requests" -> v \in 1..100
    [] OTHER -> TRUE

Within(v, low, high) == IF v < low THEN low ELSE IF v > high THEN high ELSE v
MasterKept(field, v) ==
  CASE field = "cache" -> Within(v, 1, 32)
    [] field = "queue" -> Within(v, 4, 32)
    [] OTHER -> v

set_modbus_master(d, field, v) ==
  LET kept == MasterKept(field, v)
  IN  IF MasterTakes(field, v)
      THEN [Put(d, "master", field, kept) EXCEPT !.master[field] = kept]
      ELSE d

set_modbus_master_enabled(d, on) ==
  LET e == [Put(d, "master", "on", on) EXCEPT !.master.on = on]
  IN  IF on THEN [e EXCEPT !.cfg.modbus.mode = "master", !.cfg.slave.on = FALSE]
      ELSE IF ~e.cfg.slave.on THEN Put(e, "modbus", "mode", "off") ELSE e

\* "set modbus mode" takes effect at the next start: the running master stays.
set_modbus_mode(d, mode) ==
  IF mode \in {"slave", "master", "off"}
  THEN [d EXCEPT !.cfg.modbus.mode = mode, !.cfg.slave.on = mode = "slave",
                 !.cfg.master.on = mode = "master"]
  ELSE d

Uarts == <<"uart0", "uart1", "uart2">>
set_modbus_uart(d, role, word) ==
  IF role \in {"slave", "master"} /\ word \in ToSet(Uarts)
  THEN Put(d, "modbus", role, SelectInSeq(Uarts, LAMBDA u : u = word) - 1)
  ELSE d

ModbusLine(d, w) ==
  IF w[2] = "mode" THEN set_modbus_mode(d, w[3])
  ELSE IF Len(w) >= 4 /\ w[3] = "uart" THEN set_modbus_uart(d, w[2], w[4])
  ELSE d

SlaveWords ==
  [x \in {"slave-id", "baudrate", "parity", "stop-bits", "inter-frame-delay"} |->
     CASE x = "slave-id" -> "id" [] x = "baudrate" -> "baud" [] x = "stop-bits" -> "stop"
       [] x = "inter-frame-delay" -> "delay" [] OTHER -> x]
ModbusSlaveLine(d, w) ==
  CASE w[2] = "enabled" -> set_modbus_slave_enabled(d, IsOn(w[3]))
    [] w[2] \in {"slave-id", "stop-bits"} -> set_modbus_slave(d, SlaveWords[w[2]], Byte(w[3]))
    [] w[2] = "inter-frame-delay" -> set_modbus_slave(d, "delay", Short(w[3]))
    [] w[2] \in {"baudrate", "parity"} -> set_modbus_slave(d, SlaveWords[w[2]], w[3])
    [] OTHER -> d

MasterWords ==
  [x \in {"baudrate", "parity", "stop-bits", "timeout", "inter-frame-delay", "max-requests",
          "cache-ttl", "cache-size", "queue-size"} |->
     CASE x = "baudrate" -> "baud" [] x = "stop-bits" -> "stop"
       [] x = "inter-frame-delay" -> "delay" [] x = "max-requests" -> "requests"
       [] x = "cache-ttl" -> "ttl" [] x = "cache-size" -> "cache" [] x = "queue-size" -> "queue"
       [] OTHER -> x]
ModbusMasterLine(d, w) ==
  CASE w[2] = "enabled" -> set_modbus_master_enabled(d, IsOn(w[3]))
    [] w[2] \in {"stop-bits", "max-requests", "cache-size", "queue-size"} ->
         set_modbus_master(d, MasterWords[w[2]], Byte(w[3]))
    [] w[2] \in {"timeout", "inter-frame-delay", "cache-ttl"} ->
         set_modbus_master(d, MasterWords[w[2]], Short(w[3]))
    [] w[2] \in {"baudrate", "parity"} -> set_modbus_master(d, MasterWords[w[2]], w[3])
    [] OTHER -> d

-----------------------------------------------------------------------------
\* Analog channels and serial modules.

Inputs == {"vi1", "ii1"}
Channels == Inputs \cup {"ao1"}

\* The keys and values of one "set analog" are applied one after the other;
\* the first that is refused ends the command and leaves the ones before it.
AnalogTakes(channel, key, v) ==
  \/ key = "enabled" /\ v \in {"on", "off"}
  \/ key \in {"scale", "offset"}
  \/ key = "samples" /\ channel \in Inputs /\ v \in 1..32

analog_apply(d, channel, key, v) ==
  [d EXCEPT !.cfg.analog[channel][IF key = "enabled" THEN "on" ELSE key] =
              IF key = "enabled" THEN IsOn(v) ELSE v]

set_analog(d, channel, pairs) ==
  LET upTo == SelectInSeq(pairs, LAMBDA p : ~AnalogTakes(channel, p[1], p[2]))
  IN  FoldLeft(LAMBDA e, p : analog_apply(e, channel, p[1], p[2]), d,
               IF upTo = 0 THEN pairs ELSE SubSeq(pairs, 1, upTo - 1))

AnalogLine(d, w) ==
  IF w[2] \in Channels /\ Len(w) >= 4 /\ Len(w) % 2 = 0
  THEN set_analog(d, w[2], [i \in 1..((Len(w) - 2) \div 2) |-> <<w[2 * i + 1], w[2 * i + 2]>>])
  ELSE d

\* "set ao1 mode".
AoLine(d, w) ==
  IF w[2] = "mode" /\ w[3] \in {"voltage", "current"} THEN Put(d, "modbus", w[1], w[3]) ELSE d

\* "set modul rs485 uart1 tx 1 rx 2 dir 3": the pins not named are unset, and
\* without any the board's own pins are used.
Pin(w, key) ==
  LET at == {i \in 4..(Len(w) - 1) : i % 2 = 0 /\ w[i] = key}
  IN  IF at = {} THEN Unused ELSE Byte(w[(CHOOSE i \in at : TRUE) + 1])
set_rs485(d, w) ==
  LET pins == [tx |-> Pin(w, "tx"), rx |-> Pin(w, "rx"), dir |-> Pin(w, "dir")]
  IN  IF /\ w[3] \in {"uart1", "uart2"}
         /\ (pins.tx = Unused) <=> (pins.rx = Unused)
      THEN [d EXCEPT !.cfg.rs485[w[3]] = pins]
      ELSE d

\* Ethernet is switched on here whatever the other users of its pins are.
ModulLine(d, w) ==
  CASE w[2] = "rs485" -> set_rs485(d, w)
    [] w[2] = "ethernet" /\ w[3] \in {"enable", "disable"} ->
         Put(d, "eth", "on", w[3] = "enable")
    [] OTHER -> d

-----------------------------------------------------------------------------
\* System.  A text is a sequence of words, the word "long" one that has too
\* many letters for any field, "short" one that is too short for a password
\* and "<b>" one with a letter that names may not have.

TooLong(text) == "long" \in ToSet(text)

set_hostname(d, text) ==
  IF text = <<>> \/ TooLong(text) THEN d ELSE Put(d, "system", "hostname", text)
set_description(d, text) ==
  IF TooLong(text) THEN d ELSE Put(d, "system", "description", text)
set_echo(d, word) ==
  IF word \in {"on", "off"} THEN Put(d, "system", "echo", IsOn(word)) ELSE d
set_gpio2(d, word) == Put(d, "system", "gpio2", word = "enable")

\* The watchdog keeps its settings itself (watchdog_set_timeout).  The
\* external one needs two pins of the Ethernet module.
set_watchdog(d, w) ==
  CASE w[2] = "timeout" -> IF w[3] \in 5..120 THEN [d EXCEPT !.wdt.timeout = w[3]] ELSE d
    [] w[2] \in {"enable", "disable"} -> [d EXCEPT !.wdt.on = w[2] = "enable"]
    [] w[2] = "ext" /\ w[3] \in {"on", "off"} ->
         IF IsOn(w[3]) /\ d.cfg.eth.on THEN d ELSE [d EXCEPT !.wdt.ext = IsOn(w[3])]
    [] OTHER -> d

-----------------------------------------------------------------------------
\* Network.

Netmasks == {"255.255.255.0", "255.255.0.0"}
Addresses == Netmasks \cup {"0.0.0.0", "255.0.255.0", "192.168.1.1", "192.168.1.100",
                            "192.168.1.101", "8.8.8.8", "10.0.0.7"}
AddressFields == {"ip", "gateway", "netmask", "dns"}
IsAddress(field, v) == v \in (IF field = "netmask" THEN Netmasks ELSE Addresses)
SetAddress(d, section, field, v) == IF IsAddress(field, v) THEN Put(d, section, field, v) ELSE d
SetDhcp(d, section, word) ==
  IF word \in {"on", "off"} THEN Put(d, section, "dhcp", IsOn(word)) ELSE d
\* A port is cut to 16 bits before it is looked at.
SetPort(d, section, field, n) ==
  IF Short(n) >= 1 THEN Put(d, section, field, Short(n)) ELSE d
SetNonEmpty(d, section, field, text) == IF text # <<>> THEN Put(d, section, field, text) ELSE d

IsSwitch(word) == word \in {"enable", "disable"}
SwitchOn(word) == word = "enable"

set_wifi(d, w) ==
  CASE IsSwitch(w[2]) -> Put(d, "wifi", "on", SwitchOn(w[2]))
    [] w[2] = "ssid" -> IF TooLong(w[3]) THEN d ELSE Put(d, "wifi", "ssid", w[3])
    [] w[2] = "password" ->
         IF TooLong(w[3]) \/ w[3] \in {<<>>, <<"short">>} THEN d ELSE Put(d, "wifi", "password", w[3])
    [] w[2] = "dhcp" -> SetDhcp(d, "wifi", w[3])
    [] w[2] \in AddressFields -> SetAddress(d, "wifi", w[2], w[3])
    [] OTHER -> d

set_telnet(d, w) ==
  CASE IsSwitch(w[2]) -> Put(d, "telnet", "on", SwitchOn(w[2]))
    [] w[2] \in {"user", "pass"} -> SetNonEmpty(d, "telnet", w[2], w[3])
    [] w[2] = "port" -> SetPort(d, "telnet", "port", w[3])
    [] OTHER -> d

set_ethernet(d, w) ==
  CASE IsSwitch(w[2]) ->
         IF SwitchOn(w[2]) /\ d.wdt.ext THEN d ELSE Put(d, "eth", "on", SwitchOn(w[2]))
    [] w[2] = "dhcp" -> SetDhcp(d, "eth", w[3])
    [] w[2] \in AddressFields -> SetAddress(d, "eth", w[2], w[3])
    [] OTHER -> d

\* Every option has a value here; "api" and "tls" alone know "enable".
set_http(d, w) ==
  IF Len(w) < 3 THEN d
  ELSE CASE w[2] \in {"enabled", "enable"} ->
              IF w[3] \in {"on", "off"} THEN Put(d, "http", "on", IsOn(w[3])) ELSE d
         [] w[2] = "auth" ->
              IF w[3] \in {"on", "off"} THEN Put(d, "http", "auth", IsOn(w[3])) ELSE d
         [] w[2] \in {"port", "https-port"} -> SetPort(d, "http", w[2], w[3])
         [] w[2] = "auth-mode" ->
              IF w[3] \in {"basic", "bearer"} THEN Put(d, "http", "mode", w[3]) ELSE d
         [] w[2] \in {"username", "password"} ->
              IF TooLong(w[3]) THEN d ELSE SetNonEmpty(d, "http", w[2], w[3])
         [] w[2] \in {"api", "tls"} ->
              IF w[3] \in {"on", "enable"} THEN Put(d, "http", w[2], TRUE)
              ELSE IF w[3] \in {"off", "disable"} THEN Put(d, "http", w[2], FALSE)
              ELSE d
         [] OTHER -> d

SseLimits == [port |-> 0..65535, clients |-> 1..2, interval |-> 50..5000, heartbeat |-> 1000..60000]
SseField(word) == IF word = "max-clients" THEN "clients" ELSE word
set_sse(d, w) ==
  CASE IsSwitch(w[2]) -> Put(d, "sse", "on", SwitchOn(w[2]))
    [] SseField(w[2]) \in DOMAIN SseLimits ->
         IF w[3] \in SseLimits[SseField(w[2])] THEN Put(d, "sse", SseField(w[2]), w[3]) ELSE d
    [] OTHER -> d

set_rate_limit(d, w) == IF IsSwitch(w[2]) THEN [d EXCEPT !.limit = SwitchOn(w[2])] ELSE d

set_ntp(d, w) ==
  CASE IsSwitch(w[2]) -> Put(d, "ntp", "on", SwitchOn(w[2]))
    [] w[2] \in {"server", "timezone"} -> SetNonEmpty(d, "ntp", w[2], w[3])
    [] w[2] = "interval" -> IF Short(w[3]) \in 1..1440 THEN Put(d, "ntp", "interval", Short(w[3])) ELSE d
    [] OTHER -> d

-----------------------------------------------------------------------------
\* Users.  A role and a privilege are what the words say; a password is kept
\* as the word it was set to.

Roles == {"api", "cli", "editor", "monitor"}
AllRoles == <<"all">>
NoUser == [name |-> <<>>, password |-> <<>>, roles |-> {}, privilege |-> "read"]

rbac_parse_roles(words) ==
  IF "all" \in ToSet(words) THEN Roles ELSE ToSet(words) \cap Roles
rbac_roles_to_str(roles) ==
  IF roles = Roles THEN AllRoles
  ELSE IF roles = {} THEN <<"none">>
  ELSE SelectSeq(<<"api", "cli", "editor", "monitor">>, LAMBDA r : r \in roles)

display_name_ok(name) == "<b>" \notin ToSet(name)
Slots(d) == DOMAIN d.cfg.rbac.users
\* rbac_find_user, as a set of at most one slot.
rbac_find_user(d, name) ==
  {i \in Slots(d) : d.cfg.rbac.users[i].name = name /\ name # <<>>}
FreeSlots(d) == {i \in Slots(d) : d.cfg.rbac.users[i] = NoUser}

\* A known name is updated in its slot.  A new user takes the first free
\* one, and with the first user the RBAC is switched on.
rbac_set_user(d, name, password, roles, privilege) ==
  LET user == [name |-> name, password |-> password, roles |-> roles, privilege |-> privilege]
      At(i) == [d EXCEPT !.cfg.rbac.users[i] = user]
  IN  IF \/ <<>> \in {name, password} \/ TooLong(name) \/ TooLong(password)
         \/ ~display_name_ok(name)
      THEN d
      ELSE IF rbac_find_user(d, name) # {} THEN At(CHOOSE i \in rbac_find_user(d, name) : TRUE)
      ELSE IF FreeSlots(d) # {} THEN [At(Min(FreeSlots(d))) EXCEPT !.cfg.rbac.on = TRUE]
      ELSE d

\* Without users the RBAC is off.
rbac_delete_user(d, name) ==
  LET rest == [i \in Slots(d) |-> IF i \in rbac_find_user(d, name) THEN NoUser
                                  ELSE d.cfg.rbac.users[i]]
  IN  IF rbac_find_user(d, name) = {} THEN d
      ELSE [d EXCEPT !.cfg.rbac.users = rest,
                     !.cfg.rbac.on = @ /\ \E i \in Slots(d) : rest[i] # NoUser]

\* The value after the last `key' of a line "user"; all its words are texts.
UserWord(w, key, default) ==
  LET at == {i \in 3..(Len(w) - 1) : w[i] = <<key>>}
  IN  IF at = {} THEN default ELSE w[Max(at) + 1]
set_user(d, w) ==
  LET password == UserWord(w, "password", <<>>)
      privilege == UserWord(w, "privilege", <<"read/write">>)
  IN  IF password = <<>> THEN d
      ELSE rbac_set_user(d, w[2], password, rbac_parse_roles(UserWord(w, "roles", AllRoles)),
                         IF privilege[1] \in {"read/write", "write"} THEN privilege[1] ELSE "read")

set_rbac(d, w) == IF IsSwitch(w[2]) THEN Put(d, "rbac", "on", SwitchOn(w[2])) ELSE d

-----------------------------------------------------------------------------
\* Programs and their intervals.  The programs are kept in files of their own.

Intervals == {2, 5, 10, 20, 25, 50, 75, 100}
Deleted == [on |-> FALSE, compiled |-> FALSE, text |-> FALSE, high |-> FALSE, interval |-> 0]

\* The programs that share one interval take the new one; those of high
\* priority keep their own.
set_logic_interval(d, n) ==
  IF n \in Intervals
  THEN [Put(d, "logic", "interval", n) EXCEPT
          !.programs = [i \in DOMAIN @ |-> IF @[i].high THEN @[i]
                                           ELSE [@[i] EXCEPT !.interval = n]]]
  ELSE d

set_logic_enabled(d, id, on) ==
  IF d.programs[id].compiled THEN [d EXCEPT !.programs[id].on = on] ELSE d
set_logic_program_interval(d, id, n) ==
  IF n \in 2..60000 THEN [d EXCEPT !.programs[id].interval = n] ELSE d
\* A program without bindings may have either priority.
set_logic_priority(d, id, word) ==
  IF word \in {"high", "normal"} THEN [d EXCEPT !.programs[id].high = word = "high"] ELSE d
set_logic_delete(d, id) == [d EXCEPT !.programs[id] = Deleted]

LogicLine(d, w) ==
  IF Len(w) < 3 \/ Byte(w[2]) \notin DOMAIN d.programs THEN d
  ELSE LET id == Byte(w[2])
       IN  CASE w[3] = "enabled" -> set_logic_enabled(d, id, TRUE)
             [] w[3] = "disabled" -> set_logic_enabled(d, id, FALSE)
             [] w[3] = "priority" -> set_logic_priority(d, id, w[4])
             [] w[3] = "interval" -> set_logic_program_interval(d, id, w[4])
             [] w[3] = "delete" -> set_logic_delete(d, id)
             [] OTHER -> d

-----------------------------------------------------------------------------
\* Persistent groups: a sequence of [name, regs].

GroupAt(d, name) == SelectInSeq(d.cfg.persist.groups, LAMBDA g : g.name = name)
registers_persist_group_create(d, name) ==
  IF GroupAt(d, name) # 0 \/ Len(d.cfg.persist.groups) >= 8 THEN d
  ELSE [d EXCEPT !.cfg.persist.groups = Append(@, [name |-> name, regs |-> <<>>])]
registers_persist_group_add_reg(d, name, r) ==
  LET g == GroupAt(d, name)
      regs == d.cfg.persist.groups[g].regs
  IN  IF g = 0 THEN d
      ELSE IF r > 255 \/ r \in ToSet(regs) \/ Len(regs) >= 16 THEN d
      ELSE [d EXCEPT !.cfg.persist.groups[g].regs = Append(@, r)]

\* "add" makes the group if there is none, and switches the system on.
set_persist_group(d, name, action, regs) ==
  CASE action = "add" ->
         LET made == registers_persist_group_create(d, name)
             full == FoldLeft(LAMBDA e, r : registers_persist_group_add_reg(e, name, r), made, regs)
         IN  IF GroupAt(made, name) = 0 \/ regs = <<>> THEN made
             ELSE Put(full, "persist", "on", TRUE)
    [] action = "remove" /\ GroupAt(d, name) # 0 /\ regs # <<>> ->
         [d EXCEPT !.cfg.persist.groups[GroupAt(d, name)].regs =
                     SelectSeq(@, LAMBDA r : r # Head(regs))]
    [] action = "delete" /\ GroupAt(d, name) # 0 ->
         [d EXCEPT !.cfg.persist.groups = RemoveAt(@, GroupAt(d, name))]
    [] OTHER -> d

PersistLine(d, w) ==
  CASE w[2] = "group" /\ Len(w) >= 4 -> set_persist_group(d, w[3], w[4], SubSeq(w, 5, Len(w)))
    [] w[2] = "enable" /\ Len(w) >= 3 -> Put(d, "persist", "on", IsOn(w[3]))
    [] OTHER -> d

-----------------------------------------------------------------------------
\* Who holds the holding registers: a set of <<register, type, number>>.
\* The allocator has registers 0 to 179, and no other is free for it.

AllocatorSize == 180
Owners(d, r) == {o \in d.owner : o[1] = r}
register_allocator_check(d, r) == r < AllocatorSize /\ Owners(d, r) = {}
register_allocator_free_owner(d, type, id) ==
  [d EXCEPT !.owner = {o \in @ : ~(o[2] = type /\ o[3] = id)}]
\* All of the registers, or none.
register_allocator_allocate_range(d, rs, type, id) ==
  IF \A r \in rs : register_allocator_check(d, r)
  THEN [d EXCEPT !.owner = @ \cup {<<r, type, id>> : r \in rs}]
  ELSE d

CounterBase(id) == 100 + (id - 1) * 20
register_allocator_allocate_counter(d, id) ==
  LET c == d.counters[id]
      words == IF c.keys["resolution"] <= 16 THEN 1 ELSE IF c.keys["resolution"] = 32 THEN 2 ELSE 4
      From(n) == (CounterBase(id) + n)..(CounterBase(id) + n + words - 1)
      parts == <<From(0), From(4), {CounterBase(id) + 8}, {CounterBase(id) + 10}>>
               \o IF c.keys["compare"] = "enable" THEN <<From(11)>> ELSE <<>>
  IN  FoldLeft(LAMBDA e, rs : IF c.on THEN register_allocator_allocate_range(e, rs, "counter", id)
                              ELSE e,
               register_allocator_free_owner(d, "counter", id), parts)

-----------------------------------------------------------------------------
\* Counters.  `keys' holds what a line can name, `auto' and `ror' what the
\* line "control" sets; 64-bit numbers are pairs of 32 bits, and the scale
\* counts thousandths.

CounterKeys == <<"hw-mode", "edge", "prescaler", "resolution", "direction", "scale", "start",
                 "debounce", "debounce-time", "input-dis", "dt-dis", "compare", "compare-mode",
                 "compare-source", "compare-value", "reset-on-read">>
counter_config_defaults ==
  [on |-> FALSE, auto |-> FALSE, ror |-> FALSE,
   keys |-> [k \in ToSet(CounterKeys) |->
     CASE k = "hw-mode" -> "sw" [] k = "edge" -> "rising" [] k = "direction" -> "up"
       [] k \in {"prescaler", "compare-source"} -> 1 [] k = "resolution" -> 32
       [] k = "scale" -> 1000 [] k = "debounce" -> "on" [] k = "debounce-time" -> 10
       [] k \in {"start", "compare-value"} -> <<0, 0>> [] k = "compare" -> "off"
       [] k = "reset-on-read" -> "on" [] OTHER -> 0]]

OnOff(b) == IF b THEN "on" ELSE "off"
\* What a word makes of a field; a word that is not known leaves it.
CounterField(key, v, old) ==
  CASE key = "hw-mode" -> IF v \in {"sw", "encoder"} THEN v ELSE old
    [] key = "edge" -> IF v \in {"rising", "falling", "both"} THEN v ELSE old
    [] key = "direction" -> IF v = "down" THEN "down" ELSE "up"
    [] key \in {"debounce", "reset-on-read"} -> OnOff(IsOn(v))
    [] key = "compare" -> IF v \in {"on", "enable"} THEN "enable" ELSE "off"
    [] key \in {"prescaler", "debounce-time"} -> Short(v)
    [] key \in {"resolution", "input-dis", "dt-dis", "compare-mode", "compare-source"} -> Byte(v)
    [] OTHER -> v

\* counter_config_set: a prescaler below 1 is refused, other values are put
\* right.
counter_config_sanitize(c) ==
  [c EXCEPT
     !.keys["resolution"] = IF @ <= 8 THEN 8 ELSE IF @ <= 16 THEN 16 ELSE IF @ <= 32 THEN 32 ELSE 64,
     !.keys["compare-mode"] = IF @ > 2 THEN 0 ELSE @]
CounterIsTaken(c) == c.keys["prescaler"] >= 1
counter_engine_configure(d, id, c) ==
  IF CounterIsTaken(c) THEN [d EXCEPT !.counters[id] = counter_config_sanitize(c)] ELSE d

Pairs(words) == SelectSeq(words, LAMBDA p : Len(p) = 2)
Asked(pairs, key) == \E i \in DOMAIN pairs : pairs[i][1] = key

\* Mutant: a line without "enable" leaves the counter off (BUG-446).
OnIfAsked(c, pairs) == c
\* A line switches the counter on unless it says otherwise.
OnUnlessAsked(c, pairs) == IF Asked(pairs, "enable") THEN c ELSE [c EXCEPT !.on = TRUE]

\* A line starts from the defaults, and keeps what "control" has set.  The
\* stored configuration is written before the engine refuses it.
set_counter(d, id, words) ==
  LET pairs == Pairs(words)
      base == [counter_config_defaults EXCEPT !.auto = d.cfg.counters[id].auto,
                                              !.ror = d.cfg.counters[id].ror]
      Take(c, p) ==
        IF p[1] = "enable" THEN [c EXCEPT !.on = IsOn(p[2])]
        ELSE IF p[1] \in DOMAIN c.keys
        THEN [c EXCEPT !.keys[p[1]] = CounterField(p[1], p[2], @)]
        ELSE c
      read == FoldLeft(Take, base, pairs)
      c == OnUnlessAsked(read, pairs)
      held == {CounterBase(id) + n : n \in {0, 4, 8, 10}}
      stored == [d EXCEPT !.cfg.counters[id] = c]
  IN  IF \/ \E i \in DOMAIN pairs : pairs[i] \in {<<"hw-mode", "hw">>, <<"hw-mode", "sw-isr">>}
         \/ \E r \in held, o \in d.owner : o[1] = r /\ ~(o[2] = "counter" /\ o[3] = id)
      THEN d
      ELSE IF ~CounterIsTaken(c) THEN stored
      ELSE register_allocator_allocate_counter(counter_engine_configure(stored, id, c), id)

delete_counter(d, id) ==
  LET stored == [d EXCEPT !.cfg.counters[id] = counter_config_defaults]
  IN  register_allocator_free_owner(
        counter_engine_configure(stored, id, counter_config_defaults), "counter", id)

\* Mutant: the engine knows that a counter starts by itself, and nothing else.
AutoStartNow(d, id, on) == [d EXCEPT !.counters[id].auto = on]
AutoStart(d, id, on) == [d EXCEPT !.counters[id].auto = on, !.cfg.counters[id].auto = on]

\* "control" starts from the engine's configuration.  `run' are the counters
\* whose bit 7 is set in the control register; a counter that shall run is
\* enabled in the engine.
ControlTake(d, id, p) ==
  CASE p[1] = "counter-reg-reset-on-read" ->
         [d EXCEPT !.counters[id].ror = IsOn(p[2]), !.cfg.counters[id].ror = IsOn(p[2]),
                   !.cfg.counters[id].keys["reset-on-read"] = d.counters[id].keys["reset-on-read"]]
    [] p[1] = "compare-reg-reset-on-read" ->
         [d EXCEPT !.counters[id].keys["reset-on-read"] = OnOff(IsOn(p[2]))]
    [] p[1] = "auto-start" ->
         AutoStart(d, id, IsOn(p[2]))
    [] p[1] = "running" ->
         [d EXCEPT !.run = IF IsOn(p[2]) THEN @ \cup {id} ELSE @ \ {id}]
    [] OTHER -> d
set_counter_control(d, id, words) ==
  LET e == FoldLeft(LAMBDA x, p : ControlTake(x, id, p), d, Pairs(words))
  IN  IF id \in e.run THEN [e EXCEPT !.counters[id].on = TRUE] ELSE e

CounterLine(d, w) ==
  IF w[2] \notin DOMAIN d.counters THEN d
  ELSE IF w[3] = "control" THEN set_counter_control(d, w[2], SubSeq(w, 4, Len(w)))
  ELSE IF w[3] = "disable" THEN delete_counter(d, w[2])
  ELSE IF Len(w) < 5 THEN d
  ELSE set_counter(d, w[2], SubSeq(w, 5, Len(w)))

-----------------------------------------------------------------------------
\* Timers: the numbers a line can name, and the mode.

TimerKeys == {"p1-duration", "p1-output", "p2-duration", "p2-output", "p3-duration", "p3-output",
              "pulse-ms", "trigger-level", "on-ms", "off-ms", "input-dis", "trigger-edge",
              "delay-ms", "output-coil", "ctrl-reg"}
timer_config_defaults(id) ==
  [on |-> FALSE, mode |-> 1,
   keys |-> [k \in TimerKeys |->
     CASE k \in {"p1-duration", "p2-duration", "p3-duration", "pulse-ms"} -> 1000
       [] k \in {"on-ms", "off-ms"} -> 500 [] k \in {"p2-output", "trigger-level"} -> 1
       [] k = "ctrl-reg" -> 180 + (id - 1) * 5 [] OTHER -> 0]]

Flags == {"p1-output", "p2-output", "p3-output", "trigger-level"}
timer_config_sanitize(t) ==
  [t EXCEPT !.keys = [k \in TimerKeys |-> IF k \in Flags /\ @[k] # 0 THEN 1 ELSE @[k]]]
timer_engine_configure(d, id, t) ==
  IF t.mode \in 1..4 THEN [d EXCEPT !.timers[id] = timer_config_sanitize(t)] ELSE d

TimerField(key, v) ==
  IF key \in Flags \cup {"input-dis", "trigger-edge"} THEN Byte(v)
  ELSE IF key \in {"output-coil", "ctrl-reg"} THEN Short(v) ELSE v
TimerKey(key) == IF key = "output" THEN "p1-output" ELSE key

\* A line starts from zeros.  A control register that is not free, be it that
\* the allocator does not have it, ends the command.
set_timer(d, id, mode, words) ==
  LET base == [on |-> TRUE, mode |-> mode,
               keys |-> [k \in TimerKeys |-> IF k = "output-coil" THEN 65535
                                             ELSE IF k = "p1-output" /\ mode \in {3, 4} THEN 1
                                             ELSE 0]]
      Take(t, p) ==
        IF p[1] = "enabled" THEN [t EXCEPT !.on = IsOn(p[2])]
        ELSE IF TimerKey(p[1]) \in TimerKeys
        THEN [t EXCEPT !.keys[TimerKey(p[1])] = TimerField(TimerKey(p[1]), p[2])]
        ELSE t
      t == FoldLeft(Take, base, Pairs(words))
  IN  IF \/ mode \notin 1..4
         \/ /\ t.keys["ctrl-reg"] \in 1..255
            /\ ~register_allocator_check(d, t.keys["ctrl-reg"])
      THEN d
      ELSE timer_engine_configure([d EXCEPT !.cfg.timers[id] = t], id, t)

delete_timer(d, id) ==
  LET t == timer_config_defaults(id)
  IN  register_allocator_free_owner(
        timer_engine_configure([d EXCEPT !.cfg.timers[id] = t], id, t), "timer", id)

TimerLine(d, w) ==
  IF w[2] \notin DOMAIN d.timers THEN d
  ELSE IF w[3] = "disable" THEN delete_timer(d, w[2])
  ELSE IF w[3] # "mode" \/ Len(w) < 5 THEN d
  ELSE set_timer(d, w[2], w[4], SubSeq(w, 5, Len(w)))

-----------------------------------------------------------------------------
\* Mappings of pins: a sequence of [pin, input, reg].

EthernetPins == {4, 5, 18, 19, 25, 26}
\* gpio_mapping_pin_reserved, for the board ES32D26.
Reserved(d, pin, output) ==
  /\ pin < 100
  /\ \/ pin > 39 \/ pin \in {20, 24, 28, 29, 30, 31} \/ pin \in 6..11 \/ pin \in {16, 17}
     \/ pin \in {0, 1, 2, 3, 12, 13, 14, 15, 21, 22, 23, 25, 26, 27, 32, 33, 34, 35, 36, 39}
     \/ d.cfg.eth.on /\ pin \in EthernetPins
     \/ d.wdt.ext /\ pin \in {18, 19}
     \/ output /\ pin >= 34

PinAt(d, pin) == SelectInSeq(d.cfg.gpio, LAMBDA m : m.pin = pin)
set_gpio(d, pin, word, index) ==
  LET m == [pin |-> pin, input |-> word = "input", reg |-> index]
      at == PinAt(d, pin)
  IN  IF \/ pin \in 40..99 \/ pin >= 256
         \/ word \notin {"input", "coil"} \/ index >= 256
         \/ Reserved(d, pin, word = "coil")
      THEN d
      ELSE IF at # 0 THEN [d EXCEPT !.cfg.gpio[at] = m]
      ELSE IF Len(d.cfg.gpio) >= 64 THEN d
      ELSE [d EXCEPT !.cfg.gpio = Append(@, m)]

no_set_gpio(d, pin) ==
  IF PinAt(d, pin) = 0 THEN d ELSE [d EXCEPT !.cfg.gpio = RemoveAt(@, PinAt(d, pin))]

GpioLine(d, w) ==
  IF w[2] = 2 /\ IsSwitch(w[3]) THEN set_gpio2(d, w[3])
  ELSE IF Len(w) < 4 THEN d ELSE set_gpio(d, w[2], w[3], Short(w[4]))

-----------------------------------------------------------------------------
\* cli_parser_execute, for "set", and for "delete" and "no set" where they
\* undo it.
SetLine(d, w) ==
  CASE w[1] = "modbus" -> ModbusLine(d, w)
    [] w[1] = "modbus-slave" -> ModbusSlaveLine(d, w)
    [] w[1] = "modbus-master" -> ModbusMasterLine(d, w)
    [] w[1] = "id" -> set_id(d, Byte(w[2]))
    [] w[1] = "baud" -> set_baud(d, w[2])
    [] w[1] = "analog" -> AnalogLine(d, w)
    [] w[1] \in {"ao1", "ao2"} -> AoLine(d, w)
    [] w[1] = "modul" -> ModulLine(d, w)
    [] w[1] = "hostname" -> set_hostname(d, w[2])
    [] w[1] = "description" -> set_description(d, FlattenSeq(Tail(w)))
    [] w[1] = "echo" -> set_echo(d, w[2])
    [] w[1] = "watchdog" -> set_watchdog(d, w)
    [] w[1] = "wifi" -> set_wifi(d, w)
    [] w[1] = "telnet" -> set_telnet(d, w)
    [] w[1] = "ethernet" -> set_ethernet(d, w)
    [] w[1] = "http" -> set_http(d, w)
    [] w[1] = "sse" -> set_sse(d, w)
    [] w[1] = "ntp" -> set_ntp(d, w)
    [] w[1] = "rate-limit" -> set_rate_limit(d, w)
    [] w[1] = "rbac" -> set_rbac(d, w)
    [] w[1] = "user" -> set_user(d, w)
    [] w[1] = "delete-user" -> rbac_delete_user(d, w[2])
    [] w[1] = "logic-interval" -> set_logic_interval(d, w[2])
    [] w[1] = "logic" -> LogicLine(d, w)
    [] w[1] = "persist" -> PersistLine(d, w)
    [] w[1] = "counter" -> CounterLine(d, w)
    [] w[1] = "timer" -> TimerLine(d, w)
    [] w[1] = "gpio" -> GpioLine(d, w)
    [] w[1] = "no-gpio" -> no_set_gpio(d, w[2])
    [] OTHER -> d
=============================================================================
