----------------------------- MODULE ConfigRest -----------------------------
(***************************************************************************)
(* The settings as the REST interface reads and writes them: one operator  *)
(* per resource (the POST handlers of api_handlers.cpp), and what its GET  *)
(* shows.                                                                  *)
(*                                                                         *)
(* A request is the body, a function from the fields it has to values,     *)
(* under the names ConfigCommands uses.  A handler takes the fields in its *)
(* own order, writes each as it comes to it, and stops with an error at    *)
(* the first it refuses: the answer is a status and the device after it.   *)
(***************************************************************************)
EXTENDS ConfigText

\* What a JSON number is in a field of 8 and of 16 bits: 0 when it does not
\* fit.
JsonByte(n) == IF n \in 0..255 THEN n ELSE 0
JsonShort(n) == IF n \in 0..65535 THEN n ELSE 0
\* strncpy: of a text that is too long, what fits.
Cut(text) == IF TooLong(text) THEN <<"cut">> ELSE text

Ok(d) == [status |-> 200, device |-> d]
Error(d, status) == [status |-> status, device |-> d]
\* Take(d, field, value) is the answer for one field of the body.
Handle(d, body, fields, Take(_, _, _)) ==
  FoldLeft(LAMBDA a, f : IF a.status = 200 /\ f \in DOMAIN body
                         THEN Take(a.device, f, body[f]) ELSE a,
           Ok(d), fields)

-----------------------------------------------------------------------------
\* Modbus.  Both resources take the transceiver before their own fields.

TransceiverFields == <<"mode", "slave_uart", "master_uart">>
PutTransceiver(d, f, v) ==
  IF f = "mode"
  THEN IF v \in {"slave", "master", "off"} THEN Put(d, "modbus", "mode", v) ELSE d
  ELSE IF JsonByte(v) <= 2
       THEN Put(d, "modbus", IF f = "slave_uart" THEN "slave" ELSE "master", JsonByte(v))
       ELSE d

\* The slave's number alone has limits here.
PutSlave(d, f, v) ==
  CASE f = "id" -> IF JsonByte(v) \in 1..247 THEN Ok(Put(d, "slave", "id", JsonByte(v)))
                   ELSE Error(d, 400)
    [] f = "parity" -> Ok(IF v \in Parities THEN Put(d, "slave", "parity", v) ELSE d)
    [] f = "stop" -> Ok(Put(d, "slave", "stop", JsonByte(v)))
    [] f = "delay" -> Ok(Put(d, "slave", "delay", JsonShort(v)))
    [] f = "baud" -> Ok(Put(d, "slave", "baud", v))

\* The master's fields have none, and go to the running and to the stored
\* configuration.
PutMaster(d, f, v) ==
  LET kept == CASE f = "parity" -> IF v \in {"even", "odd"} THEN v ELSE "none"
                [] f \in {"stop", "requests"} -> JsonByte(v)
                [] f \in {"timeout", "delay", "ttl"} -> JsonShort(v)
                [] OTHER -> v
  IN  [Put(d, "master", f, kept) EXCEPT !.master[f] = kept]

SlaveFields == <<"id", "baud", "parity", "stop", "delay">>
MasterFields == <<"on", "baud", "parity", "stop", "timeout", "delay", "requests", "ttl">>
modbus_post(d, role, body) ==
  Handle(d, body, TransceiverFields \o (IF role = "slave" THEN SlaveFields ELSE MasterFields),
         LAMBDA e, f, v : IF f \in ToSet(TransceiverFields) THEN Ok(PutTransceiver(e, f, v))
                          ELSE IF role = "slave" THEN PutSlave(e, f, v)
                          ELSE Ok(PutMaster(e, f, v)))

\* The fields of a section, as a body.
Fields(section, fields) == [f \in ToSet(fields) |-> section[f]]
modbus_get(d, role) ==
  (IF role = "slave" THEN Fields(d.cfg.slave, SlaveFields) ELSE Fields(d.master, MasterFields))
  @@ [mode |-> d.cfg.modbus.mode, slave_uart |-> d.cfg.modbus.slave,
      master_uart |-> d.cfg.modbus.master]

-----------------------------------------------------------------------------
\* Network.  Addresses are not looked at, and texts are cut.

InetFields == <<"ip", "gateway", "netmask", "dns">>
WifiFields == <<"ssid", "password", "dhcp", "on", "power">> \o InetFields
wifi_post(d, body) ==
  Handle(d, body, WifiFields,
         LAMBDA e, f, v : Ok(Put(e, "wifi", f, IF f \in {"ssid", "password"} THEN Cut(v) ELSE v)))
\* The password is not shown, and addresses only when they are used.
Address(section) == IF section.dhcp THEN <<>> ELSE Fields(section, InetFields)
wifi_get(d) == Fields(d.cfg.wifi, <<"on", "ssid", "dhcp", "power">>) @@ Address(d.cfg.wifi)

\* Ethernet shares pins with the external watchdog.
ethernet_post(d, body) ==
  Handle(d, body, <<"on", "dhcp">> \o InetFields,
         LAMBDA e, f, v : IF f = "on" /\ v /\ e.wdt.ext THEN Error(e, 409)
                          ELSE Ok(Put(e, "eth", f, v)))
ethernet_get(d) == Fields(d.cfg.eth, <<"on", "dhcp">>) @@ Address(d.cfg.eth)

telnet_post(d, body) ==
  Handle(d, body, <<"on", "port", "user", "pass">>,
         LAMBDA e, f, v :
           Ok(IF f # "port" THEN Put(e, "telnet", f, IF f = "on" THEN v ELSE Cut(v))
              ELSE IF JsonShort(v) > 0 THEN Put(e, "telnet", "port", JsonShort(v)) ELSE e))
telnet_get(d) == Fields(d.cfg.telnet, <<"on", "port", "user">>)

ntp_post(d, body) ==
  Handle(d, body, <<"on", "server", "timezone", "interval">>,
         LAMBDA e, f, v :
           Ok(IF f = "interval"
              THEN IF JsonShort(v) \in 1..1440 THEN Put(e, "ntp", f, JsonShort(v)) ELSE e
              ELSE Put(e, "ntp", f, IF f = "on" THEN v ELSE Cut(v))))
ntp_get(d) == Fields(d.cfg.ntp, <<"on", "server", "timezone", "interval">>)

\* Both fields are looked at before one is written.
hostname_post(d, body) ==
  LET Has(f) == f \in DOMAIN body
  IN  IF \/ body = <<>>
         \/ Has("hostname") /\ (body["hostname"] = <<>> \/ TooLong(body["hostname"]))
         \/ Has("description") /\ TooLong(body["description"])
      THEN Error(d, 400)
      ELSE Handle(d, body, <<"description", "hostname">>,
                  LAMBDA e, f, v : Ok(Put(e, "system", f, v)))
hostname_get(d) == Fields(d.cfg.system, <<"hostname", "description">>)

\* The web server; those of the event stream come last, under "sse".
HttpFields == <<"on", "port", "auth", "mode", "api", "tls", "https-port", "username", "password",
                "priority", "sse">>
SseTaken(sse, f, v) ==
  CASE f = "on" -> v
    [] f = "port" -> JsonShort(v)
    [] f = "clients" -> IF JsonByte(v) \in 1..2 THEN JsonByte(v) ELSE sse[f]
    [] f = "interval" -> IF JsonShort(v) \in 50..5000 THEN JsonShort(v) ELSE sse[f]
    [] f = "heartbeat" -> IF JsonShort(v) \in 1000..60000 THEN JsonShort(v) ELSE sse[f]
PutHttp(d, f, v) ==
  CASE f = "mode" -> IF v \in {"basic", "bearer"} THEN Ok(Put(d, "http", f, v)) ELSE Error(d, 400)
    [] f = "port" -> Ok(Put(d, "http", f, JsonShort(v)))
    [] f = "https-port" -> Ok(IF JsonShort(v) >= 1 THEN Put(d, "http", f, JsonShort(v)) ELSE d)
    [] f = "username" -> Ok(Put(d, "http", f, Cut(v)))
    [] f = "priority" -> Ok(Put(d, "http", f, IF v \in {"low", "high"} THEN v ELSE "normal"))
    [] f = "sse" -> Ok([d EXCEPT !.cfg.sse = [g \in DOMAIN @ |->
                          IF g \in DOMAIN v THEN SseTaken(d.cfg.sse, g, v[g]) ELSE @[g]]])
    [] OTHER -> Ok(Put(d, "http", f, v))
http_post(d, body) == Handle(d, body, HttpFields, PutHttp)

rate_limit_post(d, body) ==
  IF "on" \in DOMAIN body THEN Ok([d EXCEPT !.limit = body["on"]]) ELSE Error(d, 400)
rate_limit_get(d) == [on |-> d.limit]

-----------------------------------------------------------------------------
\* Analog channels, module flags, watchdog, intervals.

\* The set point of an output goes to a register, not into the configuration.
analog_post(d, ch, body) ==
  LET Take(e, f, v) ==
        CASE f = "mode" -> Ok(IF ch = "ao1" /\ v \in {"current", "voltage"}
                              THEN Put(e, "modbus", "ao1", v) ELSE e)
          [] f = "setpoint" -> IF ch # "ao1" \/ v > 327 THEN Error(e, 400) ELSE Ok(e)
          [] OTHER -> Ok([e EXCEPT !.cfg.analog[ch][f] = v])
  IN  IF ch \in Channels
      THEN Handle(d, body, <<"on", "scale", "offset", "mode", "setpoint">>, Take)
      ELSE Error(d, 400)
analog_get(d, ch) ==
  Fields(d.cfg.analog[ch], <<"on", "scale", "offset">>)
  @@ (IF ch = "ao1" THEN [mode |-> d.cfg.modbus["ao1"]] ELSE <<>>)

modules_post(d, body) ==
  Handle(d, body, <<"counters", "timers", "st_logic">>,
         LAMBDA e, f, v : Ok(Put(e, "modules", f, v)))
modules_get(d) == d.cfg.modules

\* The timeout is set before the action is looked at.
watchdog_post(d, body) ==
  IF DOMAIN body \cap {"timeout", "action"} = {} THEN Error(d, 400)
  ELSE Handle(d, body, <<"timeout", "action">>,
              LAMBDA e, f, v :
                IF f = "timeout"
                THEN IF v \in 5..120 THEN Ok([e EXCEPT !.wdt.timeout = v]) ELSE Error(e, 400)
                ELSE IF v \in {"clear_safemode", "reset_stats"} THEN Ok(e) ELSE Error(e, 400))
watchdog_get(d) == [timeout |-> d.wdt.timeout]

\* Any interval up to a minute, where the command takes eight.
logic_settings_post(d, body) ==
  Handle(d, body, <<"interval">>,
         LAMBDA e, f, n :
           IF n \in 1..60000
           THEN Ok([Put(e, "logic", "interval", n) EXCEPT
                      !.programs = [i \in DOMAIN @ |->
                                      IF @[i].high THEN @[i] ELSE [@[i] EXCEPT !.interval = n]]])
           ELSE Error(e, 400))

-----------------------------------------------------------------------------
\* Users.

rbac_post(d, body) == Handle(d, body, <<"on">>, LAMBDA e, f, v : Ok(Put(e, "rbac", "on", v)))
rbac_get(d) == [on |-> d.cfg.rbac.on]

Given(body, f, default) == IF f \in DOMAIN body THEN body[f] ELSE default
\* Without the words, a user of the REST interface may only look on.
users_post(d, body) ==
  LET e == rbac_set_user(d, Given(body, "name", <<>>), Given(body, "password", <<>>),
                         rbac_parse_roles(Given(body, "roles", <<"monitor">>)),
                         Given(body, "privilege", "read"))
      UserIsTaken ==
        /\ \A f \in {"name", "password"} : Given(body, f, <<>>) # <<>> /\ ~TooLong(body[f])
        /\ display_name_ok(body["name"])
        /\ rbac_find_user(d, body["name"]) # {} \/ FreeSlots(d) # {}
  IN  IF UserIsTaken THEN Ok(e) ELSE Error(e, 400)
user_delete(d, name) ==
  IF rbac_find_user(d, name) = {} THEN Error(d, 404) ELSE Ok(rbac_delete_user(d, name))

-----------------------------------------------------------------------------
\* Counters and timers: a request starts from the engine's configuration,
\* and names what it changes.

CounterBytes == {"resolution", "input-dis", "dt-dis", "compare-mode"}
PutCounter(c, f, v) ==
  CASE f = "on" -> [c EXCEPT !.on = v]
    [] f = "auto" -> [c EXCEPT !.auto = v]
    [] f = "ror" -> [c EXCEPT !.ror = v]
    [] f = "debounce-time" -> [c EXCEPT !.keys[f] = JsonShort(v),
                                        !.keys["debounce"] = OnOff(JsonShort(v) > 0)]
    [] f = "prescaler" -> [c EXCEPT !.keys[f] = JsonShort(v)]
    [] f \in CounterBytes -> [c EXCEPT !.keys[f] = JsonByte(v)]
    [] f = "compare-source" -> [c EXCEPT !.keys[f] = IF JsonByte(v) > 2 THEN 1 ELSE JsonByte(v)]
    [] f \in {"reset-on-read"} -> [c EXCEPT !.keys[f] = OnOff(v)]
    [] f = "compare" -> [c EXCEPT !.keys[f] = IF v THEN "enable" ELSE "off"]
    [] OTHER -> [c EXCEPT !.keys[f] = CounterField(f, v, @)]

\* The stored configuration is a copy of what the engine has made of it; a
\* prescaler it refuses is answered like one it takes.
counter_post(d, id, body) ==
  LET c == FoldLeft(LAMBDA x, f : PutCounter(x, f, body[f]), d.counters[id],
                    SetToSeq(DOMAIN body))
      e == counter_engine_configure(d, id, c)
  IN  IF \/ "hw-mode" \in DOMAIN body /\ body["hw-mode"] \in {"hw", "sw-isr"}
         \/ c.keys["hw-mode"] = "encoder" /\ c.keys["input-dis"] = c.keys["dt-dis"]
      THEN Error(d, 400)
      ELSE Ok(register_allocator_allocate_counter(
                [e EXCEPT !.cfg.counters[id] = e.counters[id]], id))
counter_control_post(d, id, body) ==
  Handle(d, body, <<"running">>,
         LAMBDA e, f, v : Ok([e EXCEPT !.run = IF v THEN @ \cup {id} ELSE @ \ {id}]))
counter_delete(d, id) ==
  Ok(register_allocator_allocate_counter(
       [d EXCEPT !.counters[id] = counter_config_defaults,
                 !.cfg.counters[id] = counter_config_defaults], id))

TimerModes == <<"oneshot", "monostable", "astable", "input_triggered">>
PutTimer(t, f, v) ==
  CASE f = "on" -> [t EXCEPT !.on = v]
    [] f = "mode" -> IF v \in ToSet(TimerModes)
                     THEN [t EXCEPT !.mode = SelectInSeq(TimerModes, LAMBDA m : m = v)] ELSE t
    [] f \in {"output-coil", "ctrl-reg"} -> [t EXCEPT !.keys[f] = JsonShort(v)]
    [] f = "input-dis" -> [t EXCEPT !.keys[f] = JsonByte(v)]
    [] f \in Flags \cup {"trigger-edge"} -> [t EXCEPT !.keys[f] = IF v THEN 1 ELSE 0]
    [] OTHER -> [t EXCEPT !.keys[f] = v]
\* No register is asked for here.
timer_post(d, id, body) ==
  LET t == FoldLeft(LAMBDA x, f : PutTimer(x, f, body[f]), d.timers[id], SetToSeq(DOMAIN body))
  IN  Ok(timer_engine_configure([d EXCEPT !.cfg.timers[id] = t], id, t))

-----------------------------------------------------------------------------
\* A request: its resource, what it is about there (0 where there is one
\* only) and its body; and the resources whose settings a GET shows.

Post(d, resource, which, body) ==
  CASE resource = "modbus" -> modbus_post(d, which, body)
    [] resource = "wifi" -> wifi_post(d, body)
    [] resource = "ethernet" -> ethernet_post(d, body)
    [] resource = "telnet" -> telnet_post(d, body)
    [] resource = "ntp" -> ntp_post(d, body)
    [] resource = "hostname" -> hostname_post(d, body)
    [] resource = "http" -> http_post(d, body)
    [] resource = "rate-limit" -> rate_limit_post(d, body)
    [] resource = "analog" -> analog_post(d, which, body)
    [] resource = "modules" -> modules_post(d, body)
    [] resource = "watchdog" -> watchdog_post(d, body)
    [] resource = "logic" -> logic_settings_post(d, body)
    [] resource = "rbac" -> rbac_post(d, body)
    [] resource = "users" -> users_post(d, body)
    [] resource = "delete-user" -> user_delete(d, which)
    [] resource = "counter" -> counter_post(d, which, body)
    [] resource = "counter-control" -> counter_control_post(d, which, body)
    [] resource = "delete-counter" -> counter_delete(d, which)
    [] resource = "timer" -> timer_post(d, which, body)

Shown(d) ==
  {<<"modbus", role, modbus_get(d, role)>> : role \in {"slave", "master"}}
  \cup {<<"analog", ch, analog_get(d, ch)>> : ch \in Channels}
  \cup {<<"wifi", 0, wifi_get(d)>>, <<"ethernet", 0, ethernet_get(d)>>,
        <<"telnet", 0, telnet_get(d)>>, <<"ntp", 0, ntp_get(d)>>,
        <<"hostname", 0, hostname_get(d)>>, <<"rate-limit", 0, rate_limit_get(d)>>,
        <<"modules", 0, modules_get(d)>>, <<"watchdog", 0, watchdog_get(d)>>,
        <<"rbac", 0, rbac_get(d)>>}
=============================================================================
