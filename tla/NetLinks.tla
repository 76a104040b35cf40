------------------------------ MODULE NetLinks ------------------------------
(***************************************************************************)
(* The links to the network (network_manager.cpp, wifi_driver.cpp,         *)
(* ethernet_driver.cpp).  The drivers hear of the radio, the cable and     *)
(* addresses by events that the event task handles one after the other;    *)
(* the main loop sees to it that a lost Wi-Fi is joined again; and the     *)
(* console or the REST API connects and disconnects, a step at a time.     *)
(*                                                                         *)
(* The radio, the cable, the DHCP client and the event queue are external. *)
(* Joining can fail with an event or without one, and the DHCP client can  *)
(* go silent until the link comes anew.  What is done to the netif is what *)
(* it leaves there: an address or none.  Names, passwords, addresses and   *)
(* the numbers of them are left out, and so is the web server's restart    *)
(* for want of sockets.                                                    *)
(***************************************************************************)
EXTENDS Integers, Sequences

CONSTANTS
  Setups,       \* which of "wifi" and "ethernet" may be set up and used
  Servers,     \* the servers that are to run: "telnet", "http", "sse"
  Interval,     \* WIFI_RECONNECT_INTERVAL_MS, in ticks
  MaxInterval,  \* WIFI_RECONNECT_MAX_INTERVAL_MS
  DhcpTimeout,  \* WIFI_DHCP_TIMEOUT_MS
  JoinTimeout,  \* WIFI_CONNECTING_TIMEOUT_MS
  MaxEvents     \* bound: events that wait

NetAssumption ==
  /\ \A l \in Setups : l \subseteq {"wifi", "ethernet"}
  /\ "sse" \in Servers => "http" \in Servers
  /\ Interval \in Nat \ {0} /\ MaxInterval \in Nat /\ MaxInterval >= Interval
  /\ DhcpTimeout \in Nat /\ JoinTimeout \in Nat /\ MaxEvents \in Nat \ {0}

VARIABLES
  links,   \* what is set up
  wifi,    \* wifi_state: state, ip (whether it has one), retries, auto_reconnect,
           \* use_static_ip; age, the time since state_since_ms or, while
           \* disconnected, since last_reconnect_attempt_ms
  eth,     \* eth_state: state, ip, link_up, use_static_ip
  call,    \* where a call from the console or the REST API is
  served,  \* the servers that run
  radio,   \* the station: idle, joining, hung, joined
  client,  \* the DHCP client of the radio
  lease,   \* the links whose netif has an address
  cable,   \* it is plugged in
  port,    \* the Ethernet driver: whether it is there and runs
  air,     \* the access point and the DHCP servers answer
  queue    \* the events that wait

vars == <<links, wifi, eth, call, served, radio, client, lease, cable, port, air, queue>>

Room == Len(queue) < MaxEvents
Post(e) == Room /\ queue' = Append(queue, e)

Min2(a, b) == IF a < b THEN a ELSE b
\* bound: time is counted as long as something may still depend on it.
Most == CHOOSE t \in {MaxInterval + 1, DhcpTimeout + 1, JoinTimeout + 1} :
          t > MaxInterval /\ t > DhcpTimeout /\ t > JoinTimeout

\* wifi_reconnect_interval_ms: doubled from the second try on.
IntervalOf[n \in Nat] ==
  IF n <= 1 THEN Interval ELSE Min2(2 * IntervalOf[n - 1], MaxInterval)
\* bound: the tries are counted until the interval grows no more.
More(n) == IF n > 0 /\ IntervalOf[n + 1] = IntervalOf[n] THEN n ELSE n + 1

-----------------------------------------------------------------------------
(* The events of the radio (wifi_event_handler, ip_event_handler).          *)

\* It says connecting, whether or not it has been told to.
OnStart == wifi' = [wifi EXCEPT !.state = "connecting"] /\ UNCHANGED <<client, lease>>

\* A fixed address is applied here, and the DHCP client stopped before it.
OnConnected ==
  \/ /\ ~wifi.static
     /\ wifi' = [wifi EXCEPT !.state = "connected", !.age = 0]
     /\ UNCHANGED <<client, lease>>
  \/ /\ wifi.static
     /\ client' = "stopped"
     /\ \/ /\ wifi' = [wifi EXCEPT !.state = "connected", !.age = 0, !.ip = TRUE]
           /\ lease' = lease \cup {"wifi"}
        \/ /\ wifi' = [wifi EXCEPT !.state = "connected", !.age = 0]
           /\ UNCHANGED lease

\* Mutant: after so many tries it gives up, as it did before BUG-490.
OnDisconnectedGivesUp ==
  /\ wifi' = IF wifi.auto /\ IntervalOf[wifi.retries] < MaxInterval
             THEN [wifi EXCEPT !.state = "disconnected", !.ip = FALSE,
                               !.retries = More(@), !.age = 0]
             ELSE [wifi EXCEPT !.state = "idle", !.ip = FALSE]
  /\ UNCHANGED <<client, lease>>
\* "forsøg igen for altid", unless it was told to disconnect.
OnDisconnected ==
  /\ wifi' = IF wifi.auto
             THEN [wifi EXCEPT !.state = "disconnected", !.ip = FALSE,
                               !.retries = More(@), !.age = 0]
             ELSE [wifi EXCEPT !.state = "idle", !.ip = FALSE]
  /\ UNCHANGED <<client, lease>>

OnGotIp == wifi' = [wifi EXCEPT !.ip = TRUE, !.retries = 0] /\ UNCHANGED <<client, lease>>

\* The time counts where state_since_ms is looked at.
OnLostIp ==
  /\ wifi' = [wifi EXCEPT !.ip = FALSE,
                          !.age = IF wifi.state = "disconnected" THEN @ ELSE 0]
  /\ UNCHANGED <<client, lease>>

WifiEvent ==
  /\ \/ Head(queue) = "start" /\ OnStart
     \/ Head(queue) = "connected" /\ OnConnected
     \/ Head(queue) = "disconnected" /\ OnDisconnected
     \/ Head(queue) = "gotip" /\ OnGotIp
     \/ Head(queue) = "lostip" /\ OnLostIp
  /\ UNCHANGED eth

-----------------------------------------------------------------------------
(* The events of the Ethernet (eth_event_handler, eth_ip_event_handler).    *)

\* With a fixed address that is all it takes.
OnLinkUp ==
  eth' = IF eth.static
         THEN [eth EXCEPT !.link = TRUE, !.ip = TRUE, !.state = "connected"]
         ELSE [eth EXCEPT !.link = TRUE]
OnLinkDown == eth' = [eth EXCEPT !.link = FALSE, !.state = "disconnected", !.ip = FALSE]
OnStop == eth' = [eth EXCEPT !.state = "idle", !.ip = FALSE]
OnEthGotIp == eth' = [eth EXCEPT !.ip = TRUE, !.state = "connected"]

EthEvent ==
  /\ \/ Head(queue) = "up" /\ OnLinkUp
     \/ Head(queue) = "down" /\ OnLinkDown
     \/ Head(queue) = "stop" /\ OnStop
     \/ Head(queue) = "ethip" /\ OnEthGotIp
  /\ UNCHANGED <<wifi, client, lease>>

\* The event task.
Handle ==
  /\ queue # <<>> /\ queue' = Tail(queue)
  /\ WifiEvent \/ EthEvent
  /\ UNCHANGED <<call, links, served, radio, cable, port, air>>

-----------------------------------------------------------------------------
(* The radio.                                                               *)

\* esp_wifi_connect: one that is joining or joined stays as it is.
Joining == IF radio \in {"idle", "hung"} THEN "joining" ELSE radio

\* esp_wifi_disconnect, and what the netif does when the station leaves.
Leave ==
  /\ IF radio = "idle" THEN UNCHANGED queue ELSE Post("disconnected")
  /\ radio' = "idle" /\ lease' = lease \ {"wifi"}
  /\ client' = IF client = "stopped" THEN client ELSE "init"

Joins ==
  /\ radio = "joining" /\ air.ap /\ radio' = "joined" /\ Post("connected")
  /\ client' = IF client = "init" THEN "on" ELSE client
  /\ UNCHANGED <<wifi, lease>>
JoinFails ==
  /\ radio = "joining" /\ radio' \in {"idle", "hung"}
  /\ IF radio' = "idle" THEN Post("disconnected") ELSE UNCHANGED queue
  /\ UNCHANGED <<wifi, client, lease>>
Drops == radio = "joined" /\ Leave /\ UNCHANGED wifi
GetsLease ==
  /\ radio = "joined" /\ client = "on" /\ air.dhcp /\ "wifi" \notin lease
  /\ lease' = lease \cup {"wifi"} /\ Post("gotip")
  /\ UNCHANGED <<wifi, radio, client>>
LosesLease ==
  /\ radio = "joined" /\ client = "on" /\ "wifi" \in lease
  /\ lease' = lease \ {"wifi"} /\ Post("lostip")
  /\ UNCHANGED <<wifi, radio, client>>
GoesSilent ==
  /\ radio = "joined" /\ client = "on" /\ "wifi" \notin lease /\ client' = "silent"
  /\ UNCHANGED <<wifi, radio, lease, queue>>

Radio ==
  /\ Joins \/ JoinFails \/ Drops \/ GetsLease \/ LosesLease \/ GoesSilent
  /\ UNCHANGED <<eth, call, links, served, cable, port, air>>

-----------------------------------------------------------------------------
(* wifi_driver_loop, from network_manager_loop.                             *)

\* A join without an answer counts as lost, in the same pass.
Hung == wifi.state = "connecting" /\ wifi.age > JoinTimeout
Lost == IF Hung THEN [wifi EXCEPT !.state = "disconnected", !.retries = More(@), !.age = 0]
        ELSE wifi

\* Joined, and no address for too long; a fixed one is not waited for.
WatchLease ==
  wifi.state = "connected" /\ ~wifi.ip /\ ~wifi.static /\ wifi.age > DhcpTimeout

Loop ==
  /\ wifi.auto
  /\ \/ /\ WatchLease
        /\ wifi' = [wifi EXCEPT !.age = 0] /\ Leave
     \/ /\ ~WatchLease /\ Lost.state = "disconnected" /\ Lost.age > IntervalOf[Lost.retries]
        /\ wifi' = [Lost EXCEPT !.state = "connecting", !.age = 0]
        /\ radio' = Joining /\ UNCHANGED <<client, lease, queue>>
     \/ /\ ~WatchLease /\ ~(Lost.state = "disconnected" /\ Lost.age > IntervalOf[Lost.retries])
        /\ wifi' = Lost /\ UNCHANGED <<radio, client, lease, queue>>
  /\ UNCHANGED <<eth, call, links, served, cable, port, air>>

-----------------------------------------------------------------------------
(* Calls of the console or the REST API, and the start of the device.       *)

\* wifi_driver_enable_dhcp, which fails while the client runs, or
\* wifi_driver_set_static_ip, which is applied when the radio joins.
Addressing ==
  \/ /\ wifi' = [wifi EXCEPT !.static = client \in {"on", "silent"} /\ @]
     /\ client' = IF client # "stopped" THEN client
                  ELSE IF radio = "joined" THEN "on" ELSE "init"
  \/ wifi' = [wifi EXCEPT !.static = TRUE] /\ UNCHANGED client

\* network_manager_connect up to esp_wifi_set_config, which may fail.
Connect ==
  /\ call = "none" /\ "wifi" \in links /\ Addressing
  /\ call' \in {"none", "config"}
  /\ UNCHANGED <<eth, links, served, radio, lease, cable, port, air, queue>>
\* wifi_driver_connect: esp_wifi_connect is called, and may fail.
Connecting ==
  /\ call = "config"
  /\ \/ /\ wifi' = [wifi EXCEPT !.auto = TRUE, !.retries = 0]
        /\ radio' = Joining /\ call' = "connect"
     \/ /\ wifi' = [wifi EXCEPT !.auto = TRUE, !.retries = 1, !.state = "disconnected", !.age = 0]
        /\ call' = "none" /\ UNCHANGED radio
  /\ UNCHANGED <<eth, links, served, client, lease, cable, port, air, queue>>
\* Only now does the state say so: events may have come in between.
Connected ==
  /\ call = "connect" /\ call' = "none"
  /\ wifi' = [wifi EXCEPT !.state = "connecting", !.age = 0]
  /\ UNCHANGED <<eth, links, served, radio, client, lease, cable, port, air, queue>>

\* network_manager_stop: the servers, the Ethernet, the radio.  Nothing but a
\* restart starts the servers and the Ethernet again.
Stop ==
  /\ call = "none" /\ call' = "stop" /\ served' = {}
  /\ UNCHANGED <<links, wifi, eth, radio, client, lease, cable, port, air, queue>>
\* ethernet_driver_stop: without a driver there is nothing to stop.
StopEthernet ==
  /\ call = "stop" /\ call' = "leave"
  /\ \/ port = "none" /\ UNCHANGED <<eth, port, lease, queue>>
     \/ /\ port # "none" /\ port' = "stopped" /\ Post("stop")
        /\ eth' = [eth EXCEPT !.state = "idle", !.ip = FALSE] /\ lease' = lease \ {"ethernet"}
  /\ UNCHANGED <<wifi, links, served, radio, client, cable, air>>
\* wifi_driver_disconnect; esp_wifi_disconnect may fail.
Disconnect ==
  /\ call = "leave"
  /\ wifi' = [wifi EXCEPT !.auto = FALSE]
  /\ \/ Leave /\ call' = "left"
     \/ call' = "none" /\ UNCHANGED <<radio, client, lease, queue>>
  /\ UNCHANGED <<eth, links, served, cable, port, air>>
Disconnected ==
  /\ call = "left" /\ call' = "none"
  /\ wifi' = [wifi EXCEPT !.state = "idle", !.ip = FALSE, !.retries = 0]
  /\ UNCHANGED <<eth, links, served, radio, client, lease, cable, port, air, queue>>

\* ethernet_driver_set_static_ip: the address is noted once the netif has it.
FixedAddress(e) == [e EXCEPT !.static = TRUE, !.ip = TRUE]
\* Any step of ethernet_driver_init may fail.
InitFails == eth' = [eth EXCEPT !.state = "error"] /\ port' = "none" /\ UNCHANGED lease
\* Or the driver is there, with its address, and ethernet_driver_start may fail.
Started ==
  /\ eth' \in {[eth EXCEPT !.state = "idle"], FixedAddress([eth EXCEPT !.state = "idle"])}
  /\ lease' = IF eth'.static THEN lease \cup {"ethernet"} ELSE lease
  /\ port' \in {"runs", "none"}
\* network_manager_start_ethernet.
StartEthernet ==
  /\ call = "boot" /\ call' = "none"
  /\ \/ "ethernet" \in links /\ (InitFails \/ Started)
     \/ "ethernet" \notin links /\ UNCHANGED <<eth, port, lease>>
  /\ UNCHANGED <<wifi, links, served, radio, client, cable, air, queue>>

\* What a call does once it has begun.
GoesOn == Connecting \/ Connected \/ StopEthernet \/ Disconnect \/ Disconnected
Call == Connect \/ Stop \/ GoesOn

-----------------------------------------------------------------------------
(* The cable, and the passing of time.                                      *)

Plug ==
  /\ port = "runs" /\ cable' = ~cable
  /\ Post(IF cable' THEN "up" ELSE "down")
  /\ lease' = IF cable' \/ eth.static THEN lease ELSE lease \ {"ethernet"}
  /\ UNCHANGED <<wifi, eth, call, links, served, radio, client, port, air>>
\* The DHCP client of the Ethernet.
EthLease ==
  /\ port = "runs" /\ cable /\ air.dhcp /\ ~eth.static /\ "ethernet" \notin lease
  /\ lease' = lease \cup {"ethernet"} /\ Post("ethip")
  /\ UNCHANGED <<wifi, eth, call, links, served, radio, client, cable, port, air>>

Weather ==
  /\ air' \in [ap : BOOLEAN, dhcp : BOOLEAN]
  /\ UNCHANGED <<wifi, eth, call, links, served, radio, client, lease, cable, port, queue>>
Tick ==
  /\ wifi' = [wifi EXCEPT !.age = Min2(@ + 1, Most)]
  /\ UNCHANGED <<eth, call, links, served, radio, client, lease, cable, port, air, queue>>

\* network_manager_init, network_manager_start_services.
Init ==
  /\ wifi = [state |-> "idle", ip |-> FALSE, retries |-> 0, auto |-> FALSE,
             static |-> FALSE, age |-> 0]
  /\ eth = [state |-> "uninitialized", ip |-> FALSE, link |-> FALSE, static |-> FALSE]
  /\ links \in Setups /\ call = "boot" /\ served = Servers
  /\ radio = "idle" /\ client = "init" /\ lease = {}
  /\ cable = FALSE /\ port = "none" /\ queue = <<"start">>
  /\ air \in [ap : BOOLEAN, dhcp : BOOLEAN]

Next == Handle \/ Radio \/ Loop \/ Call \/ StartEthernet \/ Plug \/ EthLease \/ Weather \/ Tick

Spec == Init /\ [][Next]_vars
\* The tasks run, a call that has begun ends, time passes, and a radio that is
\* told to join again and again does so in the end, as does a DHCP client that
\* asks.
FairSpec ==
  /\ Spec /\ WF_vars(Handle) /\ WF_vars(Loop) /\ WF_vars(Tick) /\ WF_vars(GoesOn)
  /\ WF_vars(EthLease) /\ SF_vars(Radio /\ Joins) /\ SF_vars(Radio /\ GetsLease)

-----------------------------------------------------------------------------
TypeOK ==
  /\ wifi \in [state : {"idle", "connecting", "connected", "disconnected"}, ip : BOOLEAN,
               retries : Nat, auto : BOOLEAN, static : BOOLEAN, age : 0..Most]
  /\ eth \in [state : {"uninitialized", "idle", "connected", "disconnected", "error"},
              ip : BOOLEAN, link : BOOLEAN, static : BOOLEAN]
  /\ radio \in {"idle", "joining", "hung", "joined"}
  /\ client \in {"init", "on", "silent", "stopped"} /\ lease \subseteq {"wifi", "ethernet"}
  /\ port \in {"none", "runs", "stopped"} /\ Len(queue) <= MaxEvents

\* Once the access point and its DHCP server are back for good, the radio is
\* joined again and again and has an address (BUG-490: it gave up), unless a
\* connect on top of a connection has made the driver lose track of it; and the
\* Ethernet reports its address once the cable stays in.
WifiComesBack ==
  <>[](call = "none" /\ wifi.auto /\ ~wifi.static /\ air.ap /\ air.dhcp)
    => []<>(radio = "joined" /\ ("wifi" \in lease \/ wifi.state # "connected"))
EthernetComesBack ==
  <>[](port = "runs" /\ cable /\ (air.dhcp \/ eth.static))
    => <>[](eth.state = "connected" /\ eth.ip)
LinksComeBack == WifiComesBack /\ EthernetComesBack
=============================================================================
