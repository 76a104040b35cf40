------------------------------ MODULE RtuMaster ------------------------------
(***************************************************************************)
(* The RTU bus and those who use it (modbus_master.cpp, uart_driver.cpp):  *)
(* the background task of mb_async.cpp and the commands mb read, mb write  *)
(* and mb scan, which run on the task of the console they were typed at,   *)
(* or on the web server's.  A mutex keeps their transactions apart; the    *)
(* commands pause the background task, and may change the baud rate while  *)
(* they run.                                                               *)
(*                                                                         *)
(* A frame comes in two pieces, the bytes up to those that say how long it *)
(* is and the rest; an exception is one piece.  A checksum fits the bytes  *)
(* of one frame and no others.  Registers and their values are left out:   *)
(* an answer is known by the request it answers.  Time is left open: a     *)
(* wait may end at any moment, and a slave answers early, late or never.   *)
(***************************************************************************)
EXTENDS Naturals, Sequences, FiniteSets

CONSTANTS
  Task,      \* the background task
  Consoles,  \* the tasks that run commands
  RateOf,    \* the slaves, with the baud rate of each
  Rates,     \* the baud rates
  Asks,      \* what may be asked of a slave: op and n, the number of values
  MaxSent    \* bound: requests sent

Slaves == DOMAIN RateOf
Callers == {Task} \cup Consoles
Ops == {"read_coil", "read_input", "read_holding", "read_input_register", "read_holdings",
        "write_coil", "write_holding", "write_holdings", "write_coils"}
RtuAssumption ==
  /\ Task \notin Consoles /\ RateOf \in [Slaves -> Rates] /\ MaxSent \in Nat
  /\ Asks \subseteq [op : Ops, n : 1..16] /\ {"off", "none"} \cap Rates = {}
  /\ {"none", "free"} \cap Callers = {}

VARIABLES
  master,   \* g_modbus_master_config: enabled, rate; running: the task is there
  port,     \* the UART: its rate, or off
  mutex,    \* g_modbus_uart_mutex: none, free or who holds it
  paused,   \* g_mb_async.paused
  busy,     \* cmd_in_progress
  console,  \* by console, its command: at, cmd, saved (the rate to go back to),
            \* asked (whether it has)
  call,     \* by caller, its transaction: at, ask, id, got, result
  asked,    \* history: the requests sent
  owed,     \* answers not yet given, or given half
  rx        \* the bytes received: pieces

vars == <<master, port, mutex, paused, busy, console, call, asked, owed, rx>>

NoCommand == [at |-> "none", cmd |-> "none", saved |-> "none", asked |-> FALSE]
NoCall == [at |-> "none", ask |-> [slave |-> "none", op |-> "none", n |-> 0], id |-> 0,
           got |-> <<>>, result |-> "none"]
Results == {"none", "ok", "timeout", "crc", "exception", "not_enabled", "busy"}

-----------------------------------------------------------------------------
(* Frames.                                                                  *)

IsRead(q) == q.op \in {"read_coil", "read_input", "read_holding", "read_input_register",
                       "read_holdings"}
IsMany(q) == q.op = "read_holdings"
Fc(q) == CASE q.op = "read_coil" -> 1 [] q.op = "read_input" -> 2
           [] q.op \in {"read_holding", "read_holdings"} -> 3
           [] q.op = "read_input_register" -> 4
           [] q.op = "write_coil" -> 5 [] q.op = "write_holding" -> 6
           [] q.op = "write_coils" -> 15 [] q.op = "write_holdings" -> 16

\* The bytes of the answer, and the room the caller has for one.
Size(q) == CASE Fc(q) \in {1, 2} -> 6 [] Fc(q) \in {3, 4} -> 5 + 2 * q.n [] OTHER -> 8
RoomFor(q) == CASE IsMany(q) -> 37 [] Fc(q) \in {3, 4} -> 9 [] OTHER -> 8

\* What is received is a whole frame, or may become one.
IsWhole(got) ==
  \/ Len(got) = 1 /\ got[1].part = "exception"
  \/ Len(got) = 2 /\ got[1].part = "head" /\ got[2].part = "tail" /\ got[1].of = got[2].of
IsBegun(got) == Len(got) = 1 /\ got[1].part = "head"

\* modbus_master_read_...: the function code and the number of values of the
\* answer are looked at, and not who sent it; a write takes any answer.
Passes(q, a) ==
  IsRead(q) => Fc(a) = Fc(q) /\ (IsMany(q) => a.n = q.n)

\* The end of modbus_master_send_request and of its caller.
ResultOf(q, got) ==
  LET a == asked[got[1].of]
  IN CASE ~IsWhole(got) -> "crc"
       [] got[1].part = "exception" -> "exception"
       [] Size(a) > RoomFor(q) \/ ~Passes(q, a) -> "crc"
       [] OTHER -> "ok"

-----------------------------------------------------------------------------
(* modbus_master_send_request.                                              *)

Ends(x, result) == [call EXCEPT ![x].at = "done", ![x].result = result]

Begin(x, q) ==
  /\ call' = [call EXCEPT ![x] =
       [NoCall EXCEPT !.at = IF master.enabled THEN "lock" ELSE "done", !.ask = q,
                      !.result = IF master.enabled THEN "none" ELSE "not_enabled"]]
  /\ UNCHANGED <<master, port, mutex, asked, owed, rx>>

\* Mutant: nobody waits.
LockNever(x) ==
  /\ call[x].at = "lock" /\ call' = [call EXCEPT ![x].at = "send"]
  /\ UNCHANGED <<master, port, mutex, paused, busy, console, asked, owed, rx>>
\* ModbusUartLock: two seconds are waited; without a mutex none.
Lock(x) ==
  /\ call[x].at = "lock"
  /\ \/ mutex = "free" /\ mutex' = x /\ call' = [call EXCEPT ![x].at = "send"]
     \/ mutex # "free" /\ call' = Ends(x, "busy") /\ UNCHANGED mutex
  /\ UNCHANGED <<master, port, paused, busy, console, asked, owed, rx>>

\* The buffer is emptied and the request sent, nothing being received the while.
\* A slave understands it at its own rate.  A UART that is off sends nothing.
Send(x) ==
  /\ call[x].at = "send" /\ Len(asked) < MaxSent
  /\ LET q == call[x].ask
         id == Len(asked) + 1
     IN /\ asked' = Append(asked, q)
        /\ call' = [call EXCEPT ![x].at = "receive", ![x].id = id]
        /\ owed' = IF port = RateOf[q.slave] THEN owed \cup {[of |-> id, next |-> "head"]} ELSE owed
  /\ rx' = IF port = "off" THEN rx ELSE <<>>
  /\ UNCHANGED <<master, port, mutex, paused, busy, console>>

\* Released: all ways out of modbus_master_send_request release the mutex.
Released(x) == mutex' = IF mutex = x THEN "free" ELSE mutex

\* Bytes are read until they are a frame or fill the room; what is no
\* beginning of a frame may look like either, or keep the caller waiting.
Read(x) ==
  /\ call[x].at = "receive" /\ rx # <<>> /\ port # "off"
  /\ rx' = Tail(rx)
  /\ LET got == Append(call[x].got, Head(rx))
         read == [call EXCEPT ![x].got = got]
     IN \/ ~IsWhole(got) /\ Len(got) < 3 /\ call' = read /\ UNCHANGED mutex
        \/ ~IsBegun(got) /\ Released(x)
           /\ call' = [read EXCEPT ![x].at = "done", ![x].result = ResultOf(call[x].ask, got)]
  /\ UNCHANGED <<master, port, paused, busy, console, asked, owed>>

\* The whole time for the first byte, or that between two bytes, is over.
TimesOut(x) ==
  /\ call[x].at = "receive" /\ call' = Ends(x, "timeout") /\ Released(x)
  /\ UNCHANGED <<master, port, paused, busy, console, asked, owed, rx>>

Transaction(x) == Lock(x) \/ Send(x) \/ Read(x) \/ TimesOut(x)

-----------------------------------------------------------------------------
(* The slaves and the line.                                                 *)

\* A piece arrives, as noise if the UART has another rate by now.
Arrives(part, o) ==
  rx' = IF port = "off" THEN rx
        ELSE Append(rx, [of |-> o.of, after |-> Len(asked),
                         part |-> IF port = RateOf[asked[o.of].slave] THEN part ELSE "noise"])
Answer ==
  /\ \E o \in owed :
       \/ o.next = "head" /\ Arrives("head", o)
          /\ owed' = (owed \ {o}) \cup {[o EXCEPT !.next = "tail"]}
       \/ o.next = "head" /\ Arrives("exception", o) /\ owed' = owed \ {o}
       \/ o.next = "tail" /\ Arrives("tail", o) /\ owed' = owed \ {o}
  /\ UNCHANGED <<master, port, mutex, paused, busy, console, call, asked>>

-----------------------------------------------------------------------------
(* The background task: the flag is looked at before it waits for a request *)
(* and not again.                                                           *)

TaskLooks ==
  /\ call[Task].at = "none" /\ master.running /\ ~paused
  /\ call' = [call EXCEPT ![Task].at = "waits"]
  /\ UNCHANGED <<master, port, mutex, paused, busy, console, asked, owed, rx>>
TaskAsks ==
  /\ call[Task].at = "waits"
  /\ \E q \in Asks, s \in Slaves : Begin(Task, [slave |-> s, op |-> q.op, n |-> q.n])
  /\ UNCHANGED <<paused, busy, console>>
TaskGoesOn ==
  /\ call[Task].at = "done" /\ call' = [call EXCEPT ![Task] = NoCall]
  /\ UNCHANGED <<master, port, mutex, paused, busy, console, asked, owed, rx>>

-----------------------------------------------------------------------------
(* Commands (cli_shell_execute_command, cli_commands_modbus_master.cpp).    *)

\* modbus_master_reconfigure, of a master that is enabled.
Reconfigured(m) == IF m.enabled THEN port' = m.rate /\ rx' = <<>> ELSE UNCHANGED <<port, rx>>

Goes(c, at) == console' = [console EXCEPT ![c].at = at]

\* One command at a time: the flag is looked at and then set.
Type(c) ==
  /\ console[c].at = "none" /\ ~busy /\ Goes(c, "typed")
  /\ UNCHANGED <<master, port, mutex, paused, busy, call, asked, owed, rx>>
Execute(c) ==
  /\ console[c].at = "typed" /\ busy' = TRUE
  /\ \E cmd \in {"read", "write", "scan", "on", "off"} :
       console' = [console EXCEPT ![c].cmd = cmd,
                     ![c].at = IF cmd \in {"on", "off"} THEN "set"
                               ELSE IF master.enabled THEN "begun" ELSE "left"]
  /\ UNCHANGED <<master, port, mutex, paused, call, asked, owed, rx>>

\* MbTempBaud: another rate while the command runs, if it names one.
TempBaud(c) ==
  /\ console[c].at = "begun"
  /\ \/ Goes(c, "rated") /\ UNCHANGED <<master, port, rx>>
     \/ \E r \in Rates \ {master.rate} :
          /\ console' = [console EXCEPT ![c].at = "rated", ![c].saved = master.rate]
          /\ master' = [master EXCEPT !.rate = r] /\ Reconfigured(master')
  /\ UNCHANGED <<mutex, paused, busy, call, asked, owed>>
\* MbAsyncPauseGuard.
Pause(c) ==
  /\ console[c].at = "rated" /\ paused' = TRUE /\ Goes(c, "asks")
  /\ UNCHANGED <<master, port, mutex, busy, call, asked, owed, rx>>

\* mb read and mb write ask once, mb scan once for each address.
Fits(c, q) ==
  CASE console[c].cmd = "read" -> q.op \in {"read_coil", "read_input", "read_holding",
                                            "read_input_register", "read_holdings"}
    [] console[c].cmd = "write" -> q.op \in {"write_coil", "write_holding"}
    [] OTHER -> q.op = "read_holding"
Ask(c) ==
  /\ console[c].at = "asks" /\ call[c].at = "none"
  /\ console[c].asked => console[c].cmd = "scan"
  /\ console' = [console EXCEPT ![c].asked = TRUE]
  /\ \E q \in Asks, s \in Slaves : Fits(c, q) /\ Begin(c, [slave |-> s, op |-> q.op, n |-> q.n])
  /\ UNCHANGED <<paused, busy>>
Told(c) ==
  /\ call[c].at = "done" /\ call' = [call EXCEPT ![c] = NoCall]
  /\ UNCHANGED <<master, port, mutex, paused, busy, console, asked, owed, rx>>

\* The guards end in the other order: the task goes on, then the rate is set.
Unpause(c) ==
  /\ console[c].at = "asks" /\ call[c].at = "none" /\ paused' = FALSE /\ Goes(c, "asked")
  /\ UNCHANGED <<master, port, mutex, busy, call, asked, owed, rx>>
RestoreBaud(c) ==
  /\ console[c].at = "asked" /\ Goes(c, "left")
  /\ IF console[c].saved = "none" THEN UNCHANGED <<master, port, rx>>
     ELSE master' = [master EXCEPT !.rate = console[c].saved] /\ Reconfigured(master')
  /\ UNCHANGED <<mutex, paused, busy, call, asked, owed>>
Leave(c) ==
  /\ console[c].at = "left" /\ busy' = FALSE
  /\ console' = [console EXCEPT ![c] = NoCommand]
  /\ UNCHANGED <<master, port, mutex, paused, call, asked, owed, rx>>

\* modbus_master_set_enabled: the UART first, the mutex and the task after.
SetEnabled(c) ==
  /\ console[c].at = "set"
  /\ master' = [master EXCEPT !.enabled = console[c].cmd = "on"]
  /\ IF master'.enabled THEN Reconfigured(master') ELSE port' = "off" /\ rx' = <<>>
  /\ Goes(c, IF master'.enabled THEN "make" ELSE "left")
  /\ UNCHANGED <<mutex, paused, busy, call, asked, owed>>
MakeMutex(c) ==
  /\ console[c].at = "make" /\ Goes(c, "left")
  /\ mutex' = IF mutex = "none" THEN "free" ELSE mutex
  /\ master' = [master EXCEPT !.running = TRUE]
  /\ UNCHANGED <<port, paused, busy, call, asked, owed, rx>>

Command(c) ==
  \/ Type(c) \/ Execute(c) \/ TempBaud(c) \/ Pause(c) \/ Ask(c) \/ Told(c)
  \/ Unpause(c) \/ RestoreBaud(c) \/ Leave(c) \/ SetEnabled(c) \/ MakeMutex(c)

\* Started as a master, or not: then it can be made one by a command.
Init ==
  /\ \E on \in BOOLEAN, r \in Rates :
       /\ master = [enabled |-> on, rate |-> r, running |-> on]
       /\ port = IF on THEN r ELSE "off"
       /\ mutex = IF on THEN "free" ELSE "none"
  /\ paused = FALSE /\ busy = FALSE
  /\ console = [c \in Consoles |-> NoCommand] /\ call = [x \in Callers |-> NoCall]
  /\ asked = <<>> /\ owed = {} /\ rx = <<>>

Next ==
  \/ \E x \in Callers : Transaction(x)
  \/ Answer \/ TaskLooks \/ TaskAsks \/ TaskGoesOn
  \/ \E c \in Consoles : Command(c)

Spec == Init /\ [][Next]_vars

-----------------------------------------------------------------------------
Pieces == [of : 1..MaxSent, after : 1..MaxSent, part : {"head", "tail", "exception", "noise"}]
TypeOK ==
  /\ master \in [enabled : BOOLEAN, rate : Rates, running : BOOLEAN]
  /\ port \in Rates \cup {"off"} /\ mutex \in Callers \cup {"none", "free"}
  /\ paused \in BOOLEAN /\ busy \in BOOLEAN
  /\ console \in [Consoles ->
       [at : {"none", "typed", "begun", "rated", "asks", "asked", "left", "set", "make"},
        cmd : {"none", "read", "write", "scan", "on", "off"},
        saved : Rates \cup {"none"}, asked : BOOLEAN]]
  /\ call \in [Callers ->
       [at : {"none", "waits", "lock", "send", "receive", "done"},
        ask : [slave : Slaves \cup {"none"}, op : Ops \cup {"none"}, n : 0..16],
        id : 0..MaxSent, got : Seq(Pieces), result : Results]]
  /\ asked \in Seq([slave : Slaves, op : Ops, n : 1..16])
  /\ owed \subseteq [of : 1..MaxSent, next : {"head", "tail"}] /\ rx \in Seq(Pieces)

\* What a caller takes for the answer came after its own request had been sent
\* and before any other was; and if it answers another request, then one that was
\* given up before (nothing in an answer says which request it is for).
InProgress == {call[x].id : x \in {y \in Callers : call[y].at = "receive"}}
AnswersAreFresh ==
  \A x \in Callers : call[x].result \in {"ok", "exception"} =>
    /\ \A i \in 1..Len(call[x].got) : call[x].got[i].after = call[x].id
    /\ call[x].got[1].of \notin InProgress
=============================================================================
