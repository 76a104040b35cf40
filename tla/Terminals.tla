----------------------------- MODULE Terminals -----------------------------
(***************************************************************************)
(* The terminals (cli_shell.cpp, cli_history.cpp, telnet_server.cpp,       *)
(* tcp_server.cpp): a serial console and a Telnet client, each with a line *)
(* editor of its own, both handled by the main loop; and the command line  *)
(* of the web page, which runs commands on the HTTP task.  All three share *)
(* the history, the upload of a program and its mode.                      *)
(*                                                                         *)
(* telnet_server_loop takes a step to look who is connected, one to accept *)
(* and one for each byte and each line, so that bytes arrive, the          *)
(* connection breaks or is cut off by the access rules, and the HTTP task  *)
(* runs in between.  The sockets, the keys that are pressed and the   *)
(* commands themselves are external, but for those that start an upload    *)
(* and end a session; spaces, what is printed and the echo are left out.   *)
(* A key is the bytes the terminal sends for it.                           *)
(***************************************************************************)
EXTENDS Integers, SequencesExt

CONSTANTS
  Sends,       \* what a Telnet client sends at a time: sequences of keys
  Types,       \* the same for the serial console
  WebLines,    \* the lines of the web page
  Accounts,    \* names and passwords that may use the command line
  UploadLine, EndLine, ExitLine,
  LineSize,    \* TELNET_INPUT_BUFFER_SIZE - 1, CLI_INPUT_BUFFER_SIZE - 1
  UploadSize,  \* CLI_UPLOAD_BUFFER_SIZE
  HistorySize, \* CLI_HISTORY_SIZE
  PasteMax,    \* bytes read for one line of a paste
  MaxAttempts, \* TELNET_MAX_AUTH_ATTEMPTS
  MaxCalls     \* bound: what clients and users do

TerminalAssumption ==
  /\ {LineSize, HistorySize, PasteMax, MaxAttempts} \subseteq Nat \ {0}
  /\ {UploadSize, MaxCalls} \subseteq Nat

VARIABLES
  conn,     \* clients[0]: none, up, or gone without the server having noticed
  waiting,  \* somebody wants to be accepted
  wire,     \* the bytes that have arrived
  telnet,   \* text: input_buffer up to input_pos; cursor, escape, parse, ready
  lastCr,   \* last_was_cr
  login,    \* auth_state, auth_username, auth_attempts, auth_lockout_time
  was,      \* was_connected
  at,       \* where telnet_server_loop is
  budget,   \* bytes it may still read for a line of a paste
  serial, serialWire,
  history, nav,  \* oldest first; 0 while nobody looks at it
  upload,   \* the size of cli_upload_buffer, or Off
  web,      \* the command the HTTP task runs, or none
  calls,
  \* For the properties only: the lines as they are meant, the line that
  \* Telnet has ended, whether this client has given a name and a password,
  \* and the lines and the login that are known to be spoilt.
  ideal, meant, entered, spoilt

editors == <<telnet, lastCr, serial, history, nav, upload>>
ghosts == <<ideal, meant, entered, spoilt>>
vars == <<conn, waiting, wire, editors, login, was, at, budget, serialWire, web, calls, ghosts>>

None == <<>>
Off == -1

-----------------------------------------------------------------------------
(* Keys and the bytes they send.  The key is noted at the byte that ends it. *)

Control == {"esc", "cr", "lf", "bs", "iac", "will", "opt"}
IsPrintable(b) == b \notin Control

CodeOf == [left |-> <<"esc", "[", "D">>, right |-> <<"esc", "[", "C">>,
           up |-> <<"esc", "[", "A">>, down |-> <<"esc", "[", "B">>,
           home |-> <<"esc", "[", "H">>, alt |-> <<"esc", "z">>,
           back |-> <<"bs">>, enter |-> <<"cr">>, newline |-> <<"lf">>,
           option |-> <<"iac", "will", "opt">>]
Encoded(k) ==
  IF k = "crlf" THEN <<[byte |-> "cr", key |-> "enter"], [byte |-> "lf", key |-> "none"]>>
  ELSE LET c == IF k \in DOMAIN CodeOf THEN CodeOf[k] ELSE <<k>> IN
       [i \in 1..Len(c) |-> [byte |-> c[i], key |-> IF i = Len(c) THEN k ELSE "none"]]
Bytes(keys) == FlattenSeq([i \in 1..Len(keys) |-> Encoded(keys[i])])

-----------------------------------------------------------------------------
(* The line as it is meant: what is left and what is right of the cursor.    *)

Fresh == [left |-> <<>>, right |-> <<>>]
Typed(i, key, recalled) ==
  CASE key \in {"none", "option", "home", "alt"} -> i
    [] key = "left" -> IF i.left = <<>> THEN i
                       ELSE [left |-> Front(i.left), right |-> <<Last(i.left)>> \o i.right]
    [] key = "right" -> IF i.right = <<>> THEN i
                        ELSE [left |-> Append(i.left, Head(i.right)), right |-> Tail(i.right)]
    [] key = "back" -> IF i.left = <<>> THEN i ELSE [i EXCEPT !.left = Front(@)]
    [] key \in {"up", "down"} -> IF recalled = "no" THEN i ELSE [left |-> recalled, right |-> <<>>]
    [] key \in {"enter", "newline"} -> Fresh
    [] OTHER -> IF Len(i.left) + Len(i.right) < LineSize THEN [i EXCEPT !.left = Append(@, key)] ELSE i

-----------------------------------------------------------------------------
(* The history.                                                             *)

\* cli_history_add, cli_history_reset_nav.
Remember(line) ==
  /\ history' = LET h == Append(history, line) IN
                IF Len(h) > HistorySize THEN Tail(h) ELSE h
  /\ nav' = 0

\* cli_history_get_prev: from the newest line on, and no further than the oldest.
Previous == IF nav = 0 THEN Len(history) ELSE IF nav > 1 THEN nav - 1 ELSE 1

\* cli_history_get_next: after the newest there is an empty line.
Following == IF nav < Len(history) THEN nav + 1 ELSE 0

\* What Up or Down shows, "no" when it changes nothing.
Recalled(b) ==
  CASE b = "A" /\ history # <<>> -> history[Previous]
    [] b = "B" /\ history # <<>> /\ nav # 0 -> IF Following = 0 THEN <<>> ELSE history[Following]
    [] OTHER -> "no"
Looks(b) ==
  nav' = IF Recalled(b) = "no" THEN nav ELSE IF b = "A" THEN Previous ELSE Following

-----------------------------------------------------------------------------
(* The line editors.                                                        *)

Cleared(e) == [e EXCEPT !.text = <<>>, !.cursor = 0]

Insert(e, c) ==
  IF Len(e.text) < LineSize
  THEN [e EXCEPT !.text = InsertAt(@, e.cursor + 1, c), !.cursor = @ + 1] ELSE e
Erase(e) ==
  IF e.cursor > 0 THEN [e EXCEPT !.text = RemoveAt(@, e.cursor), !.cursor = @ - 1] ELSE e
Arrow(e, b) ==
  CASE b \in {"A", "B"} /\ Recalled(b) # "no" ->
         [e EXCEPT !.text = Recalled(b), !.cursor = Len(Recalled(b))]
    [] b = "C" /\ e.cursor < Len(e.text) -> [e EXCEPT !.cursor = @ + 1]
    [] b = "D" /\ e.cursor > 0 -> [e EXCEPT !.cursor = @ - 1]
    [] OTHER -> e

-----------------------------------------------------------------------------
(* The upload of a program.                                                 *)

\* cli_shell_start_st_upload, which wants memory when none is at hand; the
\* line on the serial console is cleared.
StartUpload(mine) ==
  \/ upload = Off /\ UNCHANGED upload /\ serial' = mine
  \/ upload' = 0 /\ serial' = Cleared(mine)
\* Who was typing there loses what has been typed.
Spoils == spoilt.serial \/ (serial'.text = <<>> /\ serial.text # <<>>)

\* A line of the program, its end, or one that no longer fits.
Feed(line) ==
  upload' = IF line # EndLine /\ upload + Len(line) + 1 < UploadSize
            THEN upload + Len(line) + 1 ELSE Off

-----------------------------------------------------------------------------
(* The connection (tcp_server.cpp).                                         *)

Closed == conn' = "none" /\ wire' = <<>>

\* tcp_server_loop: who is there afterwards.  A client can be turned away by
\* the access rules, be gone already, or have been silent for too long.
Present ==
  \/ conn = "none" /\ waiting /\ conn' = "up" /\ waiting' = FALSE /\ UNCHANGED wire
  \/ conn = "none" /\ Closed /\ waiting' \in {waiting, FALSE}
  \/ /\ conn # "none" /\ ~(conn = "gone" /\ wire = <<>>)
     /\ UNCHANGED <<conn, waiting, wire>>
  \/ conn # "none" /\ (conn = "gone" \/ wire = <<>>) /\ Closed /\ UNCHANGED waiting

NoLogin(l) == [l EXCEPT !.state = "waiting", !.user = None]

\* Mutant: a new client finds the login of the last one.
GreetedAsBefore(l) == l
\* A new client has to log in; failures and the lockout are not forgotten.
Greeted(l) == NoLogin(l)

\* telnet_server_loop: is the last client gone?
TelnetLooks ==
  /\ at = "idle" /\ serialWire = <<>>
  /\ at' = IF conn = "none" THEN "new" ELSE "same"
  /\ LET died == was /\ conn = "none" IN
     /\ login' = IF died THEN NoLogin(login) ELSE login
     /\ telnet' = IF died THEN [telnet EXCEPT !.text = <<>>, !.escape = 0, !.ready = FALSE]
                  ELSE telnet
  /\ UNCHANGED <<conn, waiting, wire, lastCr, was, budget, serial, serialWire, history, nav, upload,
                 web, calls, ghosts>>

\* And is there one now?  It is new to the loop when there was none before: a
\* client that takes the place of one that was cut off in between goes
\* unnoticed, and goes on with its line and its login.
TelnetAccepts ==
  /\ at \in {"new", "same"} /\ Present
  /\ LET other == conn = "none" /\ conn' = "up"
         greeted == other /\ at = "new"
     IN /\ login' = IF greeted THEN Greeted(login) ELSE login
        /\ telnet' = IF greeted THEN [Cleared(telnet) EXCEPT !.escape = 0] ELSE telnet
        /\ ideal' = IF other THEN [ideal EXCEPT !.telnet = Fresh] ELSE ideal
        /\ entered' = (entered /\ ~other)
        /\ spoilt' = IF other THEN [spoilt EXCEPT !.telnet = ~greeted \/ telnet.parse # "none",
                                                  !.login = ~greeted]
                     ELSE spoilt
  /\ was' = (conn' # "none") /\ at' = (IF conn' # "none" THEN "read" ELSE "idle")
  /\ UNCHANGED <<lastCr, serial, history, nav, upload, budget, serialWire, web, calls, meant>>

\* network_manager_disconnect_telnet_client: the access rules have changed, on
\* the HTTP task or by a command.
Cuts ==
  /\ conn # "none" /\ Closed
  /\ UNCHANGED <<waiting, editors, login, was, at, budget, serialWire, web, calls, ghosts>>

\* tcp_server_send or tcp_server_recv fails.
Breaks ==
  /\ at # "idle" /\ conn = "gone" /\ Closed
  /\ UNCHANGED <<waiting, editors, login, was, at, budget, serialWire, web, calls, ghosts>>

-----------------------------------------------------------------------------
(* The bytes of a Telnet client (telnet_process_input).                     *)

\* IAC, and the two bytes after it.
Negotiate(b) ==
  telnet' = CASE telnet.parse = "iac" /\ b = "will" -> [telnet EXCEPT !.parse = "command"]
              [] telnet.parse = "iac" /\ b = "iac" /\ Len(telnet.text) < LineSize ->
                   [telnet EXCEPT !.parse = "none", !.text = Append(@, b),
                                  !.cursor = Len(telnet.text) + 1]
              [] OTHER -> [telnet EXCEPT !.parse = "none"]

\* A line feed right after a carriage return ends nothing, and neither does
\* one that comes later: lastCr stays.
LineEnds(b) ==
  IF b = "lf" /\ lastCr THEN lastCr' = FALSE /\ UNCHANGED telnet
  ELSE lastCr' = (b = "cr") /\ telnet' = [telnet EXCEPT !.ready = TRUE, !.cursor = 0]

Plain(b) ==
  \/ b \in {"cr", "lf"} /\ LineEnds(b)
  \/ /\ b \notin {"cr", "lf"} /\ UNCHANGED lastCr
     /\ telnet' = CASE b = "esc" -> [telnet EXCEPT !.escape = 1]
                    [] b = "iac" -> [telnet EXCEPT !.parse = "iac"]
                    [] b = "bs" -> Erase(telnet)
                    [] IsPrintable(b) -> Insert(telnet, b)
                    [] OTHER -> telnet

\* Anything but an arrow ends the sequence and is dropped.
Escaped(b) ==
  /\ UNCHANGED lastCr
  /\ telnet' = IF telnet.escape = 1 THEN [telnet EXCEPT !.escape = IF b = "[" THEN 2 ELSE 0]
               ELSE [Arrow(telnet, b) EXCEPT !.escape = 0]

ArrowByte(e, b) == e.escape = 2 /\ b \in {"A", "B"}
\* The line feed was swallowed although other bytes came after the return.
Swallowed(b) == b = "lf" /\ lastCr /\ ideal.telnet # Fresh

TelnetByte ==
  /\ at = "read" /\ conn # "none" /\ ~telnet.ready /\ wire # <<>>
  /\ LET b == Head(wire).byte
         k == IF Head(wire).key = "newline" /\ lastCr /\ ideal.telnet = Fresh THEN "none"
              ELSE Head(wire).key
         plain == telnet.parse = "none" /\ telnet.escape = 0
         arrow == telnet.parse = "none" /\ ArrowByte(telnet, b)
     IN /\ \/ telnet.parse # "none" /\ Negotiate(b) /\ UNCHANGED lastCr
           \/ telnet.parse = "none" /\ telnet.escape # 0 /\ Escaped(b)
           \/ plain /\ Plain(b)
        /\ IF arrow THEN Looks(b) ELSE UNCHANGED nav
        /\ ideal' = [ideal EXCEPT !.telnet = Typed(@, k, IF arrow THEN Recalled(b) ELSE "no")]
        /\ meant' = IF k \in {"enter", "newline"} THEN ideal.telnet.left \o ideal.telnet.right
                    ELSE meant
        /\ spoilt' = [spoilt EXCEPT !.telnet = @ \/ (plain /\ Swallowed(b))]
  /\ wire' = Tail(wire)
  /\ UNCHANGED <<conn, waiting, login, was, at, budget, serial, serialWire, history, upload, web,
                 calls, entered>>

\* Nothing more to read, or nobody to read from.
TelnetEnds ==
  /\ at = "read" /\ ~telnet.ready /\ (conn = "none" \/ wire = <<>>) /\ at' = "idle"
  /\ IF conn = "gone" THEN Closed ELSE UNCHANGED <<conn, wire>>
  /\ UNCHANGED <<waiting, editors, login, was, budget, serialWire, web, calls, ghosts>>

-----------------------------------------------------------------------------
(* A line of a Telnet client: a login (telnet_handle_auth_input) or a        *)
(* command.                                                                  *)

Done == [Cleared(telnet) EXCEPT !.ready = FALSE]
Good(line) == <<login.user, line>> \in Accounts

Fails == IF login.attempts + 1 >= MaxAttempts
         THEN [login EXCEPT !.attempts = @ + 1, !.locked = "yes"]
         ELSE [NoLogin(login) EXCEPT !.attempts = @ + 1]

LoginLine ==
  /\ at = "read" /\ telnet.ready /\ login.state # "authenticated"
  /\ \/ login.locked = "yes" /\ UNCHANGED <<login, entered>>
     \/ /\ login.locked = "over" /\ login' = [login EXCEPT !.locked = "no", !.attempts = 0]
        /\ UNCHANGED entered
     \/ /\ login.locked = "no" /\ login.state = "waiting"
        /\ login' = [login EXCEPT !.state = "username", !.user = telnet.text] /\ UNCHANGED entered
     \/ /\ login.locked = "no" /\ login.state = "username" /\ Good(telnet.text)
        /\ login' = [login EXCEPT !.state = "authenticated", !.attempts = 0] /\ entered' = TRUE
     \/ /\ login.locked = "no" /\ login.state = "username" /\ ~Good(telnet.text)
        /\ login' = Fails /\ UNCHANGED entered
  /\ telnet' = Done /\ meant' = <<>> /\ at' = "idle" /\ spoilt' = [spoilt EXCEPT !.telnet = FALSE]
  /\ UNCHANGED <<conn, waiting, wire, lastCr, was, budget, serial, serialWire, history, nav,
                 upload, web, calls, ideal>>

\* A line of a program.
UploadsLine ==
  /\ upload # Off /\ Feed(telnet.text) /\ at' = "idle"
  /\ spoilt' = [spoilt EXCEPT !.telnet = FALSE]
  /\ UNCHANGED <<conn, wire, login, budget, serial, history, nav, entered>>

\* An empty line; one the user may not run; or another command is running.
IgnoresLine ==
  /\ upload = Off /\ at' = "idle" /\ spoilt' = [spoilt EXCEPT !.telnet = FALSE]
  /\ UNCHANGED <<conn, wire, login, budget, serial, history, nav, upload, entered>>

Exits ==
  /\ telnet.text = ExitLine /\ Remember(telnet.text) /\ Closed /\ at' = "idle"
  /\ login' = [NoLogin(login) EXCEPT !.attempts = 0, !.locked = "no"]
  /\ spoilt' = [spoilt EXCEPT !.telnet = FALSE]
  /\ UNCHANGED <<budget, serial, upload, entered>>

\* What has already arrived after the command that starts an upload is taken
\* for a text that is being pasted.
RunsLine ==
  /\ telnet.text \notin {<<>>, ExitLine} /\ Remember(telnet.text)
  /\ IF telnet.text = UploadLine THEN StartUpload(serial) ELSE UNCHANGED <<upload, serial>>
  /\ spoilt' = [spoilt EXCEPT !.telnet = FALSE, !.serial = Spoils]
  /\ at' = IF upload' # Off /\ conn # "none" /\ wire # <<>> THEN "paste" ELSE "idle"
  /\ budget' = IF at' = "paste" THEN PasteMax ELSE budget
  /\ UNCHANGED <<conn, wire, login, entered>>

CommandLine ==
  /\ at = "read" /\ telnet.ready /\ login.state = "authenticated"
  /\ \/ UploadsLine
     \/ IgnoresLine
     \/ upload = Off /\ web = None /\ (Exits \/ RunsLine)
  /\ telnet' = Done /\ meant' = <<>>
  /\ UNCHANGED <<waiting, lastCr, was, serialWire, web, calls, ideal>>

\* One byte of a pasted text: no key but Enter means anything here.
PasteByte ==
  /\ at = "paste" /\ budget > 0 /\ conn # "none" /\ wire # <<>> /\ wire' = Tail(wire)
  /\ LET b == Head(wire).byte
         ends == b \in {"cr", "lf"} /\ telnet.text # <<>>
     IN /\ IF ends THEN Feed(telnet.text) ELSE UNCHANGED upload
        /\ telnet' = CASE ends -> Done
                       [] IsPrintable(b) /\ Len(telnet.text) < LineSize ->
                            [telnet EXCEPT !.text = Append(@, b)]
                       [] OTHER -> telnet
        /\ at' = IF ends /\ upload' = Off THEN "idle" ELSE at
        /\ budget' = IF at' = "idle" THEN 0 ELSE IF ends THEN PasteMax ELSE budget - 1
  /\ UNCHANGED <<conn, waiting, lastCr, login, was, serial, serialWire, history, nav, web, calls,
                 ghosts>>

\* What there is of a line that has not come to its end is dropped.
PasteEnds ==
  /\ at = "paste" /\ (budget = 0 \/ conn = "none" \/ wire = <<>>)
  /\ at' = "idle" /\ budget' = 0
  /\ telnet' = Done /\ spoilt' = [spoilt EXCEPT !.telnet = @ \/ telnet.text # <<>>]
  /\ UNCHANGED <<conn, waiting, wire, lastCr, login, was, serial, serialWire, history, nav, upload,
                 web, calls, ideal, meant, entered>>

-----------------------------------------------------------------------------
(* The serial console (cli_shell_loop), and the web page.                   *)

SerialEnds ==
  \/ /\ upload # Off /\ serial' = Cleared(serial) /\ UNCHANGED <<history, nav>>
     /\ IF serial.text # <<>> THEN Feed(serial.text) ELSE UNCHANGED upload
  \/ /\ upload = Off
     /\ IF serial.text # <<>> THEN Remember(serial.text) ELSE UNCHANGED <<history, nav>>
     /\ IF serial.text = UploadLine THEN StartUpload(Cleared(serial))
        ELSE serial' = Cleared(serial) /\ UNCHANGED upload

SerialKey(e, b) ==
  CASE b = "esc" -> [e EXCEPT !.escape = 1]
    [] b = "bs" -> Erase(e)
    [] IsPrintable(b) -> Insert(e, b)
    [] OTHER -> e

\* cli_shell_loop reads what there is, before telnet_server_loop comes again.
\* A byte that belongs to no sequence is taken for itself.
SerialByte ==
  /\ at = "idle" /\ serialWire # <<>> /\ serialWire' = Tail(serialWire)
  /\ LET b == Head(serialWire).byte
         k == Head(serialWire).key
         arrow == ArrowByte(serial, b)
     IN /\ \/ /\ b \in {"cr", "lf"} /\ SerialEnds /\ spoilt' = [spoilt EXCEPT !.serial = FALSE]
           \/ /\ b \notin {"cr", "lf"} /\ UNCHANGED <<history, upload, spoilt>>
              /\ IF arrow THEN Looks(b) ELSE UNCHANGED nav
              /\ serial' = CASE serial.escape = 1 /\ b = "[" -> [serial EXCEPT !.escape = 2]
                             [] serial.escape = 2 /\ b \in {"A", "B", "C", "D"} ->
                                  [Arrow(serial, b) EXCEPT !.escape = 0]
                             [] OTHER -> SerialKey([serial EXCEPT !.escape = 0], b)
        /\ ideal' = [ideal EXCEPT !.serial = Typed(@, IF k = "alt" THEN b ELSE k,
                                                   IF arrow THEN Recalled(b) ELSE "no")]
  /\ UNCHANGED <<conn, waiting, wire, telnet, lastCr, login, was, at, budget, web, calls, meant,
                 entered>>

\* api_handler_cli_exec: a command at a time, and none beside one of Telnet.
WebBegins ==
  /\ web = None /\ calls < MaxCalls /\ calls' = calls + 1 /\ web' \in WebLines
  /\ UNCHANGED <<conn, waiting, wire, editors, login, was, at, budget, serialWire, ghosts>>
WebEnds ==
  /\ web # None /\ web' = None /\ Remember(web)
  /\ IF web = UploadLine THEN StartUpload(serial) ELSE UNCHANGED <<upload, serial>>
  /\ spoilt' = [spoilt EXCEPT !.serial = Spoils]
  /\ UNCHANGED <<conn, waiting, wire, telnet, lastCr, login, was, at, budget, serialWire, calls,
                 ideal, meant, entered>>

-----------------------------------------------------------------------------
(* Those who type, and the lockout, which ends.  More is sent when what was   *)
(* sent has been read: bound.                                               *)

Arrives ==
  /\ at = "idle" /\ ~waiting /\ calls < MaxCalls /\ calls' = calls + 1 /\ waiting' = TRUE
  /\ UNCHANGED <<conn, wire, editors, login, was, at, budget, serialWire, web, ghosts>>
SendsKeys ==
  /\ conn = "up" /\ wire = <<>> /\ calls < MaxCalls /\ calls' = calls + 1
  /\ \E keys \in Sends : wire' = Bytes(keys)
  /\ UNCHANGED <<conn, waiting, editors, login, was, at, budget, serialWire, web, ghosts>>
Leaves ==
  /\ conn = "up" /\ conn' = "gone"
  /\ UNCHANGED <<waiting, wire, editors, login, was, at, budget, serialWire, web, calls, ghosts>>
TypesKeys ==
  /\ serialWire = <<>> /\ calls < MaxCalls /\ calls' = calls + 1
  /\ \E keys \in Types : serialWire' = Bytes(keys)
  /\ UNCHANGED <<conn, waiting, wire, editors, login, was, at, budget, web, ghosts>>
Expires ==
  /\ login.locked = "yes" /\ login' = [login EXCEPT !.locked = "over"]
  /\ UNCHANGED <<conn, waiting, wire, editors, was, at, budget, serialWire, web, calls, ghosts>>

Editor == [text |-> <<>>, cursor |-> 0, escape |-> 0]

\* telnet_server_create, cli_shell_init.
Init ==
  /\ conn = "none" /\ waiting = FALSE /\ wire = <<>>
  /\ telnet = [text |-> <<>>, cursor |-> 0, escape |-> 0, parse |-> "none", ready |-> FALSE]
  /\ lastCr = FALSE /\ was = FALSE /\ at = "idle" /\ budget = 0
  /\ login = [state |-> "waiting", user |-> None, attempts |-> 0, locked |-> "no"]
  /\ serial = Editor /\ serialWire = <<>> /\ history = <<>> /\ nav = 0 /\ upload = Off
  /\ web = None /\ calls = 0
  /\ ideal = [telnet |-> Fresh, serial |-> Fresh] /\ meant = <<>> /\ entered = FALSE
  /\ spoilt = [telnet |-> FALSE, serial |-> FALSE, login |-> FALSE]

Next == \/ TelnetLooks \/ TelnetAccepts \/ Cuts \/ Breaks \/ TelnetByte \/ TelnetEnds \/ LoginLine \/ CommandLine
        \/ PasteByte \/ PasteEnds \/ SerialByte \/ WebBegins \/ WebEnds
        \/ Arrives \/ SendsKeys \/ Leaves \/ TypesKeys \/ Expires

Spec == Init /\ [][Next]_vars

-----------------------------------------------------------------------------
TypeOK ==
  /\ conn \in {"none", "up", "gone"} /\ at \in {"idle", "new", "same", "read", "paste"}
  /\ conn # "none" => telnet.cursor \in 0..Len(telnet.text)
  /\ serial.cursor \in 0..Len(serial.text)
  /\ Len(telnet.text) <= LineSize /\ Len(serial.text) <= LineSize
  /\ Len(history) <= HistorySize /\ nav \in 0..Len(history)
  /\ upload \in {Off} \cup 0..UploadSize /\ budget \in 0..PasteMax

Shows(e, i) == e.text = i.left \o i.right /\ e.cursor = Len(i.left)

\* Each terminal has the line that was typed on it, with the cursor where it
\* was moved to, whatever the other terminals and the clients before it did.
\* Spoilt are the line on the serial console when somebody else starts an
\* upload, a line whose line feed is swallowed long after a return, a pasted
\* line that has not arrived in full, the first line after a client that left
\* amid a Telnet command, and the first line of a client that took the place
\* of another unnoticed.
LinesAreTyped ==
  /\ conn # "none" /\ at # "paste" /\ ~spoilt.telnet =>
       IF telnet.ready THEN telnet.text = meant ELSE Shows(telnet, ideal.telnet)
  /\ ~spoilt.serial => Shows(serial, ideal.serial)

\* A Telnet client runs commands and uploads lines only after it has itself
\* given a name and a password ("so next connection requires authentication",
\* telnet_server.cpp:876-878).  A client that is accepted while the loop still
\* believes in the one that was cut off does not have to.
LoginFirst == telnet.ready /\ login.state = "authenticated" => entered

\* A client that telnet_server_loop has seen coming does have to, whenever the
\* clients before it left or were cut off and however far they had come.
NoticedLogin == ~spoilt.login => LoginFirst

LinesAreTheirs == LinesAreTyped /\ NoticedLogin
=============================================================================
