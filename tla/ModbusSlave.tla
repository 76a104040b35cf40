---------------------------- MODULE ModbusSlave ----------------------------
(***************************************************************************)
(* The device as a slave on the RS-485 bus: modbus_server_loop runs once   *)
(* in each round of the main loop and takes one step, from waiting over    *)
(* receiving and processing to transmitting.  A frame has no length of its *)
(* own: it ends when the line has been silent for MODBUS_TIMEOUT_MS.       *)
(*                                                                         *)
(* A frame comes in two pieces, so that it can be cut, spoiled or run into *)
(* the next one; a buffer is a good frame when it is exactly the two       *)
(* pieces of one, which is what the checksum finds out.  Time passes in    *)
(* ticks of which Silence make the time-out; a round of the main loop is   *)
(* much shorter.  The master at the other end is external; it waits for an *)
(* answer as long as it likes.                                             *)
(***************************************************************************)
EXTENDS Integers, SequencesExt

CONSTANTS
  Requests,   \* what the master asks
  Top,        \* the last address of each table
  MaxQuantity,\* what one request may ask for
  Silence,    \* MODBUS_TIMEOUT_MS, in ticks
  BufferMax,  \* MODBUS_FRAME_MAX, in pieces
  MaxSent,    \* bound: frames the master sends
  MaxNoise    \* bound: pieces that are noise

SlaveAssumption ==
  /\ {Silence, Top, MaxQuantity, BufferMax} \subseteq Nat \ {0} /\ {MaxSent, MaxNoise} \subseteq Nat

VARIABLES
  line,      \* pieces the UART has received and nobody has read
  state,     \* server_state
  buffer,    \* rx_buffer; its receiver is idle while it is empty
  quiet,     \* ticks since last_rx_time
  request, response,
  table,     \* coils, inputs and registers
  asked,     \* the frame whose answer the master awaits
  rest,      \* the piece it has still to send
  held,      \* a tick has passed inside a frame
  sent, noise,
  \* For the property only: ticks since the last piece on the bus; the values
  \* a register may have after the requests and the answers so far; the last
  \* frame answered; and one whose answer is still to come, or 0
  calm, may, done, open

serverVars == <<state, buffer, quiet, request, response, table>>
masterVars == <<asked, rest, held, sent>>
ghosts == <<calm, may, done, open>>
vars == <<line, serverVars, masterVars, noise, ghosts>>

None == <<>>
Tables == {"coils", "inputs", "regs", "inputRegs"}
Addresses == 1..Top

\* Ends what has been received, and what a full buffer left in the line.
Calm == 2 * Silence + 1

Least(a, b) == IF a < b THEN a ELSE b

-----------------------------------------------------------------------------
\* What each function code reads or writes.
Reads == [FC01 |-> "coils", FC02 |-> "inputs", FC03 |-> "regs", FC04 |-> "inputRegs"]
Writes == [FC05 |-> "coils", FC06 |-> "regs", FC0F |-> "coils", FC10 |-> "regs"]
Single == {"FC05", "FC06"}
Bit == 0..1

\* A frame is [no, to, req], its request [fc, addr, n, vals]: n places from
\* addr on, and the values to be written.
Piece(f, part) == [frame |-> f, part |-> part]
Noise == Piece(None, 0)

\* modbus_frame_is_valid, and the shortest length.
IsValid(b) == Len(b) = 2 /\ b[1] # Noise /\ b[2] = Piece(b[1].frame, 2) /\ b[1].part = 1

\* Mutant: a frame for any slave will do.
IsForAnyone(f) == TRUE
IsForUs(f) == f.to \in {"us", "all"}

IsReadParsed(r) == r.n \in 1..MaxQuantity /\ r.vals = <<>>

\* A coil is switched on or off and nothing else.
IsSingleParsed(r) ==
  /\ r.n = 1 /\ Len(r.vals) = 1
  /\ r.fc = "FC05" => r.vals[1] \in Bit

IsMultipleParsed(r) == r.n \in 1..MaxQuantity /\ Len(r.vals) = r.n

IsParsed(r) ==
  CASE r.fc \in DOMAIN Reads -> IsReadParsed(r)
    [] r.fc \in Single -> IsSingleParsed(r)
    [] OTHER -> IsMultipleParsed(r)

IsInRange(r) == r.addr + r.n - 1 <= Top

Exception(code) == [kind |-> "exception", code |-> code]
ReadValues(r) ==
  [kind |-> "values", vals |-> [i \in 1..r.n |-> table[Reads[r.fc]][r.addr + i - 1]]]
Echo == [kind |-> "written"]

\* modbus_dispatch_function_code and the function it calls.
Answer(r) ==
  IF r.fc \notin DOMAIN Reads \union DOMAIN Writes THEN Exception("function")
  ELSE IF ~IsParsed(r) THEN Exception("value")
  ELSE IF ~IsInRange(r) THEN Exception("address")
  ELSE IF r.fc \in DOMAIN Reads THEN ReadValues(r) ELSE Echo

Places(r) == r.addr .. (r.addr + r.n - 1)
Value(r, a) == r.vals[a - r.addr + 1]

Stored(r) ==
  [table EXCEPT ![Writes[r.fc]] = [a \in Addresses |-> IF a \in Places(r) THEN Value(r, a) ELSE @[a]]]

-----------------------------------------------------------------------------
Init ==
  /\ line = <<>> /\ state = "idle" /\ buffer = <<>> /\ quiet = 0
  /\ request = None /\ response = None
  /\ table = [k \in Tables |-> [a \in Addresses |-> 0]]
  /\ asked = None /\ rest = None /\ held = FALSE
  /\ sent = 0 /\ noise = 0
  /\ calm = Calm /\ may = [k \in Tables |-> [a \in Addresses |-> {0}]]
  /\ done = 0 /\ open = 0

\* Mutant: what was received stays.
IdleKeeps ==
  /\ state = "idle" /\ state' = "rx"
  /\ UNCHANGED <<line, buffer, quiet, request, response, table, masterVars, noise, ghosts>>
Idle ==
  /\ state = "idle" /\ state' = "rx"
  /\ buffer' = <<>> /\ quiet' = 0
  /\ UNCHANGED <<line, request, response, table, masterVars, noise, ghosts>>

\* The idle receiver reads one byte, the receiving one all there are.
Receive ==
  /\ state = "rx" /\ line # <<>> /\ Len(buffer) < BufferMax
  /\ LET n == IF buffer = <<>> THEN 1 ELSE Least(Len(line), BufferMax - Len(buffer))
     IN  /\ buffer' = buffer \o SubSeq(line, 1, n)
         /\ line' = SubSeq(line, n + 1, Len(line))
  /\ quiet' = 0
  /\ UNCHANGED <<state, request, response, table, masterVars, noise, ghosts>>

\* The silence ends a frame; a full buffer waits for it too.
FrameEnds ==
  /\ state = "rx" /\ buffer # <<>> /\ (line = <<>> \/ Len(buffer) = BufferMax)
  /\ quiet >= Silence
  /\ IF IsValid(buffer) /\ IsForUs(buffer[1].frame)
     THEN request' = buffer[1].frame /\ state' = "process"
     ELSE UNCHANGED request /\ state' = "idle"
  /\ UNCHANGED <<line, buffer, quiet, response, table, masterVars, noise, ghosts>>

\* The request is obeyed, and answered unless it was for all.  What then
\* remains of the two frames is not read again.
Process ==
  /\ state = "process"
  /\ table' = IF Answer(request.req) = Echo THEN Stored(request.req) ELSE table
  /\ IF request.to = "all" THEN state' = "idle" /\ request' = None /\ UNCHANGED response
     ELSE state' = "tx" /\ response' = [no |-> request.no] @@ Answer(request.req) /\ UNCHANGED request
  /\ UNCHANGED <<line, buffer, quiet, masterVars, noise, ghosts>>

\* What the table holds once r is the last request obeyed, or may be.
Known(r) ==
  [may EXCEPT ![Writes[r.fc]] = [a \in Addresses |-> IF a \in Places(r) THEN {Value(r, a)} ELSE @[a]]]
Possible(r) ==
  IF r.fc \in DOMAIN Writes /\ IsParsed(r) /\ IsInRange(r)
  THEN [k \in Tables |-> [a \in Addresses |-> may[k][a] \union Known(r)[k][a]]]
  ELSE may

\* modbus_tx_send_frame.  A master that waits takes it for its answer.
Transmit ==
  /\ state = "tx" /\ state' = "idle"
  /\ request' = None /\ response' = None
  /\ asked' = None
  /\ may' = IF response.kind = "written" /\ response.no = sent THEN Known(request.req) ELSE may
  /\ done' = response.no /\ open' = (IF open = response.no THEN 0 ELSE open)
  /\ calm' = 0
  /\ UNCHANGED <<line, buffer, quiet, table, rest, held, sent, noise>>

Pass == Idle \/ Receive \/ FrameEnds \/ Process \/ Transmit

-----------------------------------------------------------------------------
OnLine(pieces) == line' = line \o pieces /\ calm' = 0 /\ UNCHANGED done

\* The master begins a frame, for this slave, another one or all, on a line
\* that has been silent for long or only for the pause between two frames.
\* It has not given up in the moment in which its last request is answered
\* when it is `fresh'.
Ask(r, to) ==
  /\ asked = None /\ rest = None /\ sent < MaxSent
  /\ asked' = [no |-> sent + 1, to |-> to, req |-> r, clean |-> calm = Calm,
              fresh |-> state \notin {"process", "tx"}]
  /\ LET f == [no |-> sent + 1, to |-> to, req |-> r]
     IN  OnLine(<<Piece(f, 1)>>) /\ rest' = Piece(f, 2)
  /\ sent' = sent + 1 /\ held' = FALSE /\ open' = 0
  /\ may' = IF to = "other" THEN may ELSE Possible(r)
  /\ UNCHANGED <<serverVars, noise>>

\* What another slave is asked makes no difference to this one.
AnyRequest == CHOOSE r \in Requests : TRUE

AskRest ==
  /\ rest # None /\ rest' = None
  /\ OnLine(<<rest>>)
  /\ open' = IF asked # None /\ asked.to = "us" /\ asked.clean THEN asked.no ELSE 0
  /\ UNCHANGED <<serverVars, asked, held, sent, noise, may>>

Disturb ==
  /\ noise < MaxNoise /\ noise' = noise + 1
  /\ OnLine(<<Noise>>)
  /\ asked' = IF asked = None THEN None ELSE [asked EXCEPT !.clean = FALSE]
  /\ open' = 0
  /\ UNCHANGED <<serverVars, rest, held, sent, may>>

\* Another slave answers, and this one hears it.
OtherAnswers ==
  /\ asked # None /\ asked.to = "other" /\ rest = None
  /\ LET f == [no |-> asked.no, to |-> "master", req |-> asked.req]
     IN  OnLine(<<Piece(f, 1), Piece(f, 2)>>)
  /\ asked' = None /\ open' = 0
  /\ UNCHANGED <<serverVars, rest, held, sent, noise, may>>

GiveUp ==
  /\ asked # None /\ rest = None
  /\ asked' = None
  /\ UNCHANGED <<line, serverVars, rest, held, sent, noise, ghosts>>

\* The main loop has done what it can before a tick has passed, and a master
\* lets no more than one pass inside a frame.
Tick ==
  /\ state = "rx" /\ (line = <<>> \/ Len(buffer) = BufferMax)
  /\ buffer = <<>> \/ quiet < Silence
  /\ ~held \/ rest = None
  /\ quiet' = Least(quiet + 1, Silence)
  /\ held' = (rest # None)
  /\ calm' = Least(calm + 1, Calm)
  /\ UNCHANGED <<line, state, buffer, request, response, table, asked, rest, sent, noise, may, done, open>>

Next ==
  \/ Pass
  \/ \E r \in Requests, to \in {"us", "all"} : Ask(r, to)
  \/ Ask(AnyRequest, "other")
  \/ AskRest \/ Disturb \/ OtherAnswers \/ GiveUp
  \/ Tick

Spec == Init /\ [][Next]_vars

-----------------------------------------------------------------------------
\* The tick after the n-th of silence finds a clean request answered.
AnsweredWithin(n) == Tick => open = 0 \/ calm < n

\* Whatever was lost, spoiled, meant for others or given up before, and however
\* long the master waits (modbus_server_loop): each answer is to a request to
\* this slave that was not answered, in the order of the requests; it shows
\* registers as the requests left them; a master that waits, and has not asked
\* again in the moment of the answer, gets the one to its request; and a
\* request that came whole after a long silence, with nothing after it, is
\* answered when the time-out of the receiver has passed.
QuestionsAreAnswered ==
  [][/\ Transmit =>
          /\ request.to = "us" /\ response.no = request.no /\ done < response.no
          /\ response.kind = "values" =>
               \A i \in DOMAIN response.vals :
                 response.vals[i] \in may[Reads[request.req.fc]][request.req.addr + i - 1]
          /\ asked # None /\ asked.fresh => response.no = asked.no
     /\ AnsweredWithin(Silence)]_vars
=============================================================================
