---------------------------- MODULE MCLiveParts ----------------------------
(***************************************************************************)
(* Parts of the device that share nothing, each with something that must   *)
(* come about in the end: the pool of source texts, access control, the    *)
(* update, the event stream and the links to the network.  TLC explores    *)
(* one after the other: `part' says which, and the others stay as they     *)
(* start.                                                                  *)
(*                                                                         *)
(* The pool: three programs and texts of one, two and three bytes, in a    *)
(* pool too small for all of them.  The event stream: one client at a time *)
(* that watches a register and an entry of a cache.                        *)
(***************************************************************************)
EXTENDS StSourcePool, SequencesExt

CONSTANTS ta, tb, tc, Tasks, Addresses, Rules, Backups, MaxRules, AclCalls, Timeout,
          ClockMod, Delay, MaxUploads,
          MaxClients, Limits, Counters, Timers, Registers, First, Statistics, External,
          Queries, Values, NoEntry, NoItem,
          Setups, Servers, Interval, MaxInterval, DhcpTimeout, JoinTimeout, MaxEvents

MCSizeOf == (ta :> 1) @@ (tb :> 2) @@ (tc :> 3)

VARIABLES part,
  confirmed, staged, pending, left, draft, todo, flash, calls,
  content, running, boot, state, inProgress, rebootAt, now, uploads,
  count, slots, workers, waiting, worker, prev, acceptor, stored, asking, cell, told, highest,
  links, wifi, eth, call, served, radio, client, lease, cable, port, air, queue

poolVars == <<cells, off, len, job>>
aclVars == <<confirmed, staged, pending, left, draft, todo, flash, calls>>
otaVars == <<content, running, boot, state, inProgress, rebootAt, now, uploads>>
sseVars == <<count, slots, workers, waiting, worker, prev, acceptor, stored, asking, cell, told, highest>>
netVars == <<links, wifi, eth, call, served, radio, client, lease, cable, port, air, queue>>
liveVars == <<part, poolVars, aclVars, otaVars, sseVars, netVars>>

-----------------------------------------------------------------------------
MCAddresses == {"a", "b"}
AllowA == [net |-> {"a"}, service |-> "http", allow |-> TRUE, on |-> TRUE]
DenyAll == [net |-> {"a", "b"}, service |-> "all", allow |-> FALSE, on |-> TRUE]
DenySse == [net |-> {"a", "b"}, service |-> "sse", allow |-> FALSE, on |-> TRUE]
MCRules == {[r EXCEPT !.on = on] : r \in {AllowA, DenyAll, DenySse}, on \in BOOLEAN}
NoList == [on |-> FALSE, rules |-> <<>>]
MCBackups == {NoList, [on |-> TRUE, rules |-> <<AllowA, DenyAll>>],
              [on |-> FALSE, rules |-> <<DenySse, DenyAll>>]}
MCQueries == {[subscribe |-> {}, listed |-> {}], [subscribe |-> {"registers"}, listed |-> {}]}

Acl == INSTANCE IpAcl WITH MaxCalls <- AclCalls
Ota == INSTANCE OtaUpdate WITH calls <- uploads
Stream == INSTANCE SseServer WITH None <- NoItem, queue <- waiting
Net == INSTANCE NetLinks

ASSUME LiveAssumption ==
  /\ Acl!AclAssumption /\ Ota!OtaAssumption
  /\ Stream!SseAssumption /\ Net!NetAssumption

LiveInit ==
  /\ part \in {"pool", "acl", "ota", "stream", "net"}
  /\ Init /\ Acl!Init /\ Ota!Init /\ Stream!Init /\ Net!Init
  /\ part # "acl" => flash = NoList
  /\ part # "ota" => now = 0 /\ content = [p \in 0..1 |-> 0]
  /\ part # "stream" => workers = {} /\ cell = [i \in Stream!Items |-> NoEntry]
  /\ part # "net" => air.ap /\ air.dhcp /\ links = CHOOSE l \in Setups : TRUE

InPool == part = "pool" /\ UNCHANGED <<part, aclVars, otaVars, sseVars, netVars>>
InAcl == part = "acl" /\ UNCHANGED <<part, poolVars, otaVars, sseVars, netVars>>
InOta == part = "ota" /\ UNCHANGED <<part, poolVars, aclVars, sseVars, netVars>>
InStream == part = "stream" /\ UNCHANGED <<part, poolVars, aclVars, otaVars, netVars>>
InNet == part = "net" /\ UNCHANGED <<part, poolVars, aclVars, otaVars, sseVars>>

LiveNext == \/ InPool /\ Next
            \/ InAcl /\ Acl!Next
            \/ InOta /\ Ota!Next
            \/ InStream /\ Stream!Next
            \/ InNet /\ Net!Next

\* The fairness of each part's own specification.  A behaviour stays in one
\* part, so that actions of different parts can share a condition.
LiveSpec ==
  /\ LiveInit /\ [][LiveNext]_liveVars
  /\ WF_liveVars(\/ InPool /\ Step
                 \/ InAcl /\ Acl!TimePasses
                 \/ InOta /\ Ota!Clock
                 \/ InStream /\ Stream!Work(0)
                 \/ InNet /\ Net!Handle)
  /\ WF_liveVars(\/ InAcl /\ Acl!Tick
                 \/ InNet /\ Net!Loop)
  /\ WF_liveVars(InNet /\ Net!Tick)
  /\ WF_liveVars(InNet /\ Net!GoesOn)
  /\ WF_liveVars(InNet /\ Net!EthLease)
  /\ SF_liveVars(\/ InOta /\ Ota!RebootPoll
                 \/ InNet /\ Net!Radio /\ Net!Joins)
  /\ SF_liveVars(InNet /\ Net!Radio /\ Net!GetsLease)

-----------------------------------------------------------------------------
\* The properties of the parts: see their modules.

\* Access control: HTTP and Telnet are not closed without a trial.
MgmtNeverCloses == Acl!MgmtNeverCloses

\* Access control: what a trial has closed is open again in time.
LockOutEnds == Acl!LockOutEnds

\* Update: a firmware that was accepted is started.
DoneMeansStarted == Ota!DoneMeansStarted

\* Event stream: a change that stays is sent to those who watch.
ChangesArrive == Stream!ChangesArrive

\* Network: a link that was lost comes back.
LinksComeBack == Net!LinksComeBack
=============================================================================
