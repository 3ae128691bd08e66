------------------------------ MODULE NtpQuery ------------------------------
(***************************************************************************)
(* The NTP client as a conversation (ntp_sync, ntp_query_server and         *)
(* ntp_udp_recv of src/network.c): which servers are asked, what happens to *)
(* the UDP control block and the packet buffer on every path, and how a     *)
(* datagram that may come at any moment is turned into a sample.            *)
(*                                                                          *)
(* lwIP runs as an interrupt of the same core.  ntp_udp_recv writes into    *)
(* receive_state, a local variable of ntp_query_server.  The numbers in a   *)
(* sample are the subject of NtpTime.                                       *)
(***************************************************************************)
EXTENDS Integers, Sequences

CONSTANTS
  Lists,       \* values of the ntp_server setting, as lists of tokens
  MaxServers,  \* NTP_MAX_SERVERS
  Polls        \* NTP_TIMEOUT_MS in polls of 10 ms

(* A token between commas: an address of either family, something that      *)
(* ipaddr_aton does not take for an address (a name), or nothing but blanks.*)
Tokens == {"v6", "v4", "name", "blank"}

ASSUME NtpAssumption ==
  /\ Lists \subseteq Seq(Tokens)
  /\ MaxServers \in Nat \ {0, 1}
  /\ Polls \in Nat

(* The datagrams a server may send: too short, a kiss-o'-death, not a       *)
(* server's answer, an answer to something else, and a good one.            *)
Datagrams == {"short", "kiss", "invalid", "mismatch", "good"}

VARIABLES
  pc,          \* the caller's position
  setting,     \* config->ntp_server, as its tokens; << >> if not set
  index,       \* the server being asked
  pcb,         \* lwIP: "none", "new", or "bound" once udp_recv is called
  pbuf,        \* whether the caller holds a packet buffer
  sent,        \* whether the server has been sent a request
  waited,      \* polls so far
  receive,     \* receive_state
  found,       \* found_sample, and the datagram it was made from
  result,      \* of the last ntp_sync
  answered     \* history: servers whose last datagram was good

vars == <<pc, setting, index, pcb, pbuf, sent, waited, receive, found, result,
          answered>>

(***************************************************************************)
(* collect_server_names: a loop over the tokens of the setting, which takes *)
(* those that are not blank while there is room for them.                   *)
(***************************************************************************)
(* Variant: without the test that there is room. *)
Collect_Unlimited(taken, token) ==
  IF token = "blank" THEN taken ELSE Append(taken, token)

(* One turn of the loop. *)
Collect(taken, token) ==
  IF Len(taken) = MaxServers \/ token = "blank" THEN taken
  ELSE Append(taken, token)

(* What has been taken after each turn. *)
Taken(source) ==
  LET taken[n \in 0 .. Len(source)] ==
        IF n = 0 THEN << >> ELSE Collect(taken[n - 1], source[n])
  IN taken

Servers(list) ==
  LET source == IF list = << >> THEN <<"v6">> ELSE list
      taken  == Taken(source)[Len(source)]
  IN IF taken = << >> THEN <<"v6", "v4">> ELSE taken

InQuery == {"connect", "bind", "alloc", "take", "send", "wait", "remove",
            "check", "accept"}

TypeOK ==
  /\ pc \in InQuery \union {"idle", "resolve", "new", "next"}
  /\ setting \in Lists \union {<< >>}
  /\ index \in 1 .. MaxServers        \* the array `servers' of ntp_sync
  /\ pcb \in {"none", "new", "bound"} /\ pbuf \in BOOLEAN /\ sent \in BOOLEAN
  /\ waited \in 0 .. Polls
  /\ receive \in [received : BOOLEAN, payload : Datagrams]
  /\ found \in Datagrams \union {"nothing"}
  /\ result \in BOOLEAN
  /\ answered \subseteq 1 .. MaxServers

NothingReceived == [received |-> FALSE, payload |-> "short"]

Init ==
  /\ pc = "idle" /\ setting \in Lists \union {<< >>} /\ index = 1
  /\ pcb = "none" /\ pbuf = FALSE /\ sent = FALSE /\ waited = 0
  /\ receive = NothingReceived /\ found = "nothing" /\ result = FALSE
  /\ answered = {}
-----------------------------------------------------------------------------
(* ntp_sync is called; the setting may differ from the last call's. *)
Begin ==
  /\ pc = "idle" /\ pc' = "resolve"
  /\ setting' \in Lists \union {<< >>}
  /\ index' = 1 /\ found' = "nothing" /\ answered' = {}
  /\ UNCHANGED <<pcb, pbuf, sent, waited, receive, result>>

(* ntp_query_server returns; its variables cease to exist. *)
Return ==
  /\ pc' = "next"
  /\ waited' = 0 /\ sent' = FALSE /\ receive' = NothingReceived
  /\ UNCHANGED <<setting, index, result>>

(* udp_remove, and pbuf_free where a buffer is held. *)
Release == pcb' = "none" /\ pbuf' = FALSE

Step(from, to) ==
  /\ pc = from /\ pc' = to
  /\ UNCHANGED <<setting, index, found, result, answered>>

Resolve ==
  \/ /\ Servers(setting)[index] # "name"
     /\ Step("resolve", "new")
     /\ UNCHANGED <<pcb, pbuf, sent, waited, receive>>
  \/ /\ pc = "resolve" /\ Servers(setting)[index] = "name"
     /\ Return /\ UNCHANGED <<pcb, pbuf, found, answered>>

New ==
  \/ /\ Step("new", "connect")
     /\ pcb' = "new" /\ UNCHANGED <<pbuf, sent, waited, receive>>
  \/ /\ pc = "new"
     /\ Return /\ UNCHANGED <<pcb, pbuf, found, answered>>

(* Every path that gives up once there is a control block. *)
Abandon ==
  /\ Return /\ Release
  /\ UNCHANGED <<found, answered>>

Connect ==
  \/ Step("connect", "bind") /\ UNCHANGED <<pcb, pbuf, sent, waited, receive>>
  \/ pc = "connect" /\ Abandon

Bind ==
  /\ Step("bind", "alloc")
  /\ pcb' = "bound" /\ UNCHANGED <<pbuf, sent, waited, receive>>

(* Variant: the control block is forgotten when there is no buffer. *)
Alloc_KeepsBlock ==
  \/ Step("alloc", "take") /\ pbuf' = TRUE
     /\ UNCHANGED <<pcb, sent, waited, receive>>
  \/ pc = "alloc" /\ Return /\ UNCHANGED <<pcb, pbuf, found, answered>>

Alloc ==
  \/ Step("alloc", "take") /\ pbuf' = TRUE
     /\ UNCHANGED <<pcb, sent, waited, receive>>
  \/ pc = "alloc" /\ Abandon

Take ==
  \/ Step("take", "send") /\ UNCHANGED <<pcb, pbuf, sent, waited, receive>>
  \/ pc = "take" /\ Abandon

Send ==
  \/ /\ Step("send", "wait")
     /\ sent' = TRUE /\ pbuf' = FALSE /\ UNCHANGED <<pcb, waited, receive>>
  \/ pc = "send" /\ Abandon

Wait ==
  /\ Step("wait", "wait")
  /\ ~receive.received /\ waited < Polls
  /\ waited' = waited + 1 /\ UNCHANGED <<pcb, pbuf, sent, receive>>

(* Variant: only an answer ends the wait. *)
StopWaiting_Never ==
  /\ Step("wait", "remove")
  /\ receive.received
  /\ UNCHANGED <<pcb, pbuf, sent, waited, receive>>

StopWaiting ==
  /\ Step("wait", "remove")
  /\ receive.received \/ waited = Polls
  /\ UNCHANGED <<pcb, pbuf, sent, waited, receive>>

(* Variant: the datagram is read before the control block is removed. *)
Remove_Late ==
  /\ pc = "remove" /\ pc' = "check"
  /\ answered' = IF receive = [received |-> TRUE, payload |-> "good"]
                 THEN answered \union {index} ELSE answered
  /\ UNCHANGED <<setting, index, found, result, pcb, pbuf, sent, waited, receive>>

Remove ==
  /\ pc = "remove" /\ pc' = "check"
  /\ pcb' = "none"
  /\ answered' = IF receive = [received |-> TRUE, payload |-> "good"]
                 THEN answered \union {index} ELSE answered
  /\ UNCHANGED <<setting, index, found, result, pbuf, sent, waited, receive>>

(* The tests on what was received, in front of its use. *)
Check ==
  \/ /\ Step("check", "accept")
     /\ receive.received /\ receive.payload = "good"
     /\ UNCHANGED <<pcb, pbuf, sent, waited, receive>>
  \/ /\ pc = "check" /\ ~(receive.received /\ receive.payload = "good")
     /\ Return /\ UNCHANGED <<pcb, pbuf, found, answered>>

(* The sample is made, and ntp_sync keeps it or the one it has. *)
Accept ==
  /\ pc = "accept"
  /\ \/ found' = receive.payload
     \/ found # "nothing" /\ UNCHANGED found
  /\ Return /\ UNCHANGED <<pcb, pbuf, answered>>

(* Variant: a server that does not answer ends the synchronisation. *)
NextServer_GivesUp ==
  /\ pc = "next"
  /\ IF index < Len(Servers(setting)) /\ found # "nothing"
     THEN pc' = "resolve" /\ index' = index + 1 /\ UNCHANGED result
     ELSE pc' = "idle" /\ result' = (found # "nothing") /\ UNCHANGED index
  /\ UNCHANGED <<setting, pcb, pbuf, sent, waited, receive, found, answered>>

NextServer ==
  /\ pc = "next"
  /\ IF index < Len(Servers(setting))
     THEN pc' = "resolve" /\ index' = index + 1 /\ UNCHANGED result
     ELSE pc' = "idle" /\ result' = (found # "nothing") /\ UNCHANGED index
  /\ UNCHANGED <<setting, pcb, pbuf, sent, waited, receive, found, answered>>

(* ntp_udp_recv: a datagram of the server, one of several perhaps.  An      *)
(* earlier server's comes to a port that is no longer open.                 *)
Receive ==
  /\ pcb = "bound" /\ sent
  /\ \E datagram \in Datagrams :
       receive' = [received |-> TRUE, payload |-> datagram]
  /\ UNCHANGED <<pc, setting, index, pcb, pbuf, sent, waited, found, result,
                 answered>>

Sync ==
  \/ Resolve \/ New \/ Connect \/ Bind \/ Alloc \/ Take \/ Send \/ Wait
  \/ StopWaiting \/ Remove \/ Check \/ Accept \/ NextServer

Next == Begin \/ Sync \/ Receive

Spec == Init /\ [][Next]_vars

(* The caller goes on; no server need ever answer. *)
FairSpec == Spec /\ WF_vars(Sync)
-----------------------------------------------------------------------------
(* ntp_query_server leaves nothing behind on any of its paths: no control   *)
(* block, so no call-back into its variables, and no packet buffer.         *)
NothingLeftBehind == pc \notin InQuery => pcb = "none" /\ ~pbuf

(* A datagram is used as it was checked, though others may follow it: what  *)
(* ntp_sync takes the time from is a good answer.                           *)
SampleChecked == found \in {"nothing", "good"}

(* ntp_sync succeeds exactly if one of the servers had answered when its    *)
(* control block was removed, whatever became of the others, and it fails   *)
(* only when it has tried all of them.                                      *)
AnswerUsed ==
  [][pc # "idle" /\ pc' = "idle"
       => /\ result' <=> answered # {}
          /\ result' \/ index = Len(Servers(setting))]_vars

(* ntp_sync returns though no server answers. *)
SyncReturns == pc = "resolve" ~> pc = "idle"

(* Without a setting the IPv4 server is asked if the IPv6 one does not      *)
(* answer: "IPv6-first NTP resolution with IPv4 fallback" (docs/index.md),  *)
(* "(IPv6 then IPv4 by default)" (README.md).                               *)
FallsBackToIPv4 ==
  [][pc # "idle" /\ pc' = "idle" /\ setting = << >> /\ ~result'
       => \E i \in 1 .. index : Servers(setting)[i] = "v4"]_vars
=============================================================================
