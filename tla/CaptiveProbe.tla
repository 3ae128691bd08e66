---------------------------- MODULE CaptiveProbe ----------------------------
(***************************************************************************)
(* The captive portal probe: captive_portal_check (src/network.c), cpr_get  *)
(* and its call-backs (src/cpr_compat.c).                                   *)
(*                                                                          *)
(* The caller asks one endpoint after the other: it has the name resolved,  *)
(* fetches a page over TCP and polls for the outcome of each.  lwIP runs as *)
(* an interrupt of the same core, between any two steps of the caller that  *)
(* do not hold its lock, and answers through call-backs.  They write into   *)
(* dns_states, which is static, and into `http', which is a local variable  *)
(* of cpr_get and ceases to exist when cpr_get returns.                     *)
(*                                                                          *)
(* lwIP passes ERR_OK to the connected and receive call-backs; the branches *)
(* of those two for other values are never taken.                           *)
(*                                                                          *)
(* What the caller does under the lock is one step, except that             *)
(* dns_gethostbyname and the store of `pending' are kept apart to show what *)
(* the lock is for.                                                         *)
(***************************************************************************)
EXTENDS Integers

CONSTANTS
  Last,       \* number of endpoints
  Expected,   \* what each must answer: "exact" text, a "title", a "204"
  Pcbs,       \* lwIP's TCP control blocks
  Polls,      \* PROBE_TIMEOUT_MS in polls of 10 ms
  Capacity    \* how many parts of an answer fill probe_http_t.data

Endpoints == 1 .. Last

ASSUME ProbeAssumption ==
  /\ Last \in Nat \ {0}
  /\ Expected \in [Endpoints -> {"exact", "title", "204"}]
  /\ Polls \in Nat
  /\ Capacity \in Nat \ {0}

NULL == "null"
ASSUME NullAssumption == NULL \notin Pcbs

VARIABLES
  pc,         \* the caller's position
  index,      \* the endpoint being asked
  locked,     \* between cyw43_arch_lwip_begin and _end
  waited,     \* polls of the current wait
  error,      \* what dns_gethostbyname returned
  dns,        \* dns_states
  http,       \* the local variable of cpr_get
  completed,
  result,     \* of the last captive_portal_check
  queries,    \* lwIP: names being resolved
  tcp,        \* lwIP: state of each control block
  attached,   \* lwIP: control blocks whose arg, recv and err are set
  answer      \* the server: what it answers, and whether it has ended

caller == <<pc, index, locked, waited, error, completed, result>>
lwip   == <<queries, tcp, attached>>
vars   == <<caller, dns, http, lwip, answer>>

DnsStates == [pending : BOOLEAN, done : BOOLEAN, resolved : BOOLEAN,
              fresh : BOOLEAN]   \* history: address is of the current call

Https == [pcb : Pcbs \union {NULL}, done : BOOLEAN, failed : BOOLEAN,
          length : 0 .. Capacity]

(* right: after how many parts the text is the expected one; 0 for never.   *)
Answers == [status : {"204", "2xx", "other"}, right : 0 .. Capacity - 1,
            ended : {FALSE}]

NoAnswer == [status |-> "other", right |-> 0, ended |-> FALSE]

TypeOK ==
  /\ pc \in {"idle", "enter", "reset", "query", "mark", "resolve", "open",
             "transfer", "close", "evaluate", "next"}
  /\ index \in Endpoints /\ locked \in BOOLEAN /\ waited \in 0 .. Polls
  /\ error \in {"ok", "inprogress", "failed"}
  /\ dns \in [Endpoints -> DnsStates]
  /\ http \in Https /\ completed \in BOOLEAN
  /\ result \in {"none", "online", "portal"}
  /\ queries \subseteq Endpoints
  /\ tcp \in [Pcbs -> {"free", "connecting", "open", "closing"}]
  /\ attached \subseteq Pcbs
  /\ answer \in [status : {"204", "2xx", "other"}, right : 0 .. Capacity - 1,
                 ended : BOOLEAN]

EmptyHttp == [pcb |-> NULL, done |-> FALSE, failed |-> FALSE, length |-> 0]

Init ==
  /\ pc = "idle" /\ index = 1 /\ locked = FALSE /\ waited = 0
  /\ error = "ok" /\ completed = FALSE /\ result = "none"
  /\ dns = [e \in Endpoints |-> [pending |-> FALSE, done |-> FALSE,
                                 resolved |-> FALSE, fresh |-> FALSE]]
  /\ http = EmptyHttp
  /\ queries = {} /\ tcp = [s \in Pcbs |-> "free"] /\ attached = {}
  /\ answer = NoAnswer
-----------------------------------------------------------------------------
(* probe_http_close on a block: lwIP may finish the connection by itself    *)
(* (tcp_close) or drop it at once (also tcp_abort); one not connected yet   *)
(* is dropped.                                                              *)
HttpClose(s) ==
  /\ \E left \in (IF tcp[s] = "open" THEN {"closing", "free"} ELSE {"free"}) :
       tcp' = [tcp EXCEPT ![s] = left]
  /\ attached' = attached \ {s}

Closed(h) == [h EXCEPT !.pcb = NULL, !.done = TRUE]
-----------------------------------------------------------------------------
(***************************************************************************)
(* The caller.                                                              *)
(***************************************************************************)
Goto(from, to) == pc = from /\ pc' = to

(* cpr_get returns: its variables cease to exist. *)
Return ==
  /\ error' = "ok" /\ waited' = 0 /\ completed' = FALSE
  /\ http' = EmptyHttp /\ answer' = NoAnswer

(* captive_portal_check is called. *)
Begin ==
  /\ Goto("idle", "enter")
  /\ index' = 1 /\ result' = "none"
  /\ UNCHANGED <<locked, waited, error, completed, dns, http, lwip, answer>>

(* cpr_get is called; an endpoint whose last query is still under way is    *)
(* passed over.  Return leaves the variables as a call finds them.          *)
Enter ==
  /\ pc = "enter" /\ pc' = IF dns[index].pending THEN "next" ELSE "reset"
  /\ Return
  /\ UNCHANGED <<index, locked, result, dns, lwip>>

(* Variant: dns_gethostbyname is called without the lock. *)
Reset_Unlocked ==
  /\ Goto("reset", "query")
  /\ dns' = [dns EXCEPT ![index].done = FALSE, ![index].resolved = FALSE,
                        ![index].fresh = FALSE]
  /\ UNCHANGED <<index, locked, waited, error, completed, result, http, lwip,
                 answer>>

(* Variant: the outcome of the query before is not cleared. *)
Reset_Missing ==
  /\ Goto("reset", "query")
  /\ dns' = [dns EXCEPT ![index].fresh = FALSE]
  /\ locked' = TRUE
  /\ UNCHANGED <<index, waited, error, completed, result, http, lwip, answer>>

Reset ==
  /\ Goto("reset", "query")
  /\ dns' = [dns EXCEPT ![index].done = FALSE, ![index].resolved = FALSE,
                        ![index].fresh = FALSE]
  /\ locked' = TRUE
  /\ UNCHANGED <<index, waited, error, completed, result, http, lwip, answer>>

(* dns_gethostbyname: known, sent for, or refused. *)
Query ==
  /\ Goto("query", "mark")
  /\ \/ /\ error' = "ok"
        /\ dns' = [dns EXCEPT ![index].fresh = TRUE]
        /\ UNCHANGED queries
     \/ /\ error' = "inprogress"
        /\ queries' = queries \union {index} /\ UNCHANGED dns
     \/ error' = "failed" /\ UNCHANGED <<dns, queries>>
  /\ UNCHANGED <<index, locked, waited, completed, result, http, tcp,
                 attached, answer>>

Mark ==
  /\ Goto("mark", "resolve")
  /\ dns' = IF error = "inprogress"
            THEN [dns EXCEPT ![index].pending = TRUE] ELSE dns
  /\ locked' = FALSE /\ waited' = 0
  /\ UNCHANGED <<index, error, completed, result, http, lwip, answer>>

Resolving == error = "inprogress" /\ ~dns[index].done /\ waited < Polls

(* Variant: the wait for the name has no time-out. *)
Wait_Unbounded ==
  /\ \/ pc = "resolve" /\ error = "inprogress" /\ ~dns[index].done
     \/ pc = "transfer" /\ ~http.done /\ http.pcb # NULL /\ waited < Polls
  /\ waited' = waited + 1
  /\ UNCHANGED <<pc, index, locked, error, completed, result, dns, http, lwip,
                 answer>>

Wait ==
  /\ \/ pc = "resolve" /\ Resolving
     \/ pc = "transfer" /\ ~http.done /\ http.pcb # NULL /\ waited < Polls
  /\ waited' = waited + 1
  /\ UNCHANGED <<pc, index, locked, error, completed, result, dns, http, lwip,
                 answer>>

AddressKnown ==
  \/ error = "ok"
  \/ error = "inprogress" /\ dns[index].done /\ dns[index].resolved

Resolved ==
  /\ pc = "resolve" /\ ~Resolving
  /\ \/ /\ AddressKnown /\ pc' = "open"
        /\ UNCHANGED <<waited, error, completed, http, answer>>
     \/ ~AddressKnown /\ pc' = "next" /\ Return
  /\ UNCHANGED <<index, locked, result, dns, lwip>>

(* tcp_new finds no block, tcp_connect refuses, or the connection starts. *)
Open ==
  /\ Goto("open", "transfer")
  /\ waited' = 0
  /\ \/ /\ \A s \in Pcbs : tcp[s] # "free"
        /\ http' = EmptyHttp
        /\ UNCHANGED <<tcp, attached, answer>>
     \/ /\ \E s \in Pcbs : tcp[s] = "free"
        /\ http' = Closed(EmptyHttp)
        /\ UNCHANGED <<tcp, attached, answer>>
     \/ \E s \in Pcbs :
          /\ tcp[s] = "free"
          /\ http' = [EmptyHttp EXCEPT !.pcb = s]
          /\ tcp' = [tcp EXCEPT ![s] = "connecting"]
          /\ attached' = attached \union {s}
          /\ answer' \in Answers
  /\ UNCHANGED <<index, locked, error, completed, result, dns, queries>>

(* Variant: the wait for the answer has no time-out. *)
StopWaiting_Never ==
  /\ Goto("transfer", "close")
  /\ http.done \/ http.pcb = NULL
  /\ completed' = http.done
  /\ UNCHANGED <<index, locked, waited, error, result, dns, http, lwip, answer>>

StopWaiting ==
  /\ Goto("transfer", "close")
  /\ http.done \/ http.pcb = NULL \/ waited = Polls
  /\ completed' = http.done
  /\ UNCHANGED <<index, locked, waited, error, result, dns, http, lwip, answer>>

(* Variant: cpr_get looks at `done' after closing. *)
Close_ThenLook ==
  /\ Goto("close", "evaluate")
  /\ completed' = TRUE
  /\ http' = Closed(http)
  /\ IF http.pcb # NULL THEN HttpClose(http.pcb) ELSE UNCHANGED <<tcp, attached>>
  /\ UNCHANGED <<index, locked, waited, error, result, dns, queries, answer>>

(* Variant: only a completed connection is closed. *)
Close_IfCompleted ==
  /\ Goto("close", "evaluate")
  /\ IF completed /\ http.pcb # NULL
     THEN http' = Closed(http) /\ HttpClose(http.pcb)
     ELSE UNCHANGED <<http, tcp, attached>>
  /\ UNCHANGED <<index, locked, waited, error, completed, result, dns, queries,
                 answer>>

Close ==
  /\ Goto("close", "evaluate")
  /\ http' = Closed(http)
  /\ IF http.pcb # NULL THEN HttpClose(http.pcb) ELSE UNCHANGED <<tcp, attached>>
  /\ UNCHANGED <<index, locked, waited, error, completed, result, dns, queries,
                 answer>>

(* The first part holds the header, and with it status and end of header. *)
Response ==
  IF completed /\ ~http.failed /\ http.length > 0 THEN answer.status ELSE "none"

(* response_body_indicates_success: only the first bytes of the text are    *)
(* looked at, for a title; elsewhere it must be exactly the expected text.  *)
BodyIndicatesSuccess ==
  /\ answer.right > 0
  /\ \/ Expected[index] = "exact" /\ http.length = answer.right
     \/ Expected[index] = "title" /\ http.length >= answer.right

(* cpr_get returns and captive_portal_check judges, which ends it or goes   *)
(* on.  malloc may fail.                                                    *)
Success ==
  \/ Expected[index] = "204" /\ Response = "204"
  \/ Response \in {"204", "2xx"} /\ BodyIndicatesSuccess

Evaluate ==
  /\ pc = "evaluate"
  /\ \/ Success /\ pc' = "idle" /\ result' = "online"
     \/ pc' = "next" /\ UNCHANGED result
  /\ Return
  /\ UNCHANGED <<index, locked, dns, lwip>>

NextEndpoint ==
  /\ pc = "next"
  /\ IF index < Last
     THEN pc' = "enter" /\ index' = index + 1 /\ UNCHANGED result
     ELSE pc' = "idle" /\ result' = "portal" /\ UNCHANGED index
  /\ UNCHANGED <<locked, waited, error, completed, dns, http, lwip, answer>>
-----------------------------------------------------------------------------
(***************************************************************************)
(* lwIP and its call-backs.                                                 *)
(***************************************************************************)

(* probe_dns_result. *)
DnsResult(e) ==
  /\ ~locked /\ e \in queries
  /\ queries' = queries \ {e}
  /\ \E found \in BOOLEAN :
       dns' = [dns EXCEPT ![e].pending = FALSE, ![e].done = TRUE,
                          ![e].resolved = found, ![e].fresh = found]
  /\ UNCHANGED <<caller, http, tcp, attached, answer>>

(* probe_http_connected: the request is sent, or cannot be. *)
Connected(s) ==
  /\ ~locked /\ tcp[s] = "connecting"
  /\ \/ /\ tcp' = [tcp EXCEPT ![s] = "open"]
        /\ UNCHANGED <<attached, http>>
     \/ /\ s \in attached /\ http' = Closed(http)
        /\ \E left \in {"closing", "free"} : tcp' = [tcp EXCEPT ![s] = left]
        /\ attached' = attached \ {s}
  /\ UNCHANGED <<caller, dns, queries, answer>>

(* probe_http_receive with data: a part more, and the end of what it wants. *)
Receive(s) ==
  /\ ~locked /\ tcp[s] = "open" /\ s \in attached /\ ~answer.ended
  /\ http.length < Capacity
  /\ LET h == [http EXCEPT !.length = @ + 1]
     IN IF h.length = Capacity \/ answer.status = "204"
        THEN http' = Closed(h) /\ HttpClose(s)
        ELSE http' = h /\ UNCHANGED <<tcp, attached>>
  /\ UNCHANGED <<caller, dns, queries, answer>>

(* probe_http_receive without data: the server has ended its answer. *)
Finish(s) ==
  /\ ~locked /\ tcp[s] = "open" /\ s \in attached
  /\ answer' = [answer EXCEPT !.ended = TRUE]
  /\ http' = Closed(http) /\ HttpClose(s)
  /\ UNCHANGED <<caller, dns, queries>>

(* The connection fails: lwIP frees the block and calls probe_http_error. *)
Fail(s) ==
  /\ ~locked /\ tcp[s] \in {"connecting", "open"}
  /\ tcp' = [tcp EXCEPT ![s] = "free"] /\ attached' = attached \ {s}
  /\ http' = IF s \in attached
             THEN [http EXCEPT !.pcb = NULL, !.failed = TRUE, !.done = TRUE]
             ELSE http
  /\ UNCHANGED <<caller, dns, queries, answer>>

(* The end of a connection the program has given back. *)
Free(s) ==
  /\ ~locked /\ tcp[s] = "closing"
  /\ tcp' = [tcp EXCEPT ![s] = "free"]
  /\ UNCHANGED <<caller, dns, http, queries, attached, answer>>
-----------------------------------------------------------------------------
Get ==
  \/ Enter \/ Reset \/ Query \/ Mark \/ Wait \/ Resolved \/ Open \/ StopWaiting
  \/ Close \/ Evaluate \/ NextEndpoint

Next ==
  \/ Begin \/ Get
  \/ \E e \in Endpoints : DnsResult(e)
  \/ \E s \in Pcbs : Connected(s) \/ Receive(s) \/ Finish(s) \/ Fail(s) \/ Free(s)

Spec == Init /\ [][Next]_vars

(* The caller goes on once it has begun, and lwIP answers every query, with *)
(* an address or without: it gives up after a number of retries, and what   *)
(* the lock has held back runs when it is released.  Servers need never     *)
(* answer.                                                                  *)
FairSpec ==
  Spec /\ WF_vars(Get) /\ \A e \in Endpoints : SF_vars(DnsResult(e))
-----------------------------------------------------------------------------
(* While lwIP can run, `pending' is set for exactly the names it is         *)
(* resolving; so a dns_states entry is never handed to it twice, and never  *)
(* stays out of use (cpr_get, probe_dns_result).                            *)
QueriesTracked ==
  /\ ~locked => queries = {e \in Endpoints : dns[e].pending}
  /\ pc = "query" => index \notin queries

(* A call-back can only find the `http' it was given: once cpr_get has      *)
(* closed the connection, or returned, none is set any more.                *)
CallbacksOnLiveFrame ==
  attached \subseteq (IF pc \in {"transfer", "close", "evaluate"}
                      THEN {http.pcb} ELSE {})

(* The connections not given back to lwIP are the one cpr_get knows of:     *)
(* none is leaked, none closed twice, on any path.                          *)
BlocksOwned ==
  {s \in Pcbs : tcp[s] \in {"connecting", "open"}} = {http.pcb} \ {NULL}

(* What lwIP has of the program is what the program knows it has: names,    *)
(* call-backs and control blocks.                                           *)
Accounted == QueriesTracked /\ CallbacksOnLiveFrame /\ BlocksOwned

(* cpr_get connects to an address that was looked up in the same call, also *)
(* when an earlier look-up ended after its time-out.                        *)
AddressFresh == pc = "open" => dns[index].fresh

(* The check succeeds on an answer that was received to its end, not on one *)
(* that a time-out or an error has cut.                                     *)
OnlineIsComplete ==
  [][result # "online" /\ result' = "online"
       => /\ ~http.failed
          /\ answer.ended \/ answer.status = "204" \/ http.length = Capacity]_vars

(* The check as wifi_connect sees it. *)
Promise == INSTANCE Probe WITH asking <- pc # "idle", verdict <- result

(* captive_portal_check implements Probe: asked, it answers once, and does  *)
(* not change its answer afterwards; it returns, whatever servers do.       *)
ImplementsProbe == Promise!FairSpec

(* An endpoint passed over because its query is late is asked again later. *)
EndpointRecovers == \A e \in Endpoints : dns[e].pending ~> ~dns[e].pending
=============================================================================
