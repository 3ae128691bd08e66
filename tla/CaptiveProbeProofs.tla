------------------------- MODULE CaptiveProbeProofs -------------------------
(***************************************************************************)
(* Theorems about the captive portal probe, for any endpoints, any number   *)
(* of control blocks, any time-out and any size of the buffer.              *)
(*                                                                          *)
(* Accounted is not inductive: at `query' it needs that the entry is not    *)
(* pending, at `mark' that the query just sent for is the one exception.    *)
(* The inductive invariant adds to typing                                   *)
(*   LookupInv   what dns_states and lwIP know of each other at each        *)
(*               position, and where an address must be of this call,       *)
(*   BlockInv    that lwIP has the block, and the call-backs, that `http'   *)
(*               names, and that a block that is done is given back,        *)
(*   OutcomeInv  that `done' is only set with the whole of an answer, or    *)
(*               a failure, or nothing.                                     *)
(***************************************************************************)
EXTENDS CaptiveProbe, TLAPS

Pending == {e \in Endpoints : dns[e].pending}

Joined == {s \in Pcbs : tcp[s] \in {"connecting", "open"}}

LookupInv ==
  /\ locked <=> pc \in {"query", "mark"}
  /\ ~locked \/ pc = "query" => queries = Pending
  /\ pc = "mark" =>
       queries = IF error = "inprogress" THEN Pending \union {index} ELSE Pending
  /\ pc \in {"reset", "query", "open"} => ~dns[index].pending
  /\ pc = "query" => ~dns[index].done
  /\ pc = "mark" => ~dns[index].done /\ ~dns[index].pending
  /\ pc = "resolve" /\ dns[index].done => ~dns[index].pending
  /\ pc \in {"mark", "resolve"} /\ error = "ok"
       => dns[index].fresh /\ ~dns[index].pending
  /\ pc = "resolve" /\ dns[index].done /\ dns[index].resolved => dns[index].fresh
  /\ pc = "open" => dns[index].fresh

BlockInv ==
  /\ http.pcb # NULL => pc \in {"transfer", "close"}
  /\ attached = {http.pcb} \ {NULL}
  /\ Joined = {http.pcb} \ {NULL}
  /\ http.done => http.pcb = NULL

Outcome ==
  \/ http.failed \/ http.length = 0 \/ http.length = Capacity
  \/ answer.ended \/ answer.status = "204"

OutcomeInv ==
  /\ \A s \in Pcbs : tcp[s] = "connecting" => http.length = 0
  /\ pc \in {"transfer", "close"} /\ http.done => Outcome
  /\ pc = "close" /\ completed => http.done
  /\ pc = "evaluate" /\ completed => Outcome
-----------------------------------------------------------------------------
LEMMA FirstValues ==
  /\ 1 \in Endpoints /\ 0 \in 0 .. Polls /\ 0 \in 0 .. Capacity
  /\ EmptyHttp \in Https /\ NoAnswer \in Answers
BY ProbeAssumption DEF Endpoints, EmptyHttp, Https, NoAnswer, Answers

LEMMA ClosedTyped == ASSUME NEW h \in Https PROVE Closed(h) \in Https
BY DEF Closed, Https

LEMMA InitTyped == Init => TypeOK
<1> SUFFICES ASSUME Init PROVE TypeOK
  OBVIOUS
<1>1. dns \in [Endpoints -> DnsStates]
  BY DEF Init, DnsStates
<1>2. tcp \in [Pcbs -> {"free", "connecting", "open", "closing"}]
  BY DEF Init
<1>3. answer \in [status : {"204", "2xx", "other"}, right : 0 .. Capacity - 1,
                  ended : BOOLEAN]
  BY FirstValues DEF Init, Answers
<1> QED BY <1>1, <1>2, <1>3, FirstValues DEF Init, TypeOK

LEMMA ReturnTyped ==
  ASSUME Return
  PROVE  /\ error' \in {"ok", "inprogress", "failed"} /\ waited' \in 0 .. Polls
         /\ completed' \in BOOLEAN /\ http' \in Https
         /\ answer' \in [status : {"204", "2xx", "other"},
                         right : 0 .. Capacity - 1, ended : BOOLEAN]
BY FirstValues DEF Return, Answers

LEMMA HttpCloseTyped ==
  ASSUME NEW s \in Pcbs, HttpClose(s), TypeOK
  PROVE  /\ tcp' \in [Pcbs -> {"free", "connecting", "open", "closing"}]
         /\ attached' \subseteq Pcbs
BY DEF HttpClose, TypeOK

(* What cpr_get and probe_dns_result make of an entry. *)
LEMMA EntryTyped ==
  ASSUME NEW d \in DnsStates
  PROVE  /\ [d EXCEPT !.done = FALSE, !.resolved = FALSE, !.fresh = FALSE]
              \in DnsStates
         /\ [d EXCEPT !.fresh = TRUE] \in DnsStates
         /\ [d EXCEPT !.pending = TRUE] \in DnsStates
         /\ \A found \in BOOLEAN :
              [d EXCEPT !.pending = FALSE, !.done = TRUE,
                        !.resolved = found, !.fresh = found] \in DnsStates
BY ZenonT(30) DEF DnsStates

LEMMA EntryReplaced ==
  ASSUME TypeOK, NEW e \in Endpoints, NEW d \in DnsStates
  PROVE  [dns EXCEPT ![e] = d] \in [Endpoints -> DnsStates]
BY DEF TypeOK

LEMMA DnsResultIs ==
  ASSUME TypeOK, NEW e \in Endpoints, DnsResult(e)
  PROVE  \E d \in DnsStates :
           /\ dns' = [dns EXCEPT ![e] = d]
           /\ ~d.pending /\ (d.resolved <=> d.fresh)
<1>1. PICK found \in BOOLEAN :
        dns' = [dns EXCEPT ![e] = [dns[e] EXCEPT !.pending = FALSE, !.done = TRUE,
                                       !.resolved = found, !.fresh = found]]
  BY DEF DnsResult
<1> DEFINE d == [dns[e] EXCEPT !.pending = FALSE, !.done = TRUE,
                               !.resolved = found, !.fresh = found]
<1>2. dns[e] \in DnsStates
  BY DEF TypeOK
<1>3. d \in DnsStates
  BY <1>2, EntryTyped
<1>4. ~d.pending /\ d.resolved = found /\ d.fresh = found
  BY <1>2 DEF DnsStates
<1>5. dns' = [dns EXCEPT ![e] = d]
  BY <1>1
<1> HIDE DEF d
<1> QED BY <1>3, <1>4, <1>5

LEMMA StepTyped == TypeOK /\ [Next]_vars => TypeOK'
<1> SUFFICES ASSUME TypeOK, [Next]_vars PROVE TypeOK'
  OBVIOUS
<1> USE DEF Goto, caller, lwip
<1>1. CASE Begin
  BY <1>1, FirstValues DEF Begin, TypeOK
<1>2. CASE Enter
  BY <1>2, ReturnTyped DEF Enter, TypeOK
<1>3. CASE Reset
  <2> DEFINE d == [dns[index] EXCEPT !.done = FALSE, !.resolved = FALSE,
                               !.fresh = FALSE]
  <2>1. d \in DnsStates
    BY EntryTyped DEF TypeOK
  <2>2. dns' \in {dns, [dns EXCEPT ![index] = d]}
    BY <1>3 DEF Reset
  <2> HIDE DEF d
  <2>3. dns' \in [Endpoints -> DnsStates]
    BY <2>1, <2>2, EntryReplaced DEF TypeOK
  <2> QED BY <1>3, <2>3 DEF Reset, TypeOK
<1>4. CASE Query
  <2> DEFINE d == [dns[index] EXCEPT !.fresh = TRUE]
  <2>1. d \in DnsStates
    BY EntryTyped DEF TypeOK
  <2>2. dns' \in {dns, [dns EXCEPT ![index] = d]}
    BY <1>4 DEF Query
  <2> HIDE DEF d
  <2>3. dns' \in [Endpoints -> DnsStates]
    BY <2>1, <2>2, EntryReplaced DEF TypeOK
  <2> QED BY <1>4, <2>3 DEF Query, TypeOK
<1>5. CASE Mark
  <2> DEFINE d == [dns[index] EXCEPT !.pending = TRUE]
  <2>1. d \in DnsStates
    BY EntryTyped DEF TypeOK
  <2>2. dns' \in {dns, [dns EXCEPT ![index] = d]}
    BY <1>5 DEF Mark
  <2> HIDE DEF d
  <2>3. dns' \in [Endpoints -> DnsStates]
    BY <2>1, <2>2, EntryReplaced DEF TypeOK
  <2> QED BY <1>5, <2>3, FirstValues DEF Mark, TypeOK
<1>6. CASE Wait
  <2>1. waited' \in 0 .. Polls
    BY <1>6, ProbeAssumption DEF Wait, Resolving, TypeOK
  <2> QED BY <1>6, <2>1 DEF Wait, TypeOK
<1>7. CASE Resolved
  BY <1>7, ReturnTyped DEF Resolved, TypeOK
<1>8. CASE Open
  <2>1. http' \in Https
    BY <1>8, FirstValues, ClosedTyped DEF Open, Https
  <2>2. /\ tcp' \in [Pcbs -> {"free", "connecting", "open", "closing"}]
        /\ attached' \subseteq Pcbs
    BY <1>8 DEF Open, TypeOK
  <2>3. answer' \in [status : {"204", "2xx", "other"},
                     right : 0 .. Capacity - 1, ended : BOOLEAN]
    BY <1>8 DEF Open, TypeOK, Answers
  <2> QED BY <1>8, <2>1, <2>2, <2>3, FirstValues DEF Open, TypeOK
<1>9. CASE StopWaiting
  BY <1>9 DEF StopWaiting, TypeOK, Https
<1>10. CASE Close
  <2>1. http.pcb \in Pcbs \union {NULL} /\ http' \in Https
    BY <1>10, ClosedTyped DEF Close, TypeOK, Https
  <2> QED BY <1>10, <2>1, HttpCloseTyped DEF Close, TypeOK
<1>11. CASE Evaluate
  BY <1>11, ReturnTyped DEF Evaluate, TypeOK
<1>12. CASE NextEndpoint
  BY <1>12, ProbeAssumption DEF NextEndpoint, TypeOK, Endpoints
<1>13. ASSUME NEW e \in Endpoints, DnsResult(e) PROVE TypeOK'
  <2>1. dns' \in [Endpoints -> DnsStates]
    BY <1>13, DnsResultIs DEF TypeOK, DnsStates
  <2> QED BY <1>13, <2>1 DEF DnsResult, TypeOK
<1>14. ASSUME NEW s \in Pcbs, Connected(s) PROVE TypeOK'
  BY <1>14, ClosedTyped DEF Connected, TypeOK
<1>15. ASSUME NEW s \in Pcbs, Receive(s) PROVE TypeOK'
  <2> DEFINE h == [http EXCEPT !.length = @ + 1]
  <2>1. h \in Https
    BY <1>15, ProbeAssumption DEF Receive, TypeOK, Https
  <2> QED BY <1>15, <2>1, ClosedTyped, HttpCloseTyped DEF Receive, TypeOK
<1>16. ASSUME NEW s \in Pcbs, Finish(s) PROVE TypeOK'
  BY <1>16, ClosedTyped, HttpCloseTyped DEF Finish, TypeOK
<1>17. ASSUME NEW s \in Pcbs, Fail(s) PROVE TypeOK'
  <2>1. http' \in Https
    BY <1>17 DEF Fail, TypeOK, Https
  <2> QED BY <1>17, <2>1 DEF Fail, TypeOK
<1>18. ASSUME NEW s \in Pcbs, Free(s) PROVE TypeOK'
  BY <1>18 DEF Free, TypeOK
<1>19. CASE UNCHANGED vars
  BY <1>19 DEF vars, TypeOK
<1> QED BY <1>1, <1>2, <1>3, <1>4, <1>5, <1>6, <1>7, <1>8, <1>9, <1>10, <1>11,
           <1>12, <1>13, <1>14, <1>15, <1>16, <1>17, <1>18, <1>19
        DEF Next, Get

(* Every variable of the probe keeps its type. *)
THEOREM TypeCorrect == Spec => []TypeOK
BY InitTyped, StepTyped, PTL DEF Spec
-----------------------------------------------------------------------------
(* What a step that marks no entry leaves. *)
LEMMA PendingKept ==
  ASSUME \A e \in Endpoints : dns'[e].pending <=> dns[e].pending
  PROVE  Pending' = Pending
BY DEF Pending

LEMMA InitLookup == Init => LookupInv
BY DEF Init, LookupInv, Pending

LEMMA StepLookup == TypeOK /\ LookupInv /\ [Next]_vars => LookupInv'
<1> SUFFICES ASSUME TypeOK, LookupInv, [Next]_vars PROVE LookupInv'
  OBVIOUS
<1> USE DEF Goto, caller, lwip
<1>1. ASSUME UNCHANGED dns PROVE Pending' = Pending
  BY <1>1, PendingKept
<1>2. CASE Begin \/ StopWaiting \/ Close \/ Wait \/ Evaluate
  BY <1>1, <1>2 DEF Begin, StopWaiting, Close, Wait, Evaluate, Return, LookupInv
<1>3. CASE Enter
  BY <1>1, <1>3 DEF Enter, Return, LookupInv
<1>4. CASE Reset
  <2>1. \A e \in Endpoints : dns'[e].pending <=> dns[e].pending
    BY <1>4 DEF Reset, TypeOK, DnsStates
  <2>2. ~dns'[index].done
    BY <1>4 DEF Reset, TypeOK, DnsStates
  <2> QED BY <1>4, <2>1, <2>2, PendingKept DEF Reset, TypeOK, LookupInv
<1>5. CASE Query
  <2>1. /\ \A e \in Endpoints : dns'[e].pending <=> dns[e].pending
        /\ ~dns'[index].done
        /\ error' = "ok" => dns'[index].fresh
    BY <1>5 DEF Query, TypeOK, DnsStates, LookupInv
  <2>2. Pending' = Pending
    BY <2>1, PendingKept
  <2> QED BY <1>5, <2>1, <2>2 DEF Query, TypeOK, LookupInv
<1>6. CASE Mark
  <2>1. CASE error = "inprogress"
    <3>1. /\ \A e \in Endpoints :
               dns'[e].pending <=> (dns[e].pending \/ e = index)
          /\ ~dns'[index].done
      BY <1>6, <2>1 DEF Mark, TypeOK, DnsStates, LookupInv
    <3>2. Pending' = Pending \union {index}
      BY <3>1 DEF Pending, TypeOK
    <3> QED BY <1>6, <2>1, <3>1, <3>2 DEF Mark, TypeOK, LookupInv
  <2>2. CASE error # "inprogress"
    BY <1>1, <1>6, <2>2 DEF Mark, LookupInv
  <2> QED BY <2>1, <2>2
<1>7. CASE Resolved
  BY <1>1, <1>7 DEF Resolved, AddressKnown, Return, LookupInv
<1>8. CASE Open
  BY <1>1, <1>8 DEF Open, LookupInv
<1>9. CASE NextEndpoint
  BY <1>1, <1>9 DEF NextEndpoint, LookupInv
<1>10. ASSUME NEW e \in Endpoints, DnsResult(e) PROVE LookupInv'
  <2>1. PICK d \in DnsStates :
          dns' = [dns EXCEPT ![e] = d] /\ ~d.pending /\ (d.resolved <=> d.fresh)
    BY <1>10, DnsResultIs
  <2>2. /\ ~locked /\ e \in queries /\ queries = Pending
        /\ queries' = Pending \ {e}
        /\ pc \notin {"query", "mark"}
        /\ UNCHANGED caller
    BY <1>10 DEF DnsResult, LookupInv
  <2>3. dns'[e] = d /\ \A x \in Endpoints \ {e} : dns'[x] = dns[x]
    BY <2>1 DEF TypeOK
  <2>4. Pending' = Pending \ {e}
    BY <2>1, <2>3 DEF Pending
  <2>5. e = index => dns[index].pending
    BY <2>2 DEF Pending
  <2>6. index \in Endpoints
    BY DEF TypeOK
  <2> QED BY <2>1, <2>2, <2>3, <2>4, <2>5, <2>6 DEF LookupInv
<1>11. ASSUME NEW s \in Pcbs, Connected(s) \/ Receive(s) \/ Finish(s)
       PROVE  LookupInv'
  BY <1>1, <1>11 DEF Connected, Receive, Finish, LookupInv
<1>12. ASSUME NEW s \in Pcbs, Fail(s) \/ Free(s) PROVE LookupInv'
  BY <1>1, <1>12 DEF Fail, Free, LookupInv
<1>13. CASE UNCHANGED vars
  BY <1>1, <1>13 DEF vars, LookupInv
<1> QED BY <1>2, <1>3, <1>4, <1>5, <1>6, <1>7, <1>8, <1>9, <1>10, <1>11, <1>12,
           <1>13 DEF Next, Get
-----------------------------------------------------------------------------
LEMMA EmptyFields ==
  /\ EmptyHttp.pcb = NULL /\ ~EmptyHttp.done /\ EmptyHttp.length = 0
  /\ Closed(EmptyHttp).pcb = NULL /\ Closed(EmptyHttp).length = 0
BY DEF EmptyHttp, Closed

LEMMA ClosedFields ==
  ASSUME NEW h \in Https
  PROVE  /\ Closed(h).pcb = NULL /\ Closed(h).done
         /\ Closed(h).length = h.length /\ (Closed(h).failed <=> h.failed)
BY DEF Closed, Https

(* A block with a call-back is the block of `http'. *)
LEMMA OneBlock ==
  ASSUME BlockInv, NEW s \in Pcbs, s \in attached \/ tcp[s] \in {"connecting", "open"}
  PROVE  http.pcb = s /\ s \in attached /\ ~http.done
BY NullAssumption DEF BlockInv, Joined

(* Giving the block back leaves lwIP with none. *)
LEMMA BlockGiven ==
  ASSUME TypeOK, BlockInv, NEW s \in Pcbs, http.pcb = s, attached' = attached \ {s},
         NEW left \in {"closing", "free"}, tcp' = [tcp EXCEPT ![s] = left]
  PROVE  attached' = {} /\ Joined' = {} /\ \A x \in Pcbs : tcp'[x] # "connecting"
<1>1. attached = {s} /\ Joined = {s}
  BY NullAssumption DEF BlockInv
<1>2. tcp'[s] = left /\ \A x \in Pcbs \ {s} : tcp'[x] = tcp[x]
  BY DEF TypeOK
<1>3. \A x \in Pcbs \ {s} : tcp[x] \notin {"connecting", "open"}
  BY <1>1 DEF Joined
<1>4. \A x \in Pcbs : tcp'[x] \notin {"connecting", "open"}
  BY <1>2, <1>3
<1> QED BY <1>1, <1>4 DEF Joined

LEMMA HttpCloseGives ==
  ASSUME TypeOK, BlockInv, NEW s \in Pcbs, http.pcb = s, HttpClose(s)
  PROVE  attached' = {} /\ Joined' = {} /\ \A x \in Pcbs : tcp'[x] # "connecting"
<1>1. PICK left \in {"closing", "free"} : tcp' = [tcp EXCEPT ![s] = left]
  BY DEF HttpClose
<1> QED BY <1>1, BlockGiven DEF HttpClose

(* Once the block is given back, what is left to show. *)
LEMMA BlockGone ==
  ASSUME http'.pcb = NULL, attached' = {}, Joined' = {},
         \A x \in Pcbs : tcp'[x] # "connecting",
         pc' \in {"transfer", "close"} /\ http'.done => Outcome',
         pc' = "close" /\ completed' => http'.done,
         pc' = "evaluate" /\ completed' => Outcome'
  PROVE  BlockInv' /\ OutcomeInv'
BY DEF BlockInv, OutcomeInv

LEMMA InitBlock == Init => BlockInv /\ OutcomeInv
BY EmptyFields DEF Init, BlockInv, OutcomeInv, Joined

LEMMA StepBlock ==
  TypeOK /\ BlockInv /\ OutcomeInv /\ [Next]_vars => BlockInv' /\ OutcomeInv'
<1> SUFFICES ASSUME TypeOK, BlockInv, OutcomeInv, [Next]_vars
             PROVE  BlockInv' /\ OutcomeInv'
  OBVIOUS
<1> USE DEF Goto, caller, lwip
<1>1. ASSUME UNCHANGED tcp PROVE Joined' = Joined
  BY <1>1 DEF Joined
<1>2. ASSUME UNCHANGED <<http, answer>> PROVE Outcome' <=> Outcome
  BY <1>2 DEF Outcome
<1>3. CASE Begin \/ Reset \/ Query \/ Mark
  BY <1>1, <1>3 DEF Begin, Reset, Query, Mark, BlockInv, OutcomeInv
<1>4. CASE Enter \/ Evaluate
  <2>1. http.pcb = NULL /\ pc' \in {"next", "reset", "idle"} /\ http' = EmptyHttp
    BY <1>4 DEF Enter, Evaluate, Return, BlockInv
  <2> QED BY <1>1, <1>4, <2>1, EmptyFields
          DEF Enter, Evaluate, Return, BlockInv, OutcomeInv
<1>5. CASE Wait
  BY <1>1, <1>2, <1>5 DEF Wait, BlockInv, OutcomeInv
<1>6. CASE Resolved
  <2>1. /\ http.pcb = NULL /\ pc' \in {"open", "next"}
        /\ http' = http \/ http' = EmptyHttp
    BY <1>6 DEF Resolved, Return, BlockInv
  <2>2. http'.pcb = NULL /\ (http'.done => http'.pcb = NULL)
    BY <2>1, EmptyFields
  <2>3. \A x \in Pcbs : tcp[x] # "connecting"
    BY <2>1, NullAssumption DEF BlockInv, Joined
  <2>4. UNCHANGED lwip
    BY <1>6 DEF Resolved
  <2> QED BY <1>1, <2>1, <2>2, <2>3, <2>4 DEF BlockInv, OutcomeInv
<1>7. CASE StopWaiting
  BY <1>1, <1>2, <1>7 DEF StopWaiting, BlockInv, OutcomeInv
<1>8. CASE NextEndpoint
  BY <1>1, <1>8 DEF NextEndpoint, BlockInv, OutcomeInv
<1>9. ASSUME NEW s \in Pcbs, Free(s) PROVE BlockInv' /\ OutcomeInv'
  <2>1. tcp'[s] = "free" /\ \A x \in Pcbs \ {s} : tcp'[x] = tcp[x]
    BY <1>9 DEF Free, TypeOK
  <2>2. Joined' = Joined
    BY <1>9, <2>1 DEF Free, Joined
  <2>3. \A x \in Pcbs : tcp'[x] = "connecting" => tcp[x] = "connecting"
    BY <2>1
  <2> QED BY <1>2, <1>9, <2>2, <2>3 DEF Free, BlockInv, OutcomeInv
<1>10. CASE UNCHANGED vars
  BY <1>1, <1>2, <1>10 DEF vars, BlockInv, OutcomeInv
<1>11. CASE Open
  <2>1. http.pcb = NULL /\ attached = {} /\ Joined = {}
    BY <1>11, NullAssumption DEF Open, BlockInv
  <2>2. CASE UNCHANGED <<tcp, attached, answer>>
               /\ http' \in {EmptyHttp, Closed(EmptyHttp)}
    <3>1. http'.pcb = NULL /\ http'.length = 0
      BY <2>2, EmptyFields
    <3>2. Joined' = {} /\ \A x \in Pcbs : tcp'[x] # "connecting"
      BY <1>1, <2>1, <2>2 DEF Joined
    <3>3. Outcome' /\ pc' = "transfer"
      BY <1>11, <3>1 DEF Open, Outcome
    <3> QED BY <2>1, <2>2, <3>1, <3>2, <3>3, BlockGone
  <2>3. ASSUME NEW s \in Pcbs, http' = [EmptyHttp EXCEPT !.pcb = s],
               tcp' = [tcp EXCEPT ![s] = "connecting"],
               attached' = attached \union {s}
        PROVE  BlockInv' /\ OutcomeInv'
    <3>1. http'.pcb = s /\ ~http'.done /\ http'.length = 0
      BY <2>3 DEF EmptyHttp
    <3>2. tcp'[s] = "connecting" /\ \A x \in Pcbs \ {s} : tcp'[x] = tcp[x]
      BY <2>3 DEF TypeOK
    <3>3. Joined' = {s} /\ attached' = {s}
      BY <2>1, <2>3, <3>2 DEF Joined
    <3>4. pc' = "transfer"
      BY <1>11 DEF Open
    <3> QED BY <3>1, <3>3, <3>4, NullAssumption DEF BlockInv, OutcomeInv
  <2> QED BY <1>11, <2>2, <2>3 DEF Open
<1>12. CASE Close
  <2>1. http \in Https
    BY DEF TypeOK
  <2>2. /\ http'.pcb = NULL /\ http'.done
        /\ http'.length = http.length /\ (http'.failed <=> http.failed)
    BY <1>12, <2>1, ClosedFields DEF Close
  <2>3. completed' => Outcome'
    BY <1>12, <2>2 DEF Close, OutcomeInv, Outcome
  <2>4. pc' = "evaluate"
    BY <1>12 DEF Close
  <2>5. CASE http.pcb # NULL
    <3>1. http.pcb \in Pcbs
      BY <2>1, <2>5 DEF Https
    <3>2. attached' = {} /\ Joined' = {} /\ \A x \in Pcbs : tcp'[x] # "connecting"
      BY <1>12, <2>5, <3>1, HttpCloseGives DEF Close
    <3> QED BY <2>2, <2>3, <2>4, <3>2, BlockGone
  <2>6. CASE http.pcb = NULL
    <3>1. attached' = {} /\ Joined' = {} /\ \A x \in Pcbs : tcp'[x] # "connecting"
      BY <1>1, <1>12, <2>6 DEF Close, BlockInv, Joined
    <3> QED BY <2>2, <2>3, <2>4, <3>1, BlockGone
  <2> QED BY <2>5, <2>6
<1>13. ASSUME NEW s \in Pcbs, Connected(s) PROVE BlockInv' /\ OutcomeInv'
  <2>1. http.pcb = s /\ s \in attached /\ ~http.done /\ http \in Https
    BY <1>13, OneBlock DEF Connected, TypeOK
  <2>2. http.length = 0
    BY <1>13 DEF Connected, OutcomeInv
  <2>3. CASE tcp' = [tcp EXCEPT ![s] = "open"] /\ UNCHANGED <<attached, http>>
    <3>1. tcp'[s] = "open" /\ \A x \in Pcbs \ {s} : tcp'[x] = tcp[x]
      BY <2>3 DEF TypeOK
    <3>2. Joined' = Joined
      BY <1>13, <3>1 DEF Connected, Joined
    <3> QED BY <1>2, <1>13, <2>1, <2>3, <3>1, <3>2
            DEF Connected, BlockInv, OutcomeInv
  <2>4. CASE ~(tcp' = [tcp EXCEPT ![s] = "open"] /\ UNCHANGED <<attached, http>>)
    <3>1. PICK left \in {"closing", "free"} :
            /\ tcp' = [tcp EXCEPT ![s] = left] /\ attached' = attached \ {s}
            /\ http' = Closed(http) /\ UNCHANGED caller
      BY <1>13, <2>4 DEF Connected
    <3>2. http'.pcb = NULL /\ http'.done /\ http'.length = 0
      BY <2>1, <2>2, <3>1, ClosedFields
    <3>3. Outcome'
      BY <3>2 DEF Outcome
    <3> QED BY <2>1, <3>1, <3>2, <3>3, BlockGiven, BlockGone
  <2> QED BY <2>3, <2>4
<1>14. ASSUME NEW s \in Pcbs, Receive(s) PROVE BlockInv' /\ OutcomeInv'
  <2>1. http.pcb = s /\ s \in attached /\ ~http.done /\ http \in Https
    BY <1>14, OneBlock DEF Receive, TypeOK
  <2> DEFINE h == [http EXCEPT !.length = @ + 1]
  <2>2. h \in Https
    BY <1>14, <2>1, ProbeAssumption DEF Receive, Https
  <2>3. h.pcb = s /\ ~h.done
    BY <2>1 DEF Https
  <2>4. CASE h.length = Capacity \/ answer.status = "204"
    <3>1. http' = Closed(h) /\ HttpClose(s) /\ UNCHANGED <<caller, answer>>
      BY <1>14, <2>4 DEF Receive
    <3> HIDE DEF h
    <3>2. http'.pcb = NULL /\ http'.done /\ http'.length = h.length
      BY <2>2, <3>1, ClosedFields
    <3>3. Outcome'
      BY <2>4, <3>1, <3>2 DEF Outcome
    <3> QED BY <2>1, <3>1, <3>2, <3>3, HttpCloseGives, BlockGone
  <2>5. CASE ~(h.length = Capacity \/ answer.status = "204")
    <3>1. http' = h /\ UNCHANGED <<caller, answer, tcp, attached>>
      BY <1>14, <2>5 DEF Receive
    <3> HIDE DEF h
    <3>2. http'.pcb = s /\ ~http'.done
      BY <2>3, <3>1
    <3>3. \A x \in Pcbs : tcp[x] # "connecting"
      BY <1>14, OneBlock, <2>1 DEF Receive
    <3> QED BY <1>1, <2>1, <3>1, <3>2, <3>3 DEF BlockInv, OutcomeInv
  <2> QED BY <2>4, <2>5
<1>15. ASSUME NEW s \in Pcbs, Finish(s) PROVE BlockInv' /\ OutcomeInv'
  <2>1. http.pcb = s /\ s \in attached /\ ~http.done /\ http \in Https
    BY <1>15, OneBlock DEF Finish, TypeOK
  <2>2. http'.pcb = NULL /\ http'.done
    BY <1>15, <2>1, ClosedFields DEF Finish
  <2>3. answer'.ended
    BY <1>15 DEF Finish, TypeOK
  <2>4. Outcome'
    BY <2>3 DEF Outcome
  <2> QED BY <1>15, <2>1, <2>2, <2>4, HttpCloseGives, BlockGone DEF Finish
<1>16. ASSUME NEW s \in Pcbs, Fail(s) PROVE BlockInv' /\ OutcomeInv'
  <2>1. http.pcb = s /\ s \in attached /\ ~http.done /\ http \in Https
    BY <1>16, OneBlock DEF Fail, TypeOK
  <2>2. http'.pcb = NULL /\ http'.done /\ http'.failed
    BY <1>16, <2>1 DEF Fail, Https
  <2>3. Outcome'
    BY <2>2 DEF Outcome
  <2>4. "free" \in {"closing", "free"}
    OBVIOUS
  <2> QED BY <1>16, <2>1, <2>2, <2>3, <2>4, BlockGiven, BlockGone DEF Fail
<1>17. CASE Begin \/ Get
  BY <1>3, <1>4, <1>5, <1>6, <1>7, <1>8, <1>11, <1>12, <1>17 DEF Get
<1>18. CASE \E s \in Pcbs :
              Connected(s) \/ Receive(s) \/ Finish(s) \/ Fail(s) \/ Free(s)
  BY <1>9, <1>13, <1>14, <1>15, <1>16, <1>18
<1>19. CASE \E e \in Endpoints : DnsResult(e)
  BY <1>1, <1>2, <1>19 DEF DnsResult, BlockInv, OutcomeInv
<1> QED BY <1>10, <1>17, <1>18, <1>19 DEF Next
-----------------------------------------------------------------------------
IInv == TypeOK /\ LookupInv /\ BlockInv /\ OutcomeInv

LEMMA Invariant == Spec => []IInv
<1>1. Init => IInv
  BY InitTyped, InitLookup, InitBlock DEF IInv
<1>2. IInv /\ [Next]_vars => IInv'
  BY StepTyped, StepLookup, StepBlock DEF IInv
<1> QED BY <1>1, <1>2, PTL DEF Spec

(* What lwIP has of the probe - names being resolved, call-backs, control   *)
(* blocks - is what cpr_get and dns_states know it to have.                 *)
THEOREM NothingIsLost == Spec => []Accounted
<1>1. IInv => QueriesTracked
  <2> SUFFICES ASSUME IInv PROVE QueriesTracked
    OBVIOUS
  <2>1. ~locked => queries = Pending
    BY DEF IInv, LookupInv
  <2>2. pc = "query" => index \notin queries
    BY DEF IInv, LookupInv, Pending
  <2> QED BY <2>1, <2>2 DEF QueriesTracked, Pending
<1>2. IInv => CallbacksOnLiveFrame
  BY NullAssumption DEF IInv, BlockInv, CallbacksOnLiveFrame
<1>3. IInv => BlocksOwned
  BY DEF IInv, BlockInv, Joined, BlocksOwned
<1>4. IInv => Accounted
  BY <1>1, <1>2, <1>3 DEF Accounted
<1> QED BY <1>4, Invariant, PTL

(* cpr_get never connects to an address of an earlier call. *)
THEOREM AddressIsFresh == Spec => []AddressFresh
<1>1. IInv => AddressFresh
  BY DEF IInv, LookupInv, AddressFresh
<1> QED BY <1>1, Invariant, PTL

(* captive_portal_check succeeds only on an answer received to its end. *)
THEOREM OnlineMeansComplete == Spec => OnlineIsComplete
<1>1. IInv /\ [Next]_vars
        => [result # "online" /\ result' = "online"
              => /\ ~http.failed
                 /\ answer.ended \/ answer.status = "204" \/ http.length = Capacity]_vars
  <2> SUFFICES ASSUME IInv, [Next]_vars, result # "online", result' = "online"
               PROVE  /\ ~http.failed
                      /\ \/ answer.ended \/ answer.status = "204"
                         \/ http.length = Capacity
    OBVIOUS
  <2>1. Evaluate
    BY DEF Next, Get, vars, caller, Begin, Enter, Reset, Query, Mark, Wait,
           Resolved, Open, StopWaiting, Close, NextEndpoint, DnsResult,
           Connected, Receive, Finish, Fail, Free
  <2>2. Success /\ pc = "evaluate"
    BY <2>1 DEF Evaluate
  <2>3. Response # "none"
    BY <2>2 DEF Success
  <2>4. completed /\ ~http.failed /\ http.length > 0
    BY <2>3 DEF Response
  <2>5. Outcome /\ http.length # 0
    BY <2>2, <2>4 DEF IInv, OutcomeInv, TypeOK, Https
  <2> QED BY <2>4, <2>5 DEF Outcome
<1> QED BY <1>1, Invariant, PTL DEF Spec, OnlineIsComplete

(* captive_portal_check answers each call once, with yes or no, and leaves  *)
(* its answer alone until it is asked again: the safety of ImplementsProbe. *)
THEOREM CheckImplementsProbe == Spec => Promise!Spec
<1>1. Init => Promise!Init
  BY DEF Init, Promise!Init
<1>2. [Next]_vars => [Promise!Next]_<<pc # "idle", result>>
  <2> SUFFICES ASSUME [Next]_vars
               PROVE  Promise!Next \/ UNCHANGED <<pc # "idle", result>>
    OBVIOUS
  <2> USE DEF Goto, caller, lwip, Promise!Next
  <2>1. CASE Begin
    BY <2>1 DEF Begin, Promise!Ask
  <2>2. CASE Enter \/ Reset \/ Query \/ Mark \/ Wait
    BY <2>2 DEF Enter, Reset, Query, Mark, Wait
  <2>3. CASE Resolved \/ Open \/ StopWaiting \/ Close
    BY <2>3 DEF Resolved, Open, StopWaiting, Close
  <2>4. CASE Evaluate
    <3>1. CASE pc' = "idle" /\ result' = "online"
      BY <2>4, <3>1 DEF Evaluate, Promise!Answer
    <3>2. CASE pc' = "next" /\ UNCHANGED result
      BY <2>4, <3>2 DEF Evaluate
    <3> QED BY <2>4, <3>1, <3>2 DEF Evaluate
  <2>5. CASE NextEndpoint
    BY <2>5 DEF NextEndpoint, Promise!Answer
  <2>6. ASSUME NEW e \in Endpoints, DnsResult(e)
        PROVE  UNCHANGED <<pc # "idle", result>>
    BY <2>6 DEF DnsResult
  <2>7. ASSUME NEW s \in Pcbs,
               Connected(s) \/ Receive(s) \/ Finish(s) \/ Fail(s) \/ Free(s)
        PROVE  UNCHANGED <<pc # "idle", result>>
    BY <2>7 DEF Connected, Receive, Finish, Fail, Free
  <2>8. CASE UNCHANGED vars
    BY <2>8 DEF vars
  <2> QED BY <2>1, <2>2, <2>3, <2>4, <2>5, <2>6, <2>7, <2>8 DEF Next, Get
<1> QED BY <1>1, <1>2, PTL DEF Spec, Promise!Spec
-----------------------------------------------------------------------------
(* How many steps cpr_get still has to take for the endpoint it is at, at   *)
(* position p and after w polls of the wait it is in; both waits may last   *)
(* to their time-out.                                                       *)
StepsLeft(p, w) ==
  [enter |-> 10 + 2 * Polls, reset |-> 9 + 2 * Polls,
   query |-> 8 + 2 * Polls, mark |-> 7 + 2 * Polls,
   resolve |-> 6 + Polls + (Polls - w), open |-> 5 + Polls,
   transfer |-> 4 + (Polls - w), close |-> 3, evaluate |-> 2, next |-> 1][p]

(* And captive_portal_check for all the endpoints that are left. *)
Rank ==
  IF pc = "idle" THEN 0
  ELSE (Last - index) * (10 + 2 * Polls) + StepsLeft(pc, waited)

LwIP ==
  \/ \E e \in Endpoints : DnsResult(e)
  \/ \E s \in Pcbs : Connected(s) \/ Receive(s) \/ Finish(s) \/ Fail(s) \/ Free(s)

(* Every step of captive_portal_check brings its return nearer, and no      *)
(* call-back puts it off.                                                   *)
BoundedWork ==
  [][/\ Rank' \in 0 .. Last * (10 + 2 * Polls)
     /\ Get => Rank' < Rank
     /\ LwIP => Rank' = Rank]_vars

LEMMA StepsLeftIs ==
  ASSUME NEW w
  PROVE  /\ StepsLeft("enter", w) = 10 + 2 * Polls
         /\ StepsLeft("reset", w) = 9 + 2 * Polls
         /\ StepsLeft("query", w) = 8 + 2 * Polls
         /\ StepsLeft("mark", w) = 7 + 2 * Polls
         /\ StepsLeft("resolve", w) = 6 + Polls + (Polls - w)
         /\ StepsLeft("open", w) = 5 + Polls
         /\ StepsLeft("transfer", w) = 4 + (Polls - w)
         /\ StepsLeft("close", w) = 3 /\ StepsLeft("evaluate", w) = 2
         /\ StepsLeft("next", w) = 1
BY DEF StepsLeft

LEMMA StepsLeftBounded ==
  ASSUME TypeOK, pc # "idle"
  PROVE  StepsLeft(pc, waited) \in 1 .. 10 + 2 * Polls
<1>1. waited \in 0 .. Polls /\ Polls \in Nat
  BY ProbeAssumption DEF TypeOK
<1>2. pc \in {"enter", "reset", "query", "mark", "resolve", "open", "transfer",
             "close", "evaluate", "next"}
  BY DEF TypeOK
<1> QED BY <1>1, <1>2, StepsLeftIs

(* The work for a endpoints and one more is no more than that for b. *)
LEMMA MoreEndpoints ==
  ASSUME NEW a \in Nat, NEW b \in Nat, a < b, NEW k \in Nat
  PROVE  a * k \in Nat /\ a * k + k <= b * k
<1>1. PICK c \in Nat : b = a + 1 + c
  BY b - a - 1 \in Nat, b = a + 1 + (b - a - 1)
<1>2. b * k = (a * k + k) + c * k
  BY <1>1, Z3
<1>3. c * k \in Nat /\ a * k \in Nat
  OBVIOUS
<1>4. \A m, n \in Nat : m <= m + n
  OBVIOUS
<1> QED BY <1>2, <1>3, <1>4

LEMMA RankBounded == TypeOK => Rank \in 0 .. Last * (10 + 2 * Polls)
<1> SUFFICES ASSUME TypeOK PROVE Rank \in 0 .. Last * (10 + 2 * Polls)
  OBVIOUS
<1> DEFINE k == 10 + 2 * Polls
           a == Last - index
           x == StepsLeft(pc, waited)
<1>1. k \in Nat /\ Last \in Nat
  BY ProbeAssumption
<1>2. a \in Nat /\ a < Last
  BY <1>1 DEF TypeOK, Endpoints
<1>3. a * k \in Nat /\ a * k + k <= Last * k
  <2> HIDE DEF a, k
  <2> QED BY <1>1, <1>2, MoreEndpoints
<1>4. Last * k \in Nat
  <2> HIDE DEF k
  <2> QED BY <1>1
<1>5. Rank = 0 \/ (x \in 1 .. k /\ Rank = a * k + x)
  BY StepsLeftBounded DEF Rank
<1> HIDE DEF a, k, x
<1>6. Rank \in 0 .. Last * k
  BY <1>1, <1>3, <1>4, <1>5
<1> QED BY <1>6 DEF k

(* At one endpoint the rank moves with the steps that are left for it. *)
LEMMA SameEndpoint ==
  ASSUME TypeOK, TypeOK', index' = index, pc # "idle", pc' # "idle",
         StepsLeft(pc', waited') < StepsLeft(pc, waited)
  PROVE  Rank' < Rank
<1> DEFINE k == 10 + 2 * Polls
           a == Last - index
           x == StepsLeft(pc, waited)
           y == StepsLeft(pc', waited')
<1>1. Rank = a * k + x /\ Rank' = a * k + y /\ y < x
  BY DEF Rank
<1>2. x \in Int
  BY StepsLeftBounded, ProbeAssumption
<1>3. y \in Int
  <2>1. (pc # "idle" /\ TypeOK => x \in 1 .. k)'
    BY StepsLeftBounded, PTL
  <2> QED BY <2>1, ProbeAssumption
<1>4. a \in Int /\ k \in Int
  BY ProbeAssumption DEF TypeOK, Endpoints
<1> HIDE DEF a, k, x, y
<1>5. a * k \in Int
  BY <1>4
<1>6. \A p, m, n \in Int : m < n => p + m < p + n
  OBVIOUS
<1> QED BY <1>1, <1>2, <1>3, <1>5, <1>6

LEMMA GetDescends == TypeOK /\ TypeOK' /\ Get => Rank' < Rank
<1> SUFFICES ASSUME TypeOK, TypeOK', Get PROVE Rank' < Rank
  OBVIOUS
<1>1. waited \in 0 .. Polls /\ waited' \in 0 .. Polls /\ Polls \in Nat
  BY ProbeAssumption DEF TypeOK
<1>2. /\ Last \in Nat /\ index \in 1 .. Last
      /\ Last - index \in Nat /\ 10 + 2 * Polls \in Nat
  BY ProbeAssumption DEF TypeOK, Endpoints
<1> DEFINE k == 10 + 2 * Polls
           a == Last - index
<1>3. a * k \in Nat
  <2> HIDE DEF a, k
  <2> QED BY <1>2 DEF a, k
<1>4. ASSUME pc # "idle", pc' = "idle" PROVE Rank' < Rank
  <2>1. Rank = a * k + StepsLeft(pc, waited) /\ Rank' = 0
    BY <1>4 DEF Rank
  <2>2. StepsLeft(pc, waited) \in Nat \ {0}
    BY <1>1, <1>4, StepsLeftBounded
  <2> HIDE DEF a, k
  <2> QED BY <1>3, <2>1, <2>2
<1>5. CASE NextEndpoint
  <2>1. Rank = a * k + 1
    BY <1>5, StepsLeftIs DEF NextEndpoint, Rank
  <2>2. CASE index < Last
    <3> DEFINE b == Last - (index + 1)
    <3>1. pc' = "enter" /\ index' = index + 1
      BY <1>5, <2>2 DEF NextEndpoint
    <3>2. Rank' = b * k + k
      BY <3>1, StepsLeftIs DEF Rank
    <3>3. a \in Nat /\ b \in Nat /\ b < a /\ k \in Nat
      BY <1>2, <2>2
    <3> HIDE DEF a, b, k
    <3>4. b * k \in Nat /\ b * k + k <= a * k
      BY <3>3, MoreEndpoints
    <3> QED BY <1>3, <2>1, <3>2, <3>3, <3>4
  <2>3. CASE ~(index < Last)
    BY <1>4, <1>5, <2>3 DEF NextEndpoint
  <2> QED BY <2>2, <2>3
<1>6. CASE Enter
  <2>1. pc = "enter" /\ pc' \in {"next", "reset"} /\ waited' = 0 /\ index' = index
    BY <1>6 DEF Enter, Return
  <2>2. StepsLeft(pc', waited') < StepsLeft(pc, waited)
    BY <1>1, <2>1, StepsLeftIs
  <2> QED BY <2>1, <2>2, SameEndpoint
<1>7. CASE Reset
  <2>1. pc = "reset" /\ pc' = "query" /\ index' = index
    BY <1>7 DEF Reset, Goto
  <2>2. StepsLeft(pc', waited') < StepsLeft(pc, waited)
    BY <1>1, <2>1, StepsLeftIs
  <2> QED BY <2>1, <2>2, SameEndpoint
<1>8. CASE Query
  <2>1. pc = "query" /\ pc' = "mark" /\ index' = index
    BY <1>8 DEF Query, Goto
  <2>2. StepsLeft(pc', waited') < StepsLeft(pc, waited)
    BY <1>1, <2>1, StepsLeftIs
  <2> QED BY <2>1, <2>2, SameEndpoint
<1>9. CASE Mark
  <2>1. pc = "mark" /\ pc' = "resolve" /\ waited' = 0 /\ index' = index
    BY <1>9 DEF Mark, Goto
  <2>2. StepsLeft(pc', waited') < StepsLeft(pc, waited)
    BY <1>1, <2>1, StepsLeftIs
  <2> QED BY <2>1, <2>2, SameEndpoint
<1>10. CASE Wait
  <2>1. /\ pc \in {"resolve", "transfer"} /\ pc' = pc /\ index' = index
        /\ waited' = waited + 1
    BY <1>10 DEF Wait
  <2>2. StepsLeft(pc', waited') < StepsLeft(pc, waited)
    BY <1>1, <2>1, StepsLeftIs
  <2> QED BY <2>1, <2>2, SameEndpoint
<1>11. CASE Resolved
  <2>1. pc = "resolve" /\ pc' \in {"open", "next"} /\ index' = index
    BY <1>11 DEF Resolved
  <2>2. StepsLeft(pc', waited') < StepsLeft(pc, waited)
    BY <1>1, <2>1, StepsLeftIs
  <2> QED BY <2>1, <2>2, SameEndpoint
<1>12. CASE Open
  <2>1. pc = "open" /\ pc' = "transfer" /\ waited' = 0 /\ index' = index
    BY <1>12 DEF Open, Goto
  <2>2. StepsLeft(pc', waited') < StepsLeft(pc, waited)
    BY <1>1, <2>1, StepsLeftIs
  <2> QED BY <2>1, <2>2, SameEndpoint
<1>13. CASE StopWaiting
  <2>1. pc = "transfer" /\ pc' = "close" /\ index' = index
    BY <1>13 DEF StopWaiting, Goto
  <2>2. StepsLeft(pc', waited') < StepsLeft(pc, waited)
    BY <1>1, <2>1, StepsLeftIs
  <2> QED BY <2>1, <2>2, SameEndpoint
<1>14. CASE Close
  <2>1. pc = "close" /\ pc' = "evaluate" /\ index' = index
    BY <1>14 DEF Close, Goto
  <2>2. StepsLeft(pc', waited') < StepsLeft(pc, waited)
    BY <1>1, <2>1, StepsLeftIs
  <2> QED BY <2>1, <2>2, SameEndpoint
<1>15. CASE Evaluate
  <2>1. pc = "evaluate" /\ pc' \in {"idle", "next"} /\ index' = index
    BY <1>15 DEF Evaluate
  <2>2. pc' # "idle" => StepsLeft(pc', waited') < StepsLeft(pc, waited)
    BY <1>1, <2>1, StepsLeftIs
  <2> QED BY <1>4, <2>1, <2>2, SameEndpoint
<1> QED BY <1>5, <1>6, <1>7, <1>8, <1>9, <1>10, <1>11, <1>12,
           <1>13, <1>14, <1>15 DEF Get

(* captive_portal_check does a bounded amount of work, whatever lwIP and    *)
(* the servers do: the part of its promise to return that is about safety.  *)
THEOREM WorkIsBounded == Spec => BoundedWork
<1>1. TypeOK /\ TypeOK' /\ [Next]_vars
        => [/\ Rank' \in 0 .. Last * (10 + 2 * Polls)
            /\ Get => Rank' < Rank
            /\ LwIP => Rank' = Rank]_vars
  <2> SUFFICES ASSUME TypeOK, TypeOK'
               PROVE  /\ Rank' \in 0 .. Last * (10 + 2 * Polls)
                      /\ Get => Rank' < Rank
                      /\ LwIP => Rank' = Rank
    OBVIOUS
  <2>1. Rank' \in 0 .. Last * (10 + 2 * Polls)
    <3>1. (TypeOK => Rank \in 0 .. Last * (10 + 2 * Polls))'
      BY RankBounded, PTL
    <3> QED BY <3>1
  <2>2. LwIP => UNCHANGED caller
    BY DEF LwIP, DnsResult, Connected, Receive, Finish, Fail, Free
  <2>3. UNCHANGED caller => Rank' = Rank
    BY DEF caller, Rank
  <2> QED BY <2>1, <2>2, <2>3, GetDescends
<1> QED BY <1>1, TypeCorrect, PTL DEF Spec, BoundedWork
=============================================================================
