------------------------- MODULE WifiConnectProofs -------------------------
(***************************************************************************)
(* Theorems about wifi_connect, for any networks, any room of the list and  *)
(* any time-out.                                                            *)
(*                                                                          *)
(* The inductive invariant has, beside typing (which needs Aimed), three    *)
(* parts.                                                                   *)
(*   DriverInv  where in the call the driver is up, who holds the scan      *)
(*              call-back and when a probe is under way.  DriverOwned is    *)
(*              inductive only with it: the path that ends a call knows     *)
(*              that the driver is up because every step since its set-up   *)
(*              left it so.                                                 *)
(*   ListInv    the list has no network twice (it has as many members as    *)
(*              places), drops one only when full, and the loop has tried   *)
(*              what lies before its index.                                 *)
(*   AimInv     what has been joined and tried is what the configuration,   *)
(*              or the scan, named.                                         *)
(***************************************************************************)
EXTENDS WifiConnect, FiniteSetTheorems, TLAPS

(* The first k places of the list, and all of it. *)
Before(k) == {ssids[i] : i \in 1 .. k}

Listing == Before(Len(ssids))

DriverInv ==
  /\ pc \in {"idle", "init"} => (driver <=> ready)
  /\ pc = "init" => ~ready
  /\ pc \notin {"idle", "init"} => driver /\ ~ready
  /\ scanning => pc \in {"wait", "judge"} /\ ~complete
  /\ complete => pc \in {"wait", "judge", "next", "probe_next"}
  /\ asking <=> pc \in {"probe", "probe_next"}

AimInv ==
  /\ pc \in {"join", "probe"} => Configured
  /\ pc \in {"scan", "wait", "judge", "next", "probe_next"} => ~Configured
  /\ pc = "probe" => /\ joined \in {config.ssid, None}
                     /\ config.ssid \in tried
  /\ pc = "probe_next" => joined \in heard \union {None}

ListInv ==
  /\ Listing \subseteq heard
  /\ Cardinality(Listing) = Len(ssids)
  /\ heard # Listing => Len(ssids) = MaxSsids
  /\ pc \in {"idle", "init", "join", "probe", "scan"} => ssids = <<>> /\ heard = {}
  /\ pc \in {"idle", "init", "join", "scan", "wait", "judge"}
       => index = 1 /\ tried = {}
  /\ pc = "next" => /\ index <= Len(ssids) + 1
                    /\ tried = Before(index - 1)
  /\ pc = "probe_next" => /\ index <= Len(ssids)
                          /\ tried = Before(index)

-----------------------------------------------------------------------------
LEMMA FirstValues ==
  /\ <<>> \in Seq(Networks) /\ Len(<<>>) <= MaxSsids
  /\ 1 \in 1 .. MaxSsids + 1 /\ 0 \in 0 .. ScanPolls
BY WifiAssumption

LEMMA InitTyped == Init => TypeOK
BY FirstValues DEF Init, Check!Init, TypeOK

LEMMA ReturnTyped ==
  ASSUME NEW r \in BOOLEAN, Return(r)
  PROVE  /\ pc' = "idle" /\ ready' \in BOOLEAN /\ complete' \in BOOLEAN
         /\ ssids' \in Seq(Networks) /\ Len(ssids') <= MaxSsids
         /\ index' \in 1 .. MaxSsids + 1 /\ waited' \in 0 .. ScanPolls
         /\ heard' \subseteq Networks /\ tried' \subseteq Networks
BY FirstValues DEF Return

(* Typing needs to know that only a configured network is joined by name,   *)
(* and that a probe in the loop is about a network of the list.             *)
Aimed ==
  /\ pc = "join" => Configured
  /\ pc = "probe_next" => index <= Len(ssids)

LEMMA StepAimed == TypeOK /\ Aimed /\ [Next]_vars => Aimed'
<1> SUFFICES ASSUME TypeOK, Aimed, [Next]_vars PROVE Aimed'
  OBVIOUS
<1> USE DEF Aimed, Configured, scan, Locals
<1>1. ASSUME NEW n \in Networks, ScanResult(n) PROVE Aimed'
  <2>1. ssids' = ssids \/ ssids' = Append(ssids, n)
    BY <1>1 DEF ScanResult, Listed
  <2>2. Len(ssids) <= Len(ssids') /\ UNCHANGED <<pc, config, index>>
    BY <1>1, <2>1 DEF ScanResult, TypeOK
  <2>3. Len(ssids) \in Nat /\ Len(ssids') \in Nat /\ index \in Nat
    BY <2>1, WifiAssumption DEF TypeOK
  <2> QED BY <2>2, <2>3
<1>2. CASE LeaveAlone \/ Call \/ InitialiseStack \/ JoinFails \/ JoinSucceeds
             \/ ProbeAnswers \/ StartScan \/ WaitForScan \/ JudgeScan
  BY <1>2 DEF vars, LeaveAlone, Call, InitialiseStack, JoinFails, JoinSucceeds,
         ProbeAnswers, StartScan, WaitForScan, JudgeScan, GiveUp, Succeed, Return
<1>3. CASE NextFails \/ NextSucceeds \/ NextAnswers \/ NoneLeft
  BY <1>3 DEF NextFails, NextSucceeds, NextAnswers, NoneLeft, GiveUp, Succeed,
              Return
<1>4. CASE ScanComplete \/ SendDhcp \/ LinkLost \/ UNCHANGED vars
  BY <1>4 DEF ScanComplete, SendDhcp, LinkLost, vars
<1> QED BY <1>1, <1>2, <1>3, <1>4 DEF Next, Connect, Driver

LEMMA GiveUpTyped ==
  ASSUME TypeOK, GiveUp, UNCHANGED config,
         asking' \in BOOLEAN, verdict' \in {"none", "online", "portal"}
  PROVE  TypeOK'
<1>1. Return(FALSE)
  BY DEF GiveUp
<1> QED BY <1>1, ReturnTyped DEF GiveUp, Deinit, TypeOK

LEMMA SucceedTyped ==
  ASSUME TypeOK, DriverStays, Return(TRUE) \/ Return(FALSE),
         UNCHANGED <<config, announced>>,
         asking' \in BOOLEAN, verdict' \in {"none", "online", "portal"}
  PROVE  TypeOK'
BY ReturnTyped DEF DriverStays, TypeOK

LEMMA StepTyped == TypeOK /\ Aimed /\ [Next]_vars => TypeOK'
<1> SUFFICES ASSUME TypeOK, Aimed, [Next]_vars PROVE TypeOK'
  OBVIOUS
<1> USE DEF Locals, scan, naming, probe, history
<1>1. CASE UNCHANGED vars
  BY <1>1 DEF vars, TypeOK
<1>2. CASE Call
  BY <1>2 DEF Call, TypeOK
<1>3. CASE InitialiseStack
  <2>1. CASE DriverStays /\ Return(FALSE)
    BY <1>3, <2>1, SucceedTyped DEF InitialiseStack, TypeOK
  <2>2. CASE ~(DriverStays /\ Return(FALSE))
    BY <1>3, <2>2 DEF InitialiseStack, TypeOK
  <2> QED BY <2>1, <2>2
<1>4. CASE JoinFails
  BY <1>4, GiveUpTyped DEF JoinFails, TypeOK
<1>5. CASE JoinSucceeds
  <2>1. CASE config.password
    <3>1. Return(TRUE)
      BY <1>5, <2>1 DEF JoinSucceeds
    <3> QED BY <1>5, <2>1, <3>1, ReturnTyped DEF JoinSucceeds, TypeOK, Configs
  <2>2. CASE ~config.password
    <3>1. Check!Ask /\ pc' = "probe" /\ tried' = tried \union {config.ssid}
      BY <1>5, <2>2 DEF JoinSucceeds
    <3>2. config.ssid \in Networks
      BY <1>5 DEF JoinSucceeds, Aimed, Configured, TypeOK, Configs
    <3> QED BY <1>5, <2>2, <3>1, <3>2 DEF JoinSucceeds, Check!Ask, TypeOK
  <2> QED BY <2>1, <2>2
<1>6. CASE ProbeAnswers
  <2>1. CASE Check!Answer("online") /\ Succeed
    BY <1>6, <2>1, SucceedTyped DEF ProbeAnswers, Succeed, Check!Answer
  <2>2. CASE Check!Answer("portal") /\ GiveUp
    BY <1>6, <2>2, GiveUpTyped DEF ProbeAnswers, Check!Answer
  <2> QED BY <1>6, <2>1, <2>2 DEF ProbeAnswers
<1>7. CASE StartScan
  <2>1. CASE GiveUp
    BY <1>7, <2>1, GiveUpTyped DEF StartScan, TypeOK
  <2>2. CASE ~GiveUp
    BY <1>7, <2>2 DEF StartScan, TypeOK
  <2> QED BY <2>1, <2>2
<1>8. CASE WaitForScan
  BY <1>8, WifiAssumption DEF WaitForScan, TypeOK
<1>9. CASE JudgeScan
  <2>1. CASE complete
    BY <1>9, <2>1 DEF JudgeScan, TypeOK
  <2>2. CASE ~complete
    BY <1>9, <2>2, GiveUpTyped DEF JudgeScan, TypeOK
  <2> QED BY <2>1, <2>2
<1>10. CASE NextFails
  BY <1>10, WifiAssumption DEF NextFails, TypeOK
<1>11. CASE NextSucceeds
  BY <1>11 DEF NextSucceeds, Check!Ask, TypeOK
<1>12. CASE NextAnswers
  <2>1. CASE Check!Answer("online") /\ Succeed
    BY <1>12, <2>1, SucceedTyped DEF NextAnswers, Succeed, Check!Answer
  <2>2. CASE Check!Answer("portal")
    <3>1. pc' = "next" /\ index' = index + 1
      BY <1>12, <2>2 DEF NextAnswers, Check!Answer
    <3>2. index + 1 \in 1 .. MaxSsids + 1
      BY <1>12, WifiAssumption DEF NextAnswers, Aimed, TypeOK
    <3> QED BY <1>12, <2>2, <3>1, <3>2 DEF NextAnswers, Check!Answer, TypeOK
  <2> QED BY <1>12, <2>1, <2>2 DEF NextAnswers
<1>13. CASE NoneLeft
  BY <1>13, GiveUpTyped DEF NoneLeft, TypeOK
<1>14. ASSUME NEW n \in Networks, ScanResult(n) PROVE TypeOK'
  <2>1. ssids' \in Seq(Networks) /\ Len(ssids') <= MaxSsids
    BY <1>14, WifiAssumption DEF ScanResult, Listed, TypeOK
  <2> QED BY <1>14, <2>1 DEF ScanResult, TypeOK
<1>15. CASE ScanComplete
  BY <1>15 DEF ScanComplete, TypeOK
<1>16. CASE SendDhcp
  BY <1>16 DEF SendDhcp, TypeOK
<1>17. CASE LinkLost
  BY <1>17 DEF LinkLost, TypeOK
<1>18. CASE LeaveAlone
  BY <1>1, <1>18 DEF LeaveAlone
<1> QED BY <1>1, <1>2, <1>3, <1>4, <1>5, <1>6, <1>7, <1>8, <1>9, <1>10, <1>11,
           <1>12, <1>13, <1>14, <1>15, <1>16, <1>17, <1>18
        DEF Next, Connect, Driver

(* The list keeps to its room and the other variables to their types. *)
THEOREM TypeCorrect == Spec => []TypeOK
<1>1. Init => Aimed
  BY DEF Init, Aimed
<1> QED BY <1>1, InitTyped, StepTyped, StepAimed, PTL DEF Spec
-----------------------------------------------------------------------------
LEMMA StepDriver == TypeOK /\ DriverInv /\ [Next]_vars => DriverInv'
<1> SUFFICES ASSUME TypeOK, DriverInv, [Next]_vars PROVE DriverInv'
  OBVIOUS
<1> USE DEF DriverInv, Locals, scan, probe
<1>1. CASE LeaveAlone \/ Call \/ UNCHANGED vars
  BY <1>1 DEF LeaveAlone, Call, vars
<1>2. CASE InitialiseStack
  BY <1>2 DEF InitialiseStack, DriverStays, Return
<1>3. CASE JoinFails
  BY <1>3 DEF JoinFails, GiveUp, Deinit, Return
<1>4. CASE JoinSucceeds
  <2>1. CASE config.password
    BY <1>4, <2>1 DEF JoinSucceeds, Return
  <2>2. CASE ~config.password
    BY <1>4, <2>2 DEF JoinSucceeds, Check!Ask
  <2> QED BY <2>1, <2>2
<1>5. CASE ProbeAnswers
  <2>1. CASE Check!Answer("online") /\ Succeed
    BY <1>5, <2>1 DEF ProbeAnswers, Check!Answer, Succeed, DriverStays, Return
  <2>2. CASE Check!Answer("portal") /\ GiveUp
    BY <1>5, <2>2 DEF ProbeAnswers, Check!Answer, GiveUp, Deinit, Return
  <2> QED BY <1>5, <2>1, <2>2 DEF ProbeAnswers
<1>6. CASE StartScan
  <2>1. CASE GiveUp
    <3>1. pc = "scan" /\ UNCHANGED asking
      BY <1>6 DEF StartScan
    <3> QED BY <2>1, <3>1 DEF GiveUp, Deinit, Return
  <2>2. CASE ~GiveUp
    <3>1. /\ pc = "scan" /\ pc' = "wait" /\ scanning' = TRUE
          /\ UNCHANGED <<ready, driver, complete, asking>>
      BY <1>6, <2>2 DEF StartScan
    <3> QED BY <3>1
  <2> QED BY <2>1, <2>2
<1>7. CASE WaitForScan
  BY <1>7 DEF WaitForScan, TypeOK
<1>8. CASE JudgeScan
  BY <1>8 DEF JudgeScan, GiveUp, Deinit, Return
<1>9. CASE NextFails \/ NextSucceeds
  BY <1>9 DEF NextFails, NextSucceeds, Check!Ask
<1>10. CASE NextAnswers
  <2>1. CASE Check!Answer("online") /\ Succeed
    BY <1>10, <2>1 DEF NextAnswers, Check!Answer, Succeed, DriverStays, Return
  <2>2. CASE Check!Answer("portal")
    BY <1>10, <2>2 DEF NextAnswers, Check!Answer
  <2> QED BY <1>10, <2>1, <2>2 DEF NextAnswers
<1>11. CASE NoneLeft
  BY <1>11 DEF NoneLeft, GiveUp, Deinit, Return
<1>12. CASE Driver
  BY <1>12 DEF Driver, ScanResult, ScanComplete, SendDhcp, LinkLost
<1> QED BY <1>1, <1>2, <1>3, <1>4, <1>5, <1>6, <1>7, <1>8, <1>9, <1>10, <1>11,
           <1>12 DEF Next, Connect

LEMMA DriverInvariant == Spec => []DriverInv
<1>1. Init => DriverInv
  BY DEF Init, Check!Init, DriverInv
<1> QED BY <1>1, StepDriver, TypeCorrect, PTL DEF Spec

(* Between two calls the driver is set up exactly if the last one           *)
(* succeeded, and it holds the address of wifi_scan_state_t only while      *)
(* wifi_connect_via_scan waits (the calls of cyw43_arch_deinit).            *)
THEOREM DriverIsOwned == Spec => []DriverOwned
<1>1. DriverInv => DriverOwned
  BY DEF DriverInv, DriverOwned
<1> QED BY <1>1, DriverInvariant, PTL
-----------------------------------------------------------------------------
(***************************************************************************)
(* The list.                                                                *)
(***************************************************************************)
LEMMA EmptyListing ==
  ASSUME ssids' = <<>>
  PROVE  Listing' = {} /\ Len(ssids') = 0 /\ Cardinality(Listing') = 0
<1>1. Listing' = {}
  BY DEF Listing, Before
<1> QED BY <1>1, FS_EmptySet

LEMMA LongerListing ==
  ASSUME TypeOK, NEW n \in Networks, ssids' = Append(ssids, n)
  PROVE  Listing' = Listing \union {n}
<1>1. ssids' \in Seq(Networks) /\ Len(ssids') = Len(ssids) + 1 /\ Len(ssids) \in Nat
  BY DEF TypeOK
<1>2. \A i \in 1 .. Len(ssids) : ssids'[i] = ssids[i]
  BY DEF TypeOK
<1>3. ssids'[Len(ssids) + 1] = n
  BY DEF TypeOK
<1> QED BY <1>1, <1>2, <1>3 DEF Listing, Before

LEMMA ListingFinite == TypeOK => IsFiniteSet(Listing) /\ IsFiniteSet(heard)
<1> SUFFICES ASSUME TypeOK PROVE IsFiniteSet(Listing) /\ IsFiniteSet(heard)
  OBVIOUS
<1>1. Listing \in SUBSET Networks /\ heard \in SUBSET Networks
  BY DEF TypeOK, Listing, Before
<1> QED BY <1>1, FS_Subset, WifiAssumption

(* A call that ends leaves the list empty for the next one. *)
LEMMA ReturnKeepsList == ASSUME NEW r, Return(r) PROVE ListInv'
<1>1. Listing' = {} /\ Len(ssids') = 0 /\ Cardinality(Listing') = 0
  BY EmptyListing DEF Return
<1> QED BY <1>1 DEF Return, ListInv

LEMMA SameList ==
  ASSUME ListInv, UNCHANGED <<pc, ssids, heard, tried, index>> PROVE ListInv'
<1>1. /\ Listing' = Listing
      /\ Before(index)' = Before(index) /\ Before(index - 1)' = Before(index - 1)
  BY DEF Before, Listing
<1> QED BY <1>1 DEF ListInv

(* wifi_scan_result_cb: the network is not open, is listed already, is      *)
(* listed now, or finds no room.                                            *)
LEMMA ScanResultKeepsList ==
  ASSUME TypeOK, DriverInv, ListInv, NEW n \in Networks, ScanResult(n)
  PROVE  ListInv'
<1>1. pc \in {"wait", "judge"} /\ pc' = pc /\ index' = index /\ tried' = tried
  BY DEF ScanResult, DriverInv
<1>2. heard' = heard \union ({n} \intersect OpenOnes)
  BY DEF ScanResult
<1>3. CASE n \in OpenOnes /\ Len(ssids) < MaxSsids
           /\ \A i \in DOMAIN ssids : ssids[i] # n
  <2>1. ssids' = Append(ssids, n) /\ heard' = heard \union {n}
    BY <1>2, <1>3 DEF ScanResult, Listed
  <2>2. Listing' = Listing \union {n}
    BY <2>1, LongerListing
  <2>3. n \notin Listing
    BY <1>3 DEF Listing, Before, TypeOK
  <2>4. Cardinality(Listing') = Cardinality(Listing) + 1
    BY <2>2, <2>3, FS_AddElement, ListingFinite
  <2>5. Len(ssids') = Len(ssids) + 1
    BY <2>1 DEF TypeOK
  <2>6. heard = Listing
    BY <1>3, WifiAssumption DEF ListInv, TypeOK
  <2> QED BY <1>1, <2>1, <2>2, <2>4, <2>5, <2>6 DEF ListInv
<1>4. CASE n \notin OpenOnes \/ \E i \in DOMAIN ssids : ssids[i] = n
  <2>1. ssids' = ssids
    <3>1. CASE n \notin OpenOnes
      BY <3>1 DEF ScanResult, Listed
    <3>2. CASE \E i \in DOMAIN ssids : ssids[i] = n
      BY <3>2 DEF ScanResult, Listed
    <3> QED BY <1>4, <3>1, <3>2
  <2>2. n \in OpenOnes => n \in heard
    <3> SUFFICES ASSUME n \in OpenOnes PROVE n \in heard
      OBVIOUS
    <3>1. PICK i \in DOMAIN ssids : ssids[i] = n
      BY <1>4
    <3>2. i \in 1 .. Len(ssids)
      BY DEF TypeOK
    <3>3. n \in Listing
      BY <3>1, <3>2 DEF Listing, Before
    <3> QED BY <3>3 DEF ListInv
  <2>3. heard' = heard
    BY <1>2, <2>2
  <2> QED BY <1>1, <2>1, <2>3, SameList
<1>5. CASE Len(ssids) = MaxSsids
  <2>1. ssids' = ssids
    BY <1>5, WifiAssumption DEF ScanResult, Listed, TypeOK
  <2>2. Listing' = Listing
    BY <2>1 DEF Listing, Before
  <2> QED BY <1>1, <1>2, <1>5, <2>1, <2>2 DEF ListInv
<1>6. Len(ssids) < MaxSsids \/ Len(ssids) = MaxSsids
  BY WifiAssumption DEF TypeOK
<1> QED BY <1>3, <1>4, <1>5, <1>6

LEMMA StepList == TypeOK /\ DriverInv /\ ListInv /\ [Next]_vars => ListInv'
<1> SUFFICES ASSUME TypeOK, DriverInv, ListInv, [Next]_vars PROVE ListInv'
  OBVIOUS
<1> USE DEF Locals, scan, history
<1>1. ASSUME NEW r, Return(r) PROVE ListInv'
  BY <1>1, ReturnKeepsList
<1>2. CASE UNCHANGED <<pc, ssids, heard, tried, index>>
  BY <1>2, SameList
<1>3. CASE Call \/ InitialiseStack \/ JoinFails
  BY <1>1, <1>3 DEF Call, InitialiseStack, JoinFails, GiveUp, ListInv, Listing,
                    Before
<1>4. CASE JoinSucceeds \/ ProbeAnswers
  BY <1>1, <1>4 DEF JoinSucceeds, ProbeAnswers, Succeed, GiveUp, ListInv,
                    Listing, Before
<1>5. CASE StartScan \/ WaitForScan
  BY <1>1, <1>5 DEF StartScan, WaitForScan, GiveUp, ListInv, Listing, Before
<1>6. CASE JudgeScan
  <2>1. CASE complete
    <3>1. UNCHANGED <<ssids, heard, tried, index>> /\ pc = "judge" /\ pc' = "next"
      BY <1>6, <2>1 DEF JudgeScan
    <3>2. index' = 1 /\ tried' = {} /\ Len(ssids') \in Nat
      BY <3>1 DEF ListInv, TypeOK
    <3>3. Listing' = Listing
      BY <3>1 DEF Listing, Before
    <3>4. Before(index - 1)' = {}
      BY <3>2 DEF Before
    <3> QED BY <3>1, <3>2, <3>3, <3>4 DEF ListInv
  <2> QED BY <1>1, <1>6, <2>1 DEF JudgeScan, GiveUp
<1>7. CASE NextFails
  <2>1. /\ pc = "next" /\ pc' = "next" /\ UNCHANGED <<ssids, heard>>
        /\ index <= Len(ssids) /\ index' = index + 1
        /\ tried' = tried \union {ssids[index]}
    BY <1>7 DEF NextFails
  <2>2. index \in Nat \ {0} /\ Len(ssids) \in Nat /\ index' - 1 = index
    BY <2>1 DEF TypeOK
  <2>3. tried' = Before(index)
    BY <2>1, <2>2 DEF ListInv, Before
  <2>4. Before(index - 1)' = Before(index) /\ Listing' = Listing
    BY <2>1, <2>2 DEF Before, Listing
  <2> QED BY <2>1, <2>2, <2>3, <2>4 DEF ListInv
<1>8. CASE NextSucceeds
  <2>1. /\ pc = "next" /\ pc' = "probe_next" /\ UNCHANGED <<ssids, heard, index>>
        /\ index <= Len(ssids) /\ tried' = tried \union {ssids[index]}
    BY <1>8 DEF NextSucceeds
  <2>2. index \in Nat \ {0} /\ Len(ssids) \in Nat
    BY DEF TypeOK
  <2>3. tried' = Before(index)
    BY <2>1, <2>2 DEF ListInv, Before
  <2>4. Before(index)' = Before(index) /\ Listing' = Listing
    BY <2>1 DEF Before, Listing
  <2> QED BY <2>1, <2>2, <2>3, <2>4 DEF ListInv
<1>9. CASE NextAnswers
  <2>1. CASE pc' = "next" /\ index' = index + 1 /\ UNCHANGED <<ssids, heard, tried>>
    <3>1. /\ pc = "probe_next" /\ index \in Nat \ {0} /\ Len(ssids) \in Nat
          /\ index' - 1 = index
      BY <1>9, <2>1 DEF NextAnswers, TypeOK
    <3>2. Before(index - 1)' = Before(index) /\ Listing' = Listing
      BY <2>1, <3>1 DEF Before, Listing
    <3> QED BY <2>1, <3>1, <3>2 DEF ListInv
  <2> QED BY <1>1, <1>9, <2>1 DEF NextAnswers, Succeed
<1>10. CASE NoneLeft
  BY <1>1, <1>10 DEF NoneLeft, GiveUp
<1>11. ASSUME NEW n \in Networks, ScanResult(n) PROVE ListInv'
  BY <1>11, ScanResultKeepsList
<1>12. CASE ScanComplete \/ SendDhcp \/ LinkLost \/ LeaveAlone \/ UNCHANGED vars
  BY <1>2, <1>12 DEF ScanComplete, SendDhcp, LinkLost, LeaveAlone, vars
<1> QED BY <1>3, <1>4, <1>5, <1>6, <1>7, <1>8, <1>9, <1>10, <1>11, <1>12
        DEF Next, Connect, Driver

LEMMA ListInvariant == Spec => []ListInv
<1>1. Init => ListInv
  <2> SUFFICES ASSUME Init PROVE ListInv
    OBVIOUS
  <2>1. Listing = {} /\ Len(ssids) = 0
    BY DEF Init, Listing, Before
  <2> QED BY <2>1, FS_EmptySet DEF Init, ListInv
<1> QED BY <1>1, StepList, TypeCorrect, DriverInvariant, PTL DEF Spec

(* A scan that ends without a network has tried every open one it heard, or *)
(* as many as there is room for (wifi_scan_result_cb and the loop over its  *)
(* list).                                                                   *)
THEOREM NoNetworkMissed == Spec => EveryNetworkTried
<1> DEFINE A == pc = "next" /\ pc' = "idle" /\ ~ready' /\ driver
                 => \/ tried = heard
                    \/ Cardinality(heard) > MaxSsids /\ Cardinality(tried) = MaxSsids
<1>1. TypeOK /\ ListInv /\ [Next]_vars => [A]_vars
  <2> SUFFICES ASSUME TypeOK, ListInv, Next, pc = "next", pc' = "idle"
               PROVE  \/ tried = heard
                      \/ /\ Cardinality(heard) > MaxSsids
                         /\ Cardinality(tried) = MaxSsids
    OBVIOUS
  <2>1. NoneLeft
    BY DEF Next, Connect, Driver, LeaveAlone, vars, Call, InitialiseStack,
           JoinFails, JoinSucceeds, ProbeAnswers, StartScan, WaitForScan,
           JudgeScan, NextFails, NextSucceeds, NextAnswers, ScanResult,
           ScanComplete, SendDhcp, LinkLost
  <2>2. index - 1 = Len(ssids)
    BY <2>1 DEF NoneLeft, ListInv, TypeOK
  <2>3. tried = Listing
    BY <2>2 DEF ListInv, Listing
  <2>4. CASE heard # Listing
    <3>1. Cardinality(Listing) = MaxSsids /\ Listing \in SUBSET heard
      BY <2>4 DEF ListInv
    <3>2. /\ Cardinality(Listing) <= Cardinality(heard)
          /\ Cardinality(heard) = Cardinality(Listing) => heard = Listing
          /\ Cardinality(heard) \in Nat
      BY <3>1, FS_Subset, FS_CardinalityType, ListingFinite
    <3> QED BY <2>3, <2>4, <3>1, <3>2, WifiAssumption
  <2> QED BY <2>3, <2>4
<1> QED BY <1>1, TypeCorrect, ListInvariant, PTL DEF Spec, EveryNetworkTried
-----------------------------------------------------------------------------
LEMMA StepAim ==
  TypeOK /\ DriverInv /\ ListInv /\ AimInv /\ [Next]_vars => AimInv'
<1> SUFFICES ASSUME TypeOK, DriverInv, ListInv, AimInv, [Next]_vars
             PROVE  AimInv'
  OBVIOUS
<1> USE DEF AimInv, Configured, Locals, scan, naming, history
<1>1. CASE LeaveAlone \/ Call \/ InitialiseStack \/ UNCHANGED vars
  BY <1>1 DEF LeaveAlone, Call, InitialiseStack, Return, vars
<1>2. CASE JoinFails \/ JoinSucceeds \/ ProbeAnswers
  BY <1>2 DEF JoinFails, JoinSucceeds, ProbeAnswers, GiveUp, Succeed, Return
<1>3. CASE StartScan \/ WaitForScan \/ JudgeScan
  BY <1>3 DEF StartScan, WaitForScan, JudgeScan, GiveUp, Return
<1>4. CASE NextFails \/ NextAnswers \/ NoneLeft
  BY <1>4 DEF NextFails, NextAnswers, NoneLeft, GiveUp, Succeed, Return
<1>5. CASE NextSucceeds
  <2>1. ssids[index] \in Listing
    BY <1>5 DEF NextSucceeds, Listing, Before, TypeOK
  <2> QED BY <1>5, <2>1 DEF NextSucceeds, ListInv
<1>6. CASE Driver
  BY <1>6 DEF Driver, ScanResult, ScanComplete, SendDhcp, LinkLost
<1> QED BY <1>1, <1>2, <1>3, <1>4, <1>5, <1>6 DEF Next, Connect

LEMMA AimInvariant == Spec => []AimInv
<1>1. Init => AimInv
  BY DEF Init, AimInv
<1> QED BY <1>1, StepAim, TypeCorrect, DriverInvariant, ListInvariant, PTL DEF Spec

(* wifi_connect returns TRUE only for the network asked for, if there is    *)
(* one, and for an open network only if it was probed after it was joined.  *)
THEOREM ConnectIsHonest == Spec => Honest
<1> DEFINE A == pc # "idle" /\ pc' = "idle" /\ ready'
         => IF Configured
            THEN joined' \in {config.ssid, None}
                 /\ (~config.password
                       => verdict' = "online" /\ config.ssid \in tried)
            ELSE verdict' = "online" /\ joined' \in heard \union {None}
<1>1. DriverInv /\ AimInv /\ [Next]_vars => [A]_vars
  <2> SUFFICES ASSUME DriverInv, AimInv, Next, pc # "idle", pc' = "idle", ready'
               PROVE  A
    OBVIOUS
  <2>1. CASE JoinSucceeds
    BY <2>1 DEF JoinSucceeds, AimInv
  <2>2. CASE ProbeAnswers
    BY <2>2 DEF ProbeAnswers, GiveUp, Succeed, Return, DriverStays,
                Check!Answer, AimInv
  <2>3. CASE NextAnswers
    BY <2>3 DEF NextAnswers, Succeed, DriverStays, Check!Answer, AimInv
  <2>4. JoinSucceeds \/ ProbeAnswers \/ NextAnswers
    BY DEF Next, Connect, Driver, LeaveAlone, Call, InitialiseStack, JoinFails,
           StartScan, WaitForScan, JudgeScan, NextFails, NextSucceeds, NoneLeft,
           GiveUp, Return, ScanResult, ScanComplete, SendDhcp, LinkLost
  <2> QED BY <2>1, <2>2, <2>3, <2>4
<1> QED BY <1>1, DriverInvariant, AimInvariant, PTL DEF Spec, Honest
-----------------------------------------------------------------------------
(* How many steps wifi_connect still has to take at position p, after w     *)
(* polls of the scan and at place i of the list, if nothing is cut short.   *)
(* The whole room of the list is counted: it may fill up during the scan.   *)
StepsLeft(p, w, i) ==
  [init |-> 2 * MaxSsids + ScanPolls + 5, join |-> 2, probe |-> 1,
   scan |-> 2 * MaxSsids + ScanPolls + 4,
   wait |-> 2 * MaxSsids + (ScanPolls - w) + 3, judge |-> 2 * MaxSsids + 2,
   next |-> 2 * (MaxSsids + 1 - i) + 1, probe_next |-> 2 * (MaxSsids + 1 - i),
   idle |-> 0][p]

Rank == StepsLeft(pc, waited, index)

(* Every step of wifi_connect brings its return nearer, and nothing the     *)
(* driver or lwIP does puts it off.                                         *)
BoundedWork ==
  [][/\ Rank' \in 0 .. 2 * MaxSsids + ScanPolls + 5
     /\ Connect => Rank' < Rank
     /\ Driver => Rank' = Rank]_vars

LEMMA StepsLeftIs ==
  ASSUME NEW w, NEW i
  PROVE  /\ StepsLeft("init", w, i) = 2 * MaxSsids + ScanPolls + 5
         /\ StepsLeft("join", w, i) = 2 /\ StepsLeft("probe", w, i) = 1
         /\ StepsLeft("scan", w, i) = 2 * MaxSsids + ScanPolls + 4
         /\ StepsLeft("wait", w, i) = 2 * MaxSsids + (ScanPolls - w) + 3
         /\ StepsLeft("judge", w, i) = 2 * MaxSsids + 2
         /\ StepsLeft("next", w, i) = 2 * (MaxSsids + 1 - i) + 1
         /\ StepsLeft("probe_next", w, i) = 2 * (MaxSsids + 1 - i)
         /\ StepsLeft("idle", w, i) = 0
BY DEF StepsLeft

LEMMA RankBounded == TypeOK => Rank \in 0 .. 2 * MaxSsids + ScanPolls + 5
<1> SUFFICES ASSUME TypeOK PROVE Rank \in 0 .. 2 * MaxSsids + ScanPolls + 5
  OBVIOUS
<1>1. /\ MaxSsids \in Nat /\ ScanPolls \in Nat
      /\ waited \in 0 .. ScanPolls /\ index \in 1 .. MaxSsids + 1
  BY WifiAssumption DEF TypeOK
<1>2. pc \in {"idle", "init", "join", "probe", "scan", "wait", "judge", "next",
             "probe_next"}
  BY DEF TypeOK
<1> QED BY <1>1, <1>2, StepsLeftIs DEF Rank

LEMMA ConnectDescends ==
  TypeOK /\ TypeOK' /\ Aimed /\ Connect => Rank' < Rank
<1> SUFFICES ASSUME TypeOK, TypeOK', Aimed, Connect PROVE Rank' < Rank
  OBVIOUS
<1>1. /\ MaxSsids \in Nat /\ ScanPolls \in Nat
      /\ waited \in 0 .. ScanPolls /\ waited' \in 0 .. ScanPolls
      /\ index \in 1 .. MaxSsids + 1 /\ index' \in 1 .. MaxSsids + 1
  BY WifiAssumption DEF TypeOK
<1>2. Rank' = StepsLeft(pc', waited', index')
  BY DEF Rank
<1>3. Len(ssids) \in Nat /\ Len(ssids) <= MaxSsids
  BY DEF TypeOK
<1>4. CASE InitialiseStack
  <2>1. /\ pc = "init"
        /\ \/ pc' = "idle"
           \/ pc' \in {"join", "scan"} /\ waited' = waited
    BY <1>4 DEF InitialiseStack, Return, Locals
  <2> QED BY <1>1, <1>2, <2>1, StepsLeftIs DEF Rank
<1>5. CASE JoinFails
  <2>1. pc = "join" /\ pc' = "idle"
    BY <1>5 DEF JoinFails, GiveUp, Return
  <2> QED BY <1>1, <1>2, <2>1, StepsLeftIs DEF Rank
<1>6. CASE JoinSucceeds
  <2>1. /\ pc = "join"
        /\ \/ pc' = "idle"
           \/ pc' = "probe"
    BY <1>6 DEF JoinSucceeds, Return
  <2> QED BY <1>1, <1>2, <2>1, StepsLeftIs DEF Rank
<1>7. CASE ProbeAnswers
  <2>1. pc = "probe" /\ pc' = "idle"
    BY <1>7 DEF ProbeAnswers, Succeed, GiveUp, Return
  <2> QED BY <1>1, <1>2, <2>1, StepsLeftIs DEF Rank
<1>8. CASE StartScan
  <2>1. /\ pc = "scan"
        /\ \/ pc' = "idle"
           \/ pc' = "wait" /\ waited' = waited
    BY <1>8 DEF StartScan, GiveUp, Return, Locals
  <2> QED BY <1>1, <1>2, <2>1, StepsLeftIs DEF Rank
<1>9. CASE WaitForScan
  <2>1. /\ pc = "wait"
        /\ \/ pc' = "judge"
           \/ pc' = "wait" /\ waited' = waited + 1
    BY <1>9 DEF WaitForScan
  <2> QED BY <1>1, <1>2, <2>1, StepsLeftIs DEF Rank
<1>10. CASE JudgeScan
  <2>1. /\ pc = "judge"
        /\ \/ pc' = "idle"
           \/ pc' = "next"
    BY <1>10 DEF JudgeScan, GiveUp, Return
  <2> QED BY <1>1, <1>2, <2>1, StepsLeftIs DEF Rank
<1>11. CASE NextFails
  <2>1. pc = "next" /\ pc' = "next" /\ index' = index + 1
    BY <1>11 DEF NextFails
  <2> QED BY <1>1, <1>2, <2>1, StepsLeftIs DEF Rank
<1>12. CASE NextSucceeds
  <2>1. pc = "next" /\ pc' = "probe_next" /\ index' = index
    BY <1>12 DEF NextSucceeds, Locals
  <2> QED BY <1>1, <1>2, <2>1, StepsLeftIs DEF Rank
<1>13. CASE NextAnswers
  <2>1. /\ pc = "probe_next"
        /\ \/ pc' = "idle"
           \/ pc' = "next" /\ index' = index + 1
    BY <1>13 DEF NextAnswers, Succeed, Return
  <2>2. index <= MaxSsids
    BY <1>1, <1>3, <1>13 DEF NextAnswers, Aimed
  <2> QED BY <1>1, <1>2, <2>1, <2>2, StepsLeftIs DEF Rank
<1>14. CASE NoneLeft
  <2>1. pc = "next" /\ pc' = "idle"
    BY <1>14 DEF NoneLeft, GiveUp, Return
  <2> QED BY <1>1, <1>2, <2>1, StepsLeftIs DEF Rank
<1> QED BY <1>4, <1>5, <1>6, <1>7, <1>8, <1>9, <1>10, <1>11, <1>12, <1>13,
           <1>14 DEF Connect

(* wifi_connect does a bounded amount of work, whatever the driver reports  *)
(* and whatever answers: the part of its return that is about safety.       *)
THEOREM WorkIsBounded == Spec => BoundedWork
<1>1. TypeOK /\ TypeOK' /\ Aimed /\ [Next]_vars
        => [/\ Rank' \in 0 .. 2 * MaxSsids + ScanPolls + 5
            /\ Connect => Rank' < Rank
            /\ Driver => Rank' = Rank]_vars
  <2> SUFFICES ASSUME TypeOK, TypeOK', Aimed
               PROVE  /\ Rank' \in 0 .. 2 * MaxSsids + ScanPolls + 5
                      /\ Connect => Rank' < Rank
                      /\ Driver => Rank' = Rank
    OBVIOUS
  <2>1. Rank' \in 0 .. 2 * MaxSsids + ScanPolls + 5
    <3>1. (TypeOK => Rank \in 0 .. 2 * MaxSsids + ScanPolls + 5)'
      BY RankBounded, PTL
    <3> QED BY <3>1
  <2>2. Driver => Rank' = Rank
    BY DEF Driver, ScanResult, ScanComplete, SendDhcp, LinkLost, Rank
  <2> QED BY <2>1, <2>2, ConnectDescends
<1>2. Init => Aimed
  BY DEF Init, Aimed
<1> QED BY <1>1, <1>2, InitTyped, StepTyped, StepAimed, PTL DEF Spec, BoundedWork
=============================================================================
