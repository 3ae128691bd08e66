--------------------------- MODULE NtpQueryProofs ---------------------------
(***************************************************************************)
(* Theorems about the NTP client as a conversation, for any setting, any    *)
(* number of servers and any time-out.                                      *)
(*                                                                          *)
(* Held says where ntp_query_server may hold a control block and a packet   *)
(* buffer.  It gives NothingLeftBehind at once; SampleChecked needs it too: *)
(* a datagram that was checked stays the one that is used because the       *)
(* control block is gone by then, and with it the call-back that would      *)
(* write another one over it.                                               *)
(*                                                                          *)
(* TypeOK is not inductive by itself: that the index stays in the array is  *)
(* known only from InRange, that it stays in the list of servers.           *)
(* Accounted ties the history to the program's variables; AnswerUsed is     *)
(* read off it where ntp_sync returns.                                      *)
(***************************************************************************)
EXTENDS NtpQuery, FiniteSetTheorems, WellFoundedInduction, TLAPS

Held ==
  /\ pc \in {"idle", "resolve", "new", "next", "check", "accept"}
       => pcb = "none" /\ pbuf = FALSE
  /\ pc \in {"connect", "bind", "alloc", "wait", "remove"} => pbuf = FALSE

Checked ==
  /\ found \in {"nothing", "good"}
  /\ pc = "accept" => receive.payload = "good"

LEMMA InitHeld == Init => Held /\ Checked
BY DEF Init, Held, Checked

LEMMA StepHeld == Held /\ [Next]_vars => Held'
<1> SUFFICES ASSUME Held, [Next]_vars PROVE Held'
  OBVIOUS
<1> USE DEF Held, Step, Return
<1>1. CASE Begin \/ Resolve \/ New
  BY <1>1 DEF Begin, Resolve, New
<1>2. CASE Connect \/ Bind \/ Alloc
  BY <1>2 DEF Connect, Bind, Alloc, Abandon, Release
<1>3. CASE Take \/ Send
  BY <1>3 DEF Take, Send, Abandon, Release
<1>4. CASE Wait \/ StopWaiting \/ Remove
  BY <1>4 DEF Wait, StopWaiting, Remove
<1>5. CASE Check \/ Accept \/ NextServer
  BY <1>5 DEF Check, Accept, NextServer
<1>6. CASE Receive \/ UNCHANGED vars
  BY <1>6 DEF Receive, vars
<1> QED BY <1>1, <1>2, <1>3, <1>4, <1>5, <1>6 DEF Next, Sync

LEMMA StepChecked == Held /\ Checked /\ [Next]_vars => Checked'
<1> SUFFICES ASSUME Held, Checked, [Next]_vars PROVE Checked'
  OBVIOUS
<1> USE DEF Checked, Step, Return
<1>1. CASE Begin \/ Resolve \/ New
  BY <1>1 DEF Begin, Resolve, New
<1>2. CASE Connect \/ Bind \/ Alloc \/ Take \/ Send
  BY <1>2 DEF Connect, Bind, Alloc, Take, Send, Abandon
<1>3. CASE Wait \/ StopWaiting \/ Remove
  BY <1>3 DEF Wait, StopWaiting, Remove
<1>4. CASE Check \/ Accept \/ NextServer
  BY <1>4 DEF Check, Accept, NextServer
<1>5. CASE Receive
  <2>1. pc # "accept" /\ pc' = pc /\ found' = found
    BY <1>5 DEF Receive, Held
  <2> QED BY <2>1
<1>6. CASE UNCHANGED vars
  BY <1>6 DEF vars
<1> QED BY <1>1, <1>2, <1>3, <1>4, <1>5, <1>6 DEF Next, Sync

LEMMA HeldInvariant == Spec => []Held
<1>1. Init => Held
  BY InitHeld
<1> QED BY <1>1, StepHeld, PTL DEF Spec
-----------------------------------------------------------------------------
(***************************************************************************)
(* The servers of a setting.  Taken is a recursive function, so it has to   *)
(* be shown to exist (TakenTurns); what its loop has collected after n      *)
(* turns is then compared with the first n tokens (TakenNames).             *)
(***************************************************************************)
(* Every set of natural numbers has a least one. *)
LEMMA LeastElement ==
  ASSUME NEW T \in SUBSET Nat, T # {} PROVE \E n \in T : \A m \in T : n <= m
<1>1. \E n \in T : \A m \in T : <<m, n>> \notin OpToRel(<, Nat)
  BY WFMin, NatLessThanWellFounded
<1>2. ASSUME NEW n \in Nat, NEW m \in Nat, m < n
      PROVE  <<m, n>> \in OpToRel(<, Nat)
  <2>1. <<m, n>> \in {p \in Nat \X Nat : p[1] < p[2]}
    BY <1>2
  <2> QED BY <2>1, Zenon DEF OpToRel
<1>3. \A n, m \in Nat : ~(m < n) => n <= m
  OBVIOUS
<1> QED BY <1>1, <1>2, <1>3

LEMMA TakenTurns ==
  ASSUME NEW source \in Seq(Tokens)
  PROVE  /\ Taken(source)[0] = << >>
         /\ \A n \in 1 .. Len(source) :
              Taken(source)[n] = Collect(Taken(source)[n - 1], source[n])
<1> DEFINE Loop(f, b) == [n \in 0 .. b |->
             IF n = 0 THEN << >> ELSE Collect(f[n - 1], source[n])]
           Missing == {b \in Nat : ~ \E f : f = Loop(f, b)}
<1>1. Missing = {}
  <2>1. SUFFICES ASSUME Missing # {} PROVE FALSE
    OBVIOUS
  <2>2. Missing \in SUBSET Nat
    OBVIOUS
  <2>3. PICK b \in Missing : \A m \in Missing : b <= m
    <3> HIDE DEF Missing
    <3> QED BY <2>1, <2>2, LeastElement
  <2>4. b # 0
    <3>1. [n \in 0 .. 0 |-> << >>] = Loop([n \in 0 .. 0 |-> << >>], 0)
      OBVIOUS
    <3> HIDE DEF Loop
    <3> QED BY <2>3, <3>1
  <2>5. b \in Nat /\ b - 1 \in Nat /\ b - 1 \notin Missing
    <3>1. b \in Nat /\ b - 1 \in Nat
      BY <2>2, <2>3, <2>4
    <3> HIDE DEF Missing
    <3> QED BY <2>3, <3>1
  <2>6. PICK f : f = Loop(f, b - 1)
    BY <2>5
  <2> DEFINE g == [n \in 0 .. b |->
                     IF n < b THEN f[n] ELSE Collect(f[b - 1], source[b])]
  <2>7. g = Loop(g, b)
    <3>1. \A n \in 0 .. b - 1 :
            f[n] = IF n = 0 THEN << >> ELSE Collect(f[n - 1], source[n])
      BY <2>6
    <3>2. ASSUME NEW n \in 0 .. b
          PROVE  g[n] = IF n = 0 THEN << >> ELSE Collect(g[n - 1], source[n])
      <4>1. CASE n = b
        BY <2>4, <2>5, <4>1
      <4>2. CASE n # b
        <5>1. n \in 0 .. b - 1 /\ g[n] = f[n] /\ (n # 0 => g[n - 1] = f[n - 1])
          BY <2>5, <4>2
        <5> HIDE DEF g
        <5> QED BY <3>1, <5>1
      <4> QED BY <4>1, <4>2
    <3>3. g = [n \in 0 .. b |-> g[n]]
      OBVIOUS
    <3> HIDE DEF g
    <3> QED BY <3>2, <3>3
  <2> HIDE DEF g, Loop
  <2> QED BY <2>3, <2>7
<1>2. Len(source) \in Nat
  OBVIOUS
<1>3. PICK f : f = Loop(f, Len(source))
  <2> HIDE DEF Loop
  <2> QED BY <1>1, <1>2
<1>4. Taken(source) = CHOOSE h : h = Loop(h, Len(source))
  BY DEF Taken
<1>5. Taken(source) = Loop(Taken(source), Len(source))
  <2> HIDE DEF Loop
  <2> QED BY <1>3, <1>4
<1> QED BY <1>2, <1>5

(* Where the names among the first n tokens stand. *)
NamesUpTo(source, n) == {i \in 1 .. n : source[i] # "blank"}

(* The k-th name taken is the k-th there is. *)
InOrder(taken, source, names) ==
  \A k \in 1 .. Len(taken) :
    \E i \in names : /\ taken[k] = source[i]
                     /\ Cardinality({j \in names : j < i}) = k - 1

(* What is taken of the first n tokens: their names, in their order, as     *)
(* many as there is room for.                                               *)
FrontOf(taken, source, names) ==
  /\ taken \in Seq(Tokens)
  /\ Len(taken) = IF Cardinality(names) < MaxServers THEN Cardinality(names)
                  ELSE MaxServers
  /\ InOrder(taken, source, names)

LEMMA NamesFinite ==
  ASSUME NEW source, NEW n \in Nat
  PROVE  /\ IsFiniteSet(NamesUpTo(source, n))
         /\ Cardinality(NamesUpTo(source, n)) \in Nat
<1>1. IsFiniteSet(1 .. n) /\ NamesUpTo(source, n) \in SUBSET (1 .. n)
  BY FS_Interval DEF NamesUpTo
<1> QED BY <1>1, FS_Subset, FS_CardinalityType

LEMMA OneTurn ==
  ASSUME NEW source \in Seq(Tokens), NEW n \in 1 .. Len(source), NEW taken,
         FrontOf(taken, source, NamesUpTo(source, n - 1))
  PROVE  FrontOf(Collect(taken, source[n]), source, NamesUpTo(source, n))
<1> DEFINE before == NamesUpTo(source, n - 1)
           after  == NamesUpTo(source, n)
<1>0. /\ n \in Nat /\ n - 1 \in Nat /\ source[n] \in Tokens
      /\ MaxServers \in Nat
  BY NtpAssumption
<1>1. IsFiniteSet(before) /\ Cardinality(before) \in Nat
  BY <1>0, NamesFinite
<1>2. taken \in Seq(Tokens) /\ Len(taken) \in Nat
  BY DEF FrontOf
<1>3. CASE source[n] = "blank"
  <2>1. after = before
    BY <1>0, <1>3 DEF NamesUpTo
  <2>2. Collect(taken, source[n]) = taken
    BY <1>3 DEF Collect
  <2> QED BY <2>1, <2>2
<1>4. CASE source[n] # "blank"
  <2>1. after = before \union {n} /\ n \notin before
    BY <1>0, <1>4 DEF NamesUpTo
  <2>2. Cardinality(after) = Cardinality(before) + 1
    <3> HIDE DEF before, after
    <3> QED BY <1>1, <2>1, FS_AddElement
  <2>3. \A i \in before : {j \in after : j < i} = {j \in before : j < i}
    <3>1. \A i \in before : i < n /\ i \in Nat
      BY <1>0 DEF NamesUpTo
    <3>2. \A i \in before : ~(n < i)
      BY <1>0, <3>1
    <3> HIDE DEF before, after
    <3> QED BY <2>1, <3>2
  <2>4. {j \in after : j < n} = before
    <3>1. \A i \in before : i < n
      BY <1>0 DEF NamesUpTo
    <3>2. ~(n < n)
      BY <1>0
    <3> HIDE DEF before, after
    <3> QED BY <2>1, <3>1, <3>2
  <2> HIDE DEF before, after
  <2>5. InOrder(taken, source, before)
    BY DEF FrontOf, before
  <2>6. InOrder(taken, source, after)
    BY <2>1, <2>3, <2>5 DEF InOrder
  <2>7. CASE Len(taken) = MaxServers
    <3>1. Collect(taken, source[n]) = taken
      BY <2>7 DEF Collect
    <3>2. Cardinality(after) >= MaxServers
      BY <1>0, <1>1, <2>2, <2>7 DEF FrontOf, before
    <3> QED BY <1>0, <1>1, <1>2, <2>2, <2>6, <2>7, <3>1, <3>2
            DEF FrontOf, after
  <2>8. CASE Len(taken) # MaxServers
    <3> DEFINE more == Append(taken, source[n])
    <3>1. Collect(taken, source[n]) = more
      BY <1>4, <2>8 DEF Collect
    <3>2. Len(taken) = Cardinality(before) /\ Cardinality(before) < MaxServers
      BY <2>8 DEF FrontOf, before
    <3>3. /\ more \in Seq(Tokens) /\ Len(more) = Len(taken) + 1
          /\ more[Len(taken) + 1] = source[n]
          /\ \A k \in 1 .. Len(taken) : more[k] = taken[k]
      BY <1>0, <1>2
    <3> HIDE DEF more
    <3>4. ASSUME NEW k \in 1 .. Len(more)
          PROVE  \E i \in after :
                   /\ more[k] = source[i]
                   /\ Cardinality({j \in after : j < i}) = k - 1
      <4>1. CASE k = Len(taken) + 1
        <5>1. k - 1 = Cardinality(before) /\ n \in after
          BY <1>2, <2>1, <3>2, <4>1
        <5> QED BY <2>4, <3>3, <4>1, <5>1
      <4>2. CASE k # Len(taken) + 1
        <5>1. k \in 1 .. Len(taken)
          BY <1>2, <3>3, <4>2
        <5> QED BY <2>6, <3>3, <5>1 DEF InOrder
      <4> QED BY <4>1, <4>2
    <3>5. InOrder(more, source, after)
      BY <3>4 DEF InOrder
    <3>6. Len(more) = IF Cardinality(after) < MaxServers
                      THEN Cardinality(after) ELSE MaxServers
      BY <1>0, <1>1, <2>2, <3>2, <3>3
    <3> QED BY <3>1, <3>3, <3>5, <3>6 DEF FrontOf, after
  <2> QED BY <2>7, <2>8
<1> QED BY <1>3, <1>4

LEMMA TakenNames ==
  ASSUME NEW source \in Seq(Tokens), NEW n \in 0 .. Len(source)
  PROVE  FrontOf(Taken(source)[n], source, NamesUpTo(source, n))
<1> DEFINE Holds(m) == FrontOf(Taken(source)[m], source, NamesUpTo(source, m))
           Wrong == {m \in 0 .. Len(source) : ~Holds(m)}
<1>1. Holds(0)
  <2>1. NamesUpTo(source, 0) = {}
    BY DEF NamesUpTo
  <2>2. Cardinality({}) = 0
    BY FS_EmptySet
  <2>3. Taken(source)[0] = << >>
    BY TakenTurns
  <2>4. 0 < MaxServers /\ Len(<< >>) = 0 /\ << >> \in Seq(Tokens)
    BY NtpAssumption
  <2> QED BY <2>1, <2>2, <2>3, <2>4 DEF FrontOf, InOrder
<1>2. ASSUME NEW m \in 1 .. Len(source), Holds(m - 1) PROVE Holds(m)
  <2>1. Taken(source)[m] = Collect(Taken(source)[m - 1], source[m])
    BY TakenTurns
  <2> QED BY <1>2, <2>1, OneTurn
<1> HIDE DEF Holds
<1>3. Wrong = {}
  <2>1. SUFFICES ASSUME Wrong # {} PROVE FALSE
    OBVIOUS
  <2>2. Wrong \in SUBSET Nat
    OBVIOUS
  <2>3. PICK m \in Wrong : \A i \in Wrong : m <= i
    <3> HIDE DEF Wrong
    <3> QED BY <2>1, <2>2, LeastElement
  <2>4. m \in 0 .. Len(source) /\ ~Holds(m)
    BY <2>3
  <2>5. m # 0
    BY <1>1, <2>4
  <2>6. m \in 1 .. Len(source) /\ m - 1 \in 0 .. Len(source) /\ ~(m <= m - 1)
    BY <2>4, <2>5
  <2>7. m - 1 \notin Wrong
    <3> HIDE DEF Wrong
    <3> QED BY <2>3, <2>6
  <2>8. Holds(m - 1)
    BY <2>6, <2>7
  <2> QED BY <1>2, <2>4, <2>6, <2>8
<1> QED BY <1>3 DEF Holds

(* There is always a server to ask, and never more than there is room for.  *)
LEMMA ServersBounded ==
  ASSUME NEW list \in Lists \union {<< >>}
  PROVE  Len(Servers(list)) \in 1 .. MaxServers
<1> DEFINE source == IF list = << >> THEN <<"v6">> ELSE list
           taken  == Taken(source)[Len(source)]
<1>1. source \in Seq(Tokens) /\ Len(source) \in Nat
  <2>1. <<"v6">> \in Seq(Tokens)
    BY DEF Tokens
  <2>2. list # << >> => list \in Seq(Tokens)
    BY NtpAssumption
  <2> QED BY <2>1, <2>2
<1>2. Servers(list) = IF taken = << >> THEN <<"v6", "v4">> ELSE taken
  BY DEF Servers
<1>3. FrontOf(taken, source, NamesUpTo(source, Len(source)))
  <2> HIDE DEF source
  <2> QED BY <1>1, TakenNames
<1>4. Cardinality(NamesUpTo(source, Len(source))) \in Nat
  <2> HIDE DEF source
  <2> QED BY <1>1, NamesFinite
<1> HIDE DEF taken, source
<1>5. taken \in Seq(Tokens) /\ Len(taken) \in 0 .. MaxServers
  BY <1>3, <1>4, NtpAssumption DEF FrontOf
<1>6. taken # << >> => Len(taken) # 0
  BY <1>5
<1>7. Len(<<"v6", "v4">>) \in 1 .. MaxServers
  BY NtpAssumption
<1> QED BY <1>2, <1>5, <1>6, <1>7, NtpAssumption

(* Where the names of a list stand. *)
NamesOf(list) == NamesUpTo(list, Len(list))

(* The loop of collect_server_names takes the names of the setting from the *)
(* front: the k-th server asked is the k-th name, none is left out while    *)
(* there is room, and none is taken beyond it.  A setting without a name    *)
(* gives the two servers built in.                                          *)
THEOREM ServersAsConfigured ==
  ASSUME NEW list \in Lists, list # << >>
  PROVE  /\ NamesOf(list) # {} =>
              /\ Len(Servers(list))
                   = IF Cardinality(NamesOf(list)) < MaxServers
                     THEN Cardinality(NamesOf(list)) ELSE MaxServers
              /\ \A k \in 1 .. Len(Servers(list)) :
                   \E i \in NamesOf(list) :
                     /\ Servers(list)[k] = list[i]
                     /\ Cardinality({j \in NamesOf(list) : j < i}) = k - 1
         /\ NamesOf(list) = {} => Servers(list) = <<"v6", "v4">>
<1> DEFINE taken == Taken(list)[Len(list)]
           names == NamesOf(list)
<1>1. list \in Seq(Tokens) /\ Len(list) \in Nat
  BY NtpAssumption
<1>2. FrontOf(taken, list, names)
  BY <1>1, TakenNames DEF NamesOf
<1>3. IsFiniteSet(names) /\ Cardinality(names) \in Nat
  BY <1>1, NamesFinite DEF NamesOf
<1>4. Servers(list) = IF taken = << >> THEN <<"v6", "v4">> ELSE taken
  BY DEF Servers
<1> HIDE DEF taken, names
<1>5. taken = << >> <=> names = {}
  <2>1. taken \in Seq(Tokens) /\ (taken = << >> <=> Len(taken) = 0)
    BY <1>2 DEF FrontOf
  <2>2. Len(taken) = 0 <=> Cardinality(names) = 0
    BY <1>2, <1>3, NtpAssumption DEF FrontOf
  <2>3. Cardinality(names) = 0 <=> names = {}
    BY <1>3, FS_EmptySet
  <2> QED BY <2>1, <2>2, <2>3
<1>6. names # {} => Servers(list) = taken
  BY <1>4, <1>5
<1>7. names = {} => Servers(list) = <<"v6", "v4">>
  BY <1>4, <1>5
<1> QED BY <1>2, <1>6, <1>7 DEF FrontOf, InOrder, names

(* The loop of ntp_sync stays within the servers it has collected. *)
InRange == index \in 1 .. Len(Servers(setting))

(* The types, and what only makes sense together with them. *)
Typed == TypeOK /\ InRange

LEMMA InitTyped == Init => Typed
<1> SUFFICES ASSUME Init PROVE Typed
  OBVIOUS
<1>1. Len(Servers(setting)) \in 1 .. MaxServers
  BY ServersBounded DEF Init
<1>2. InRange
  BY <1>1 DEF Init, InRange
<1>3. 1 \in 1 .. MaxServers /\ 0 \in 0 .. Polls
  BY NtpAssumption
<1>4. TypeOK
  BY <1>3 DEF Init, TypeOK, InQuery, NothingReceived, Datagrams
<1> QED BY <1>2, <1>4 DEF Typed

(* ntp_query_server leaves what ntp_sync works on alone. *)
Elsewhere == UNCHANGED <<setting, index, result>>

LEMMA StepTyped == Typed /\ [Next]_vars => Typed'
<1> SUFFICES ASSUME TypeOK, InRange, [Next]_vars PROVE TypeOK' /\ InRange'
  BY DEF Typed
<1>1. ASSUME Elsewhere PROVE InRange'
  BY <1>1 DEF Elsewhere, InRange
<1>2. 0 \in 0 .. Polls
  BY NtpAssumption
<1>3. ASSUME Return, UNCHANGED <<pcb, pbuf, found, answered>>
      PROVE  TypeOK' /\ InRange'
  BY <1>1, <1>2, <1>3
     DEF Return, TypeOK, InQuery, NothingReceived, Datagrams, Elsewhere
<1>4. ASSUME Abandon PROVE TypeOK' /\ InRange'
  BY <1>1, <1>2, <1>4
     DEF Abandon, Return, Release, TypeOK, InQuery, NothingReceived,
         Datagrams, Elsewhere
<1>5. CASE Begin
  <2>1. Len(Servers(setting')) \in 1 .. MaxServers
    BY <1>5, ServersBounded DEF Begin
  <2>2. InRange'
    BY <1>5, <2>1 DEF Begin, InRange
  <2>3. TypeOK'
    BY <1>5, NtpAssumption DEF Begin, TypeOK, InQuery
  <2> QED BY <2>2, <2>3
<1>6. CASE NextServer
  <2>1. Len(Servers(setting)) \in 1 .. MaxServers /\ index \in 1 .. MaxServers
    BY ServersBounded DEF TypeOK
  <2>2. index' \in 1 .. Len(Servers(setting)) /\ setting' = setting
    BY <1>6, <2>1, NtpAssumption DEF NextServer, InRange
  <2>3. index' \in 1 .. MaxServers
    BY <2>1, <2>2, NtpAssumption
  <2>4. pc' \in {"resolve", "idle"} /\ result' \in BOOLEAN
    BY <1>6 DEF NextServer, TypeOK
  <2>5. UNCHANGED <<setting, pcb, pbuf, sent, waited, receive, found, answered>>
    BY <1>6 DEF NextServer
  <2>6. TypeOK'
    BY <2>3, <2>4, <2>5 DEF TypeOK, InQuery
  <2> QED BY <2>2, <2>6 DEF InRange
<1>7. CASE Resolve
  <2>1. \/ /\ Step("resolve", "new")
           /\ UNCHANGED <<pcb, pbuf, sent, waited, receive>>
        \/ Return /\ UNCHANGED <<pcb, pbuf, found, answered>>
    BY <1>7 DEF Resolve
  <2>2. ASSUME Step("resolve", "new"),
               UNCHANGED <<pcb, pbuf, sent, waited, receive>>
        PROVE  TypeOK' /\ InRange'
    BY <1>1, <2>2 DEF Step, Elsewhere, TypeOK, InQuery
  <2> QED BY <1>3, <2>1, <2>2
<1>8. CASE New
  <2>1. \/ /\ Step("new", "connect") /\ pcb' = "new"
           /\ UNCHANGED <<pbuf, sent, waited, receive>>
        \/ Return /\ UNCHANGED <<pcb, pbuf, found, answered>>
    BY <1>8 DEF New
  <2>2. ASSUME Step("new", "connect"), pcb' = "new",
               UNCHANGED <<pbuf, sent, waited, receive>>
        PROVE  TypeOK' /\ InRange'
    BY <1>1, <2>2 DEF Step, Elsewhere, TypeOK, InQuery
  <2> QED BY <1>3, <2>1, <2>2
<1>9. CASE Connect
  <2>1. \/ /\ Step("connect", "bind")
           /\ UNCHANGED <<pcb, pbuf, sent, waited, receive>>
        \/ Abandon
    BY <1>9 DEF Connect
  <2>2. ASSUME Step("connect", "bind"),
               UNCHANGED <<pcb, pbuf, sent, waited, receive>>
        PROVE  TypeOK' /\ InRange'
    BY <1>1, <2>2 DEF Step, Elsewhere, TypeOK, InQuery
  <2> QED BY <1>4, <2>1, <2>2
<1>10. CASE Bind
  BY <1>1, <1>10 DEF Bind, Step, Elsewhere, TypeOK, InQuery
<1>11. CASE Alloc
  <2>1. \/ /\ Step("alloc", "take") /\ pbuf' = TRUE
           /\ UNCHANGED <<pcb, sent, waited, receive>>
        \/ Abandon
    BY <1>11 DEF Alloc
  <2>2. ASSUME Step("alloc", "take"), pbuf' = TRUE,
               UNCHANGED <<pcb, sent, waited, receive>>
        PROVE  TypeOK' /\ InRange'
    BY <1>1, <2>2 DEF Step, Elsewhere, TypeOK, InQuery
  <2> QED BY <1>4, <2>1, <2>2
<1>12. CASE Take
  <2>1. \/ /\ Step("take", "send")
           /\ UNCHANGED <<pcb, pbuf, sent, waited, receive>>
        \/ Abandon
    BY <1>12 DEF Take
  <2>2. ASSUME Step("take", "send"),
               UNCHANGED <<pcb, pbuf, sent, waited, receive>>
        PROVE  TypeOK' /\ InRange'
    BY <1>1, <2>2 DEF Step, Elsewhere, TypeOK, InQuery
  <2> QED BY <1>4, <2>1, <2>2
<1>13. CASE Send
  <2>1. \/ /\ Step("send", "wait") /\ sent' = TRUE /\ pbuf' = FALSE
           /\ UNCHANGED <<pcb, waited, receive>>
        \/ Abandon
    BY <1>13 DEF Send
  <2>2. ASSUME Step("send", "wait"), sent' = TRUE, pbuf' = FALSE,
               UNCHANGED <<pcb, waited, receive>>
        PROVE  TypeOK' /\ InRange'
    BY <1>1, <2>2 DEF Step, Elsewhere, TypeOK, InQuery
  <2> QED BY <1>4, <2>1, <2>2
<1>14. CASE Wait
  <2>1. waited' \in 0 .. Polls
    BY <1>14, NtpAssumption DEF Wait, TypeOK
  <2> QED BY <1>1, <1>14, <2>1 DEF Wait, Step, Elsewhere, TypeOK, InQuery
<1>15. CASE StopWaiting
  BY <1>1, <1>15 DEF StopWaiting, Step, Elsewhere, TypeOK, InQuery
<1>16. CASE Remove
  BY <1>1, <1>16 DEF Remove, Step, Elsewhere, TypeOK, InQuery
<1>17. CASE Check
  <2>1. \/ /\ Step("check", "accept")
           /\ UNCHANGED <<pcb, pbuf, sent, waited, receive>>
        \/ Return /\ UNCHANGED <<pcb, pbuf, found, answered>>
    BY <1>17 DEF Check
  <2>2. ASSUME Step("check", "accept"),
               UNCHANGED <<pcb, pbuf, sent, waited, receive>>
        PROVE  TypeOK' /\ InRange'
    BY <1>1, <2>2 DEF Step, Elsewhere, TypeOK, InQuery
  <2> QED BY <1>3, <2>1, <2>2
<1>18. CASE Accept
  <2>1. found' \in Datagrams \union {"nothing"}
    BY <1>18 DEF Accept, TypeOK
  <2> QED BY <1>1, <1>2, <1>18, <2>1
          DEF Accept, Return, TypeOK, InQuery, NothingReceived, Datagrams,
              Elsewhere
<1>19. CASE Receive
  BY <1>1, <1>19 DEF Receive, Step, Elsewhere, TypeOK, InQuery
<1>20. CASE UNCHANGED vars
  BY <1>1, <1>20 DEF vars, Elsewhere, TypeOK
<1> QED BY <1>5, <1>6, <1>7, <1>8, <1>9, <1>10, <1>11, <1>12,
           <1>13, <1>14, <1>15, <1>16, <1>17, <1>18, <1>19, <1>20
        DEF Next, Sync

LEMMA TypedInvariant == Spec => []Typed
BY InitTyped, StepTyped, PTL DEF Spec

(* Every variable keeps its type; in particular the index of ntp_sync never *)
(* leaves the array `servers', whatever the setting holds.                  *)
THEOREM TypeCorrect == Spec => []TypeOK
<1>1. Typed => TypeOK
  BY DEF Typed
<1> QED BY <1>1, TypedInvariant, PTL
-----------------------------------------------------------------------------
(* Whichever of its paths ntp_query_server takes, it leaves no control      *)
(* block, so no call-back into its variables, and no packet buffer.         *)
THEOREM NothingIsLeftBehind == Spec => []NothingLeftBehind
<1>1. Typed /\ Held => NothingLeftBehind
  BY DEF Held, NothingLeftBehind, Typed, TypeOK
<1> QED BY <1>1, TypedInvariant, HeldInvariant, PTL

(* What ntp_sync takes the time from is an answer that was checked, though  *)
(* other datagrams may follow it at any moment.                             *)
THEOREM SampleIsChecked == Spec => []SampleChecked
<1>1. Init => Checked
  BY InitHeld
<1>2. Checked => SampleChecked
  BY DEF Checked, SampleChecked
<1> QED BY <1>1, <1>2, StepChecked, HeldInvariant, PTL DEF Spec
-----------------------------------------------------------------------------
(* A good answer that has come but has not been made a sample yet. *)
Pending ==
  pc \in {"check", "accept"} /\ receive = [received |-> TRUE, payload |-> "good"]

(* From the moment a control block is removed, what has been answered is    *)
(* what has been found, or is about to be.                                  *)
Accounted ==
  /\ (answered # {}) <=> (found # "nothing" \/ Pending)
  /\ pc = "accept" => Pending

LEMMA InitAccounted == Init => Accounted
BY DEF Init, Accounted, Pending

LEMMA StepAccounted ==
  Typed /\ Held /\ Checked /\ Accounted /\ [Next]_vars => Accounted'
<1> SUFFICES ASSUME TypeOK, Held, Checked, Accounted, [Next]_vars
             PROVE  Accounted'
  BY DEF Typed
<1> USE DEF Accounted, Pending, Step, Return
<1>1. CASE Begin \/ Resolve \/ New
  BY <1>1 DEF Begin, Resolve, New
<1>2. CASE Connect \/ Bind \/ Alloc
  BY <1>2 DEF Connect, Bind, Alloc, Abandon
<1>3. CASE Take \/ Send
  BY <1>3 DEF Take, Send, Abandon
<1>4. CASE Wait \/ StopWaiting
  BY <1>4 DEF Wait, StopWaiting
<1>5. CASE Remove
  BY <1>5 DEF Remove
<1>6. CASE Check
  <2>1. receive = [received |-> receive.received, payload |-> receive.payload]
    BY DEF TypeOK
  <2> QED BY <1>6, <2>1 DEF Check
<1>7. CASE Accept
  <2>1. found' # "nothing" /\ pc' = "next" /\ answered' = answered
    BY <1>7 DEF Accept, Checked
  <2>2. answered # {}
    BY <1>7 DEF Accept
  <2> QED BY <2>1, <2>2
<1>8. CASE NextServer
  BY <1>8 DEF NextServer
<1>9. CASE Receive
  <2>1. pc \notin {"check", "accept"}
    BY <1>9 DEF Receive, Held
  <2> QED BY <1>9, <2>1 DEF Receive
<1>10. CASE UNCHANGED vars
  BY <1>10 DEF vars
<1> QED BY <1>1, <1>2, <1>3, <1>4, <1>5, <1>6, <1>7, <1>8, <1>9, <1>10
        DEF Next, Sync

(* ntp_sync succeeds exactly if one of the servers had answered when its    *)
(* control block was removed, whatever became of the others, and fails only *)
(* after the last of them: for any setting and any number of servers.       *)
THEOREM AnswerIsUsed == Spec => AnswerUsed
<1>1. ASSUME Typed, Accounted, [Next]_vars, pc # "idle", pc' = "idle"
      PROVE  /\ result' <=> answered # {}
             /\ result' \/ index = Len(Servers(setting))
  <2>1. NextServer
    <3> USE DEF Step, Return
    <3>1. ~(Begin \/ Resolve \/ New \/ Connect \/ Bind \/ Alloc)
      BY <1>1 DEF Begin, Resolve, New, Connect, Bind, Alloc, Abandon
    <3>2. ~(Take \/ Send \/ Wait \/ StopWaiting \/ Remove)
      BY <1>1 DEF Take, Send, Wait, StopWaiting, Remove, Abandon
    <3>3. ~(Check \/ Accept \/ Receive \/ UNCHANGED vars)
      BY <1>1 DEF Check, Accept, Receive, vars
    <3> QED BY <1>1, <3>1, <3>2, <3>3 DEF Next, Sync
  <2>2. /\ pc = "next" /\ result' = (found # "nothing")
        /\ ~(index < Len(Servers(setting)))
    BY <1>1, <2>1 DEF NextServer
  <2>3. Len(Servers(setting)) \in Nat /\ index \in 1 .. Len(Servers(setting))
    BY <1>1, ServersBounded, NtpAssumption DEF Typed, TypeOK, InRange
  <2>4. (answered # {}) <=> (found # "nothing")
    BY <1>1, <2>2 DEF Accounted, Pending
  <2>5. index = Len(Servers(setting))
    BY <2>2, <2>3
  <2> QED BY <2>2, <2>4, <2>5, Zenon
<1>2. Init => Accounted /\ Checked
  BY InitAccounted, InitHeld
<1>3. Typed /\ Accounted /\ [Next]_vars
        => [pc # "idle" /\ pc' = "idle"
              => /\ result' <=> answered # {}
                 /\ result' \/ index = Len(Servers(setting))]_vars
  BY <1>1
<1> QED BY <1>2, <1>3, StepAccounted, StepChecked, TypedInvariant,
           HeldInvariant, PTL DEF Spec, AnswerUsed
-----------------------------------------------------------------------------
(* How many steps ntp_query_server still has to take at position p, after w *)
(* polls, if nothing is cut short.                                          *)
StepsLeft(p, w) ==
  [resolve |-> 12 + Polls, new |-> 11 + Polls, connect |-> 10 + Polls,
   bind |-> 9 + Polls, alloc |-> 8 + Polls, take |-> 7 + Polls,
   send |-> 6 + Polls, wait |-> 5 + (Polls - w), remove |-> 4,
   check |-> 3, accept |-> 2, next |-> 1][p]

(* And ntp_sync for all the servers that are left. *)
Rank ==
  IF pc = "idle" THEN 0
  ELSE (Len(Servers(setting)) - index) * (12 + Polls) + StepsLeft(pc, waited)

(* Every step of ntp_sync brings its return nearer and no datagram puts it  *)
(* off; from the call on there are at most MaxServers * (12 + Polls) steps. *)
BoundedWork ==
  [][/\ Rank' \in 0 .. MaxServers * (12 + Polls)
     /\ Sync => Rank' < Rank
     /\ Receive => Rank' = Rank]_vars

LEMMA StepsLeftIs ==
  ASSUME NEW w
  PROVE  /\ StepsLeft("resolve", w) = 12 + Polls
         /\ StepsLeft("new", w) = 11 + Polls
         /\ StepsLeft("connect", w) = 10 + Polls
         /\ StepsLeft("bind", w) = 9 + Polls
         /\ StepsLeft("alloc", w) = 8 + Polls
         /\ StepsLeft("take", w) = 7 + Polls
         /\ StepsLeft("send", w) = 6 + Polls
         /\ StepsLeft("wait", w) = 5 + (Polls - w)
         /\ StepsLeft("remove", w) = 4 /\ StepsLeft("check", w) = 3
         /\ StepsLeft("accept", w) = 2 /\ StepsLeft("next", w) = 1
BY DEF StepsLeft

LEMMA StepsLeftBounded ==
  ASSUME TypeOK, pc # "idle"
  PROVE  StepsLeft(pc, waited) \in 1 .. 12 + Polls
<1>1. waited \in 0 .. Polls /\ Polls \in Nat
  BY NtpAssumption DEF TypeOK
<1>2. pc \in {"resolve", "new", "connect", "bind", "alloc", "take", "send",
             "wait", "remove", "check", "accept", "next"}
  BY DEF TypeOK, InQuery
<1>3. 5 + (Polls - waited) \in 1 .. 12 + Polls
  BY <1>1
<1> QED BY <1>1, <1>2, <1>3, StepsLeftIs

(* A whole query for each of b servers is as much as for a of them and one  *)
(* more, and perhaps others.                                                *)
LEMMA MoreServers ==
  ASSUME NEW a \in Nat, NEW b \in Nat, a < b, NEW k \in Nat
  PROVE  a * k \in Nat /\ a * k + k <= b * k
<1>1. PICK c \in Nat : b = a + 1 + c
  BY b - a - 1 \in Nat, b = a + 1 + (b - a - 1)
<1>2. b * k = (a * k + k) + c * k
  BY <1>1, Z3
<1>3. c * k \in Nat /\ a * k \in Nat
  OBVIOUS
<1>4. \A m, n \in Nat : m <= m + n
  OBVIOUS
<1> QED BY <1>2, <1>3, <1>4

LEMMA RankBounded == Typed => Rank \in 0 .. MaxServers * (12 + Polls)
<1> SUFFICES ASSUME TypeOK, InRange
             PROVE  Rank \in 0 .. MaxServers * (12 + Polls)
  BY DEF Typed
<1> DEFINE k == 12 + Polls
           a == Len(Servers(setting)) - index
           x == StepsLeft(pc, waited)
<1>1. k \in Nat /\ MaxServers \in Nat /\ 0 < MaxServers
  BY NtpAssumption
<1>2. Len(Servers(setting)) \in 1 .. MaxServers
  BY ServersBounded DEF TypeOK
<1>3. a \in Nat /\ a < MaxServers
  BY <1>1, <1>2 DEF InRange
<1>4. a * k \in Nat /\ a * k + k <= MaxServers * k
  <2> HIDE DEF a, k
  <2> QED BY <1>1, <1>3, MoreServers
<1>5. MaxServers * k \in Nat
  <2> HIDE DEF k
  <2> QED BY <1>1
<1>6. CASE pc = "idle"
  <2>1. Rank = 0
    BY <1>6 DEF Rank
  <2> HIDE DEF k
  <2>2. Rank \in 0 .. MaxServers * k
    BY <1>5, <2>1
  <2> QED BY <2>2 DEF k
<1>7. CASE pc # "idle"
  <2>1. x \in 1 .. k /\ Rank = a * k + x
    BY <1>7, StepsLeftBounded DEF Rank
  <2> HIDE DEF a, k, x
  <2>2. Rank \in 0 .. MaxServers * k
    BY <1>1, <1>4, <1>5, <2>1
  <2> QED BY <2>2 DEF k
<1> QED BY <1>6, <1>7

(* Within one query the rank moves with the steps that are left of it. *)
LEMMA SameServer ==
  ASSUME Typed, Typed', setting' = setting, index' = index,
         pc # "idle", pc' # "idle"
  PROVE  /\ StepsLeft(pc', waited') < StepsLeft(pc, waited) => Rank' < Rank
         /\ StepsLeft(pc', waited') = StepsLeft(pc, waited) => Rank' = Rank
<1> DEFINE k == 12 + Polls
           a == Len(Servers(setting)) - index
           x == StepsLeft(pc, waited)
           y == StepsLeft(pc', waited')
<1>1. Rank = a * k + x /\ Rank' = a * k + y
  BY DEF Rank
<1>2. x \in Int
  BY StepsLeftBounded, NtpAssumption DEF Typed
<1>3. y \in Int
  <2>1. (pc # "idle" /\ TypeOK => x \in 1 .. k)'
    BY StepsLeftBounded, PTL
  <2> QED BY <2>1, NtpAssumption DEF Typed
<1>4. Len(Servers(setting)) \in Nat /\ index \in Int /\ k \in Nat
  BY ServersBounded, NtpAssumption DEF Typed, TypeOK
<1>5. a * k \in Int
  <2>1. a \in Int
    BY <1>4
  <2> HIDE DEF a, k
  <2> QED BY <1>4, <2>1
<1> HIDE DEF a, k, x, y
<1>6. \A p, m, n \in Int : m < n => p + m < p + n
  OBVIOUS
<1>7. (y < x => Rank' < Rank) /\ (y = x => Rank' = Rank)
  BY <1>1, <1>2, <1>3, <1>5, <1>6
<1> QED BY <1>7 DEF x, y

LEMMA SyncDescends == Typed /\ Typed' /\ Sync => Rank' < Rank
<1> SUFFICES ASSUME Typed, Typed', Sync PROVE Rank' < Rank
  OBVIOUS
<1>1. /\ waited \in 0 .. Polls /\ waited' \in 0 .. Polls /\ Polls \in Nat
      /\ waited \in Int /\ waited' \in Int
  BY NtpAssumption DEF Typed, TypeOK
<1>2. CASE NextServer
  <2> DEFINE k == 12 + Polls
             a == Len(Servers(setting)) - index
  <2>1. /\ Len(Servers(setting)) \in Nat /\ index \in Nat
        /\ index <= Len(Servers(setting)) /\ k \in Nat
    BY ServersBounded, NtpAssumption DEF Typed, TypeOK, InRange
  <2>2. Rank = a * k + 1
    BY <1>2, StepsLeftIs DEF NextServer, Rank
  <2>3. a \in Nat /\ a * k \in Nat
    <3>1. a \in Nat
      BY <2>1
    <3> HIDE DEF a, k
    <3> QED BY <2>1, <3>1
  <2>4. CASE index < Len(Servers(setting))
    <3>1. pc' = "resolve" /\ index' = index + 1 /\ setting' = setting
      BY <1>2, <2>4 DEF NextServer
    <3>2. Rank' = (Len(Servers(setting)) - (index + 1)) * k + k
      BY <3>1, StepsLeftIs DEF Rank
    <3>3. /\ Len(Servers(setting)) - (index + 1) \in Nat
          /\ Len(Servers(setting)) - (index + 1) < a
      BY <2>1, <2>4
    <3> DEFINE b == Len(Servers(setting)) - (index + 1)
    <3> HIDE DEF a, b, k
    <3>4. b \in Nat /\ b < a /\ Rank' = b * k + k
      BY <3>2, <3>3 DEF b
    <3>5. b * k \in Nat /\ b * k + k <= a * k
      BY <2>1, <2>3, <3>4, MoreServers
    <3> QED BY <2>1, <2>2, <2>3, <3>4, <3>5
  <2>5. CASE ~(index < Len(Servers(setting)))
    <3>1. Rank' = 0
      BY <1>2, <2>5 DEF NextServer, Rank
    <3> HIDE DEF a, k
    <3> QED BY <2>2, <2>3, <3>1
  <2> QED BY <2>4, <2>5
<1>3. ASSUME ~NextServer
      PROVE  /\ setting' = setting /\ index' = index
             /\ pc # "idle" /\ pc' # "idle"
             /\ StepsLeft(pc', waited') < StepsLeft(pc, waited)
  <2> USE <1>1, StepsLeftIs DEF Step, Return
  <2>1. CASE Resolve
    BY <2>1 DEF Resolve
  <2>2. CASE New
    BY <2>2 DEF New
  <2>3. CASE Connect
    BY <2>3 DEF Connect, Abandon
  <2>4. CASE Bind
    BY <2>4 DEF Bind
  <2>5. CASE Alloc
    BY <2>5 DEF Alloc, Abandon
  <2>6. CASE Take
    BY <2>6 DEF Take, Abandon
  <2>7. CASE Send
    BY <2>7 DEF Send, Abandon
  <2>8. CASE Wait
    BY <2>8 DEF Wait
  <2>9. CASE StopWaiting
    BY <2>9 DEF StopWaiting
  <2>10. CASE Remove
    BY <2>10 DEF Remove
  <2>11. CASE Check
    BY <2>11 DEF Check
  <2>12. CASE Accept
    BY <2>12 DEF Accept
  <2> QED BY <1>3, <2>1, <2>2, <2>3, <2>4, <2>5, <2>6, <2>7,
             <2>8, <2>9, <2>10, <2>11, <2>12 DEF Sync
<1> QED BY <1>2, <1>3, SameServer

(* ntp_sync does a bounded amount of work, whatever the servers send and    *)
(* whenever they send it: the part of SyncReturns that is about safety.     *)
THEOREM WorkIsBounded == Spec => BoundedWork
<1>1. Typed /\ Typed' /\ [Next]_vars
        => [/\ Rank' \in 0 .. MaxServers * (12 + Polls)
            /\ Sync => Rank' < Rank
            /\ Receive => Rank' = Rank]_vars
  <2> SUFFICES ASSUME Typed, Typed'
               PROVE  /\ Rank' \in 0 .. MaxServers * (12 + Polls)
                      /\ Sync => Rank' < Rank
                      /\ Receive => Rank' = Rank
    OBVIOUS
  <2>1. Rank' \in 0 .. MaxServers * (12 + Polls)
    <3>1. (Typed => Rank \in 0 .. MaxServers * (12 + Polls))'
      BY RankBounded, PTL
    <3> QED BY <3>1
  <2>2. Receive => Rank' = Rank
    BY DEF Receive, Rank
  <2> QED BY <2>1, <2>2, SyncDescends
<1> QED BY <1>1, TypedInvariant, PTL DEF Spec, BoundedWork
=============================================================================
