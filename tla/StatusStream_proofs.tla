------------------------ MODULE StatusStream_proofs ------------------------
(***************************************************************************)
(* Theorems about StatusStream, for any number of pages and services, any  *)
(* number of buffered events, changes, failed looks and broken connections.*)
(***************************************************************************)
EXTENDS StatusStream, WellFoundedInduction, TLAPS

-----------------------------------------------------------------------------
(* What a buffer of events leaves of an item.                              *)

(* The buffers are sequences, of whatever is written.                      *)
Buffer(s) == \E V : s \in Seq(V)

LEMMA MaxIs ==
    ASSUME NEW S \in SUBSET Nat, NEW m \in S, \A k \in S : k <= m
    PROVE  Max(S) = m
<1>1. \A k \in S : m >= k OBVIOUS
<1>2. Max(S) \in S /\ \A k \in S : Max(S) >= k
  BY <1>1, Zenon DEF Max
<1>3. Max(S) \in Nat /\ m \in Nat /\ Max(S) <= m /\ Max(S) >= m
  <2>1. \A k \in S : k \in Nat OBVIOUS
  <2> QED BY <1>2, <2>1
<1> QED BY <1>3

(* A nonempty set of positions in a sequence has a last one.               *)
LEMMA Last ==
    ASSUME NEW n \in Nat, NEW S \in SUBSET (1..n), S # {}
    PROVE  \E m \in S : \A k \in S : k <= m
<1> DEFINE T == {n - k : k \in S}
<1>1. T \in SUBSET Nat /\ T # {}
  <2>1. \A k \in S : n - k \in Nat OBVIOUS
  <2> QED BY <2>1
<1>2. PICK x \in T : \A y \in T : <<y, x>> \notin OpToRel(<, Nat)
  BY <1>1, WFMin, NatLessThanWellFounded, Zenon
<1>3. \A y \in T : ~(y < x)
  BY <1>1, <1>2, Zenon DEF OpToRel
<1>4. PICK m \in S : x = n - m BY <1>2
<1>5. ASSUME NEW k \in S PROVE k <= m
  <2>1. ~(n - k < n - m) BY <1>3, <1>4
  <2> QED BY <2>1
<1> QED BY <1>5

LEMMA FinalOfNothing == ASSUME NEW i, NEW x
                        PROVE  Final(i, x, << >>) = x
  BY DEF Final

(* The last event written of an item decides.                              *)
LEMMA FinalAppend ==
    ASSUME NEW i, NEW x, NEW s, Buffer(s), NEW ev, NEW t, t = Append(s, ev), ev.item = i
    PROVE  Final(i, x, t) = ev.value
<1>1. PICK V : s \in Seq(V) BY DEF Buffer
<1> DEFINE W == V \cup {ev}
           n == Len(s)
           T == {k \in DOMAIN t : t[k].item = i}
<1>2. s \in Seq(W) BY <1>1
<1>3. t \in Seq(W) /\ n \in Nat /\ DOMAIN t = 1..(n + 1) /\ t[n + 1] = ev
  BY <1>2
<1> HIDE DEF n
<1>4. n + 1 \in T /\ T \in SUBSET Nat /\ \A k \in T : k <= n + 1 BY <1>3
<1>5. Max(T) = n + 1 BY <1>4, MaxIs
<1>6. Final(i, x, t) = t[n + 1].value BY <1>4, <1>5, Zenon DEF Final
<1> QED BY <1>3, <1>6

LEMMA FinalAppendOther ==
    ASSUME NEW i, NEW x, NEW s, Buffer(s), NEW ev, NEW t, t = Append(s, ev), ev.item # i
    PROVE  Final(i, x, t) = Final(i, x, s)
<1>1. PICK V : s \in Seq(V) BY DEF Buffer
<1> DEFINE W == V \cup {ev}
           n == Len(s)
           S == {k \in DOMAIN s : s[k].item = i}
           T == {k \in DOMAIN t : t[k].item = i}
<1>2. s \in Seq(W) BY <1>1
<1>3. /\ t \in Seq(W) /\ n \in Nat /\ DOMAIN s = 1..n /\ DOMAIN t = 1..(n + 1)
      /\ t[n + 1] = ev /\ \A k \in 1..n : t[k] = s[k]
  BY <1>2
<1> HIDE DEF n
<1>4. T = S BY <1>3
<1>5. CASE S = {}
  <2>1. Final(i, x, t) = x BY <1>4, <1>5, Zenon DEF Final
  <2>2. Final(i, x, s) = x BY <1>5, Zenon DEF Final
  <2> QED BY <2>1, <2>2
<1>6. CASE S # {}
  <2>1. PICK m \in S : \A k \in S : k <= m
    <3>1. S \in SUBSET (1..n) BY <1>3
    <3> QED BY <1>3, <1>6, <3>1, Last
  <2>2. Max(S) = m
    <3>1. S \in SUBSET Nat BY <1>3
    <3> QED BY <2>1, <3>1, MaxIs
  <2>3. Final(i, x, t) = t[m].value BY <1>4, <1>6, <2>2, Zenon DEF Final
  <2>4. Final(i, x, s) = s[m].value BY <1>6, <2>2, Zenon DEF Final
  <2> QED BY <1>3, <2>1, <2>3, <2>4
<1> QED BY <1>5, <1>6

(* Applying the first event leaves what the rest will make of it.          *)
LEMMA FinalApply ==
    ASSUME NEW i, NEW x, NEW s, Buffer(s), s # << >>
    PROVE  /\ Buffer(Tail(s))
           /\ Final(i, x, s)
                = Final(i, IF Head(s).item = i THEN Head(s).value ELSE x, Tail(s))
<1>1. PICK V : s \in Seq(V) BY DEF Buffer
<1> DEFINE t == Tail(s)
           n == Len(s)
           S == {k \in DOMAIN s : s[k].item = i}
           T == {k \in DOMAIN t : t[k].item = i}
           y == IF Head(s).item = i THEN Head(s).value ELSE x
<1>2. /\ t \in Seq(V) /\ n \in Nat \ {0} /\ DOMAIN s = 1..n /\ DOMAIN t = 1..(n - 1)
      /\ Head(s) = s[1] /\ \A k \in 1..(n - 1) : t[k] = s[k + 1]
  BY <1>1
<1>3. Buffer(t) BY <1>2 DEF Buffer
<1> HIDE DEF t, n
<1>4. CASE T = {}
  <2>1. Final(i, y, t) = y BY <1>4, Zenon DEF Final
  <2>2. S \in SUBSET {1}
    <3> SUFFICES ASSUME NEW k \in S, k # 1 PROVE FALSE OBVIOUS
    <3>1. k - 1 \in T BY <1>2
    <3> QED BY <1>4, <3>1
  <2>3. CASE Head(s).item = i
    <3>1. 1 \in S BY <1>2, <2>3
    <3>2. Max(S) = 1 BY <2>2, <3>1, MaxIs
    <3>3. Final(i, x, s) = s[1].value BY <3>1, <3>2, Zenon DEF Final
    <3> QED BY <1>2, <1>3, <2>1, <2>3, <3>3 DEF t
  <2>4. CASE Head(s).item # i
    <3>1. S = {} BY <1>2, <2>2, <2>4
    <3>2. Final(i, x, s) = x BY <3>1, Zenon DEF Final
    <3> QED BY <1>3, <2>1, <2>4, <3>2 DEF t
  <2> QED BY <2>3, <2>4
<1>5. CASE T # {}
  <2>1. PICK m \in T : \A k \in T : k <= m
    <3>1. n - 1 \in Nat /\ T \in SUBSET (1..(n - 1)) BY <1>2
    <3> QED BY <1>5, <3>1, Last
  <2>2. Max(T) = m
    <3>1. T \in SUBSET Nat BY <1>2
    <3> QED BY <2>1, <3>1, MaxIs
  <2>3. m + 1 \in S /\ S \in SUBSET Nat /\ \A k \in S : k <= m + 1
    <3>1. m + 1 \in S BY <1>2
    <3>2. ASSUME NEW k \in S PROVE k \in Nat /\ k <= m + 1
      <4>1. CASE k = 1 BY <1>2, <4>1
      <4>2. CASE k # 1
        <5>1. k - 1 \in T BY <1>2, <4>2
        <5> QED BY <1>2, <2>1, <5>1
      <4> QED BY <4>1, <4>2
    <3> QED BY <3>1, <3>2
  <2>4. Max(S) = m + 1 BY <2>3, MaxIs
  <2>5. Final(i, x, s) = s[m + 1].value BY <2>3, <2>4, Zenon DEF Final
  <2>6. Final(i, y, t) = t[m].value BY <1>5, <2>2, Zenon DEF Final
  <2> QED BY <1>2, <1>3, <2>5, <2>6 DEF t
<1> QED BY <1>4, <1>5

-----------------------------------------------------------------------------
(* The types, with what an item can show.                                  *)

Text  == Statuses \cup {"create", "create disabled", "delete"}
Value == {Blank, 0, 1} \cup Text \cup [Instances -> Statuses]
Row   == UNION {[S -> Value] : S \in SUBSET Item}
Browser == [shows : [Item -> Value], loaded : BOOLEAN, again : BOOLEAN]
Event == [item : Item, value : Value]

Typed == /\ stat \in [Instances -> Statuses]
         /\ online \in BOOLEAN
         /\ pc \in [Pages -> HandlerPCs]
         /\ at \in [Pages -> 1..(GridSize + 1)]
         /\ dataCache \in [Pages -> [Item -> Value]]
         /\ data \in [Pages -> Row]
         /\ page \in [Pages -> Browser]
         /\ wire \in [Pages -> Seq(Event)]
         /\ \A p \in Pages : Len(wire[p]) <= MaxWire
         /\ changes \in 0..MaxChanges
         /\ faults \in 0..MaxFaults
         /\ breaks \in 0..MaxBreaks

(* The loop over the services ends with the last one, and the table was    *)
(* taken before it.                                                        *)
Gathered ==
    \A p \in Pages : /\ pc[p] = "grid" => at[p] \in Grid
                     /\ pc[p] \in {"grid", "table"} => Table \in DOMAIN data[p]

Inductive == Typed /\ Gathered /\ CacheIsShown

LEMMA Items == /\ Table \in Item /\ Active \in Item
               /\ \A s \in Grid : Pill(s) \in Item /\ Button(s) \in Item
  BY DEF Item, Table, Active, Pill, Button

LEMMA InstancesOfGrid == Grid \in SUBSET Instances
  BY GridAssumption DEF Grid, Instances

(* What the looks at the registry and the tailnet put into a row.          *)
LEMMA PutGivesRow ==
    ASSUME NEW d \in Row, NEW i \in Item, NEW v \in Value
    PROVE  Put(d, i, v) \in Row /\ DOMAIN Put(d, i, v) = DOMAIN d \cup {i}
<1>1. PICK S \in SUBSET Item : d \in [S -> Value] BY DEF Row
<1>2. Put(d, i, v) \in [S \cup {i} -> Value] BY <1>1 DEF Put
<1> QED BY <1>2 DEF Row, Put

LEMMA LooksGiveRows ==
    ASSUME Typed, NEW d \in Row
    PROVE  /\ Put(d, Table, getAllInstanceRegions(stat)) \in Row
           /\ Table \in DOMAIN Put(d, Table, getAllInstanceRegions(stat))
           /\ \A s \in Grid : /\ PutGridRow(d, s, stat) \in Row
                              /\ DOMAIN d \subseteq DOMAIN PutGridRow(d, s, stat)
           /\ Put(d, Active, ActiveNodes) \in Row
           /\ DOMAIN d \subseteq DOMAIN Put(d, Active, ActiveNodes)
<1>1. getAllInstanceRegions(stat) \in Value
  <2>1. \A i \in Instances : Card(stat[i]) \in Statuses BY DEF Card, Statuses
  <2>2. getAllInstanceRegions(stat) \in [Instances -> Statuses]
    BY <2>1 DEF getAllInstanceRegions
  <2> QED BY <2>2 DEF Value
<1>2. ActiveNodes \in Value BY DEF ActiveNodes, Value
<1>3. ASSUME NEW s \in Grid
      PROVE  /\ PutGridRow(d, s, stat) \in Row
             /\ DOMAIN d \subseteq DOMAIN PutGridRow(d, s, stat)
  <2>1. stat[s] \in Statuses BY InstancesOfGrid DEF Typed
  <2>2. PillOf(stat[s]) \in Value BY <2>1 DEF PillOf, Value, Text
  <2>3. ButtonOf(stat[s]) \in Value BY DEF ButtonOf, Value, Text
  <2> DEFINE e == Put(d, Pill(s), PillOf(stat[s]))
  <2>4. e \in Row /\ DOMAIN e = DOMAIN d \cup {Pill(s)} BY <2>2, PutGivesRow, Items
  <2> HIDE DEF e
  <2>5. /\ Put(e, Button(s), ButtonOf(stat[s])) \in Row
        /\ DOMAIN Put(e, Button(s), ButtonOf(stat[s])) = DOMAIN e \cup {Button(s)}
    BY <2>3, <2>4, PutGivesRow, Items
  <2>6. PutGridRow(d, s, stat) = Put(e, Button(s), ButtonOf(stat[s])) BY DEF PutGridRow, e
  <2> QED BY <2>4, <2>5, <2>6
<1>4. /\ Put(d, Table, getAllInstanceRegions(stat)) \in Row
      /\ DOMAIN Put(d, Table, getAllInstanceRegions(stat)) = DOMAIN d \cup {Table}
  BY <1>1, PutGivesRow, Items
<1>5. /\ Put(d, Active, ActiveNodes) \in Row
      /\ DOMAIN Put(d, Active, ActiveNodes) = DOMAIN d \cup {Active}
  BY <1>2, PutGivesRow, Items
<1> QED BY <1>3, <1>4, <1>5

-----------------------------------------------------------------------------
(* Typing.                                                                 *)

LEMMA RowFields ==
    ASSUME NEW d \in Row
    PROVE  DOMAIN d \in SUBSET Item /\ \A i \in DOMAIN d : d[i] \in Value
<1>1. PICK S \in SUBSET Item : d \in [S -> Value] BY DEF Row
<1> QED BY <1>1

LEMMA TypedIsTypeOK == Typed => TypeOK
<1> SUFFICES ASSUME Typed PROVE TypeOK OBVIOUS
<1>1. ASSUME NEW p \in Pages
      PROVE  /\ DOMAIN dataCache[p] = Item
             /\ DOMAIN data[p] \subseteq Item
             /\ DOMAIN page[p].shows = Item
  <2>1. data[p] \in Row BY DEF Typed
  <2>2. DOMAIN data[p] \subseteq Item BY <2>1, RowFields
  <2>3. page[p] \in Browser /\ dataCache[p] \in [Item -> Value] BY DEF Typed
  <2>4. page[p].shows \in [Item -> Value] BY <2>3 DEF Browser
  <2> QED BY <2>2, <2>3, <2>4
<1> QED BY <1>1 DEF Typed, TypeOK

LEMMA EmptyRow == << >> \in Row
<1>1. << >> \in [{} -> Value] OBVIOUS
<1> QED BY <1>1 DEF Row

LEMMA InitTyped == Init => Inductive
<1> SUFFICES ASSUME Init PROVE Inductive OBVIOUS
<1>1. Nothing \in [Item -> Value] BY DEF Nothing, Value
<1>2. page \in [Pages -> Browser] BY <1>1 DEF Init, Browser
<1>3. wire \in [Pages -> Seq(Event)] /\ \A p \in Pages : Len(wire[p]) = 0 BY DEF Init
<1>4. data \in [Pages -> Row] BY EmptyRow DEF Init
<1>5. /\ pc \in [Pages -> HandlerPCs] /\ at \in [Pages -> 1..(GridSize + 1)]
      /\ \A p \in Pages : pc[p] = "closed"
  BY GridAssumption DEF Init, HandlerPCs
<1>6. stat \in [Instances -> Statuses] /\ online \in BOOLEAN BY DEF Init, Statuses
<1>7. dataCache \in [Pages -> [Item -> Value]] BY <1>1 DEF Init
<1>8. changes \in 0..MaxChanges /\ faults \in 0..MaxFaults /\ breaks \in 0..MaxBreaks
  BY BoundAssumption DEF Init
<1>9. Typed
  <2>1. \A p \in Pages : Len(wire[p]) <= MaxWire BY <1>3, BoundAssumption
  <2> QED BY <1>2, <1>3, <1>4, <1>5, <1>6, <1>7, <1>8, <2>1 DEF Typed
<1> QED BY <1>5, <1>9 DEF Inductive, Gathered, CacheIsShown

-----------------------------------------------------------------------------
(* Every step keeps the types and what the handlers have gathered.         *)

TypedWorld == /\ stat \in [Instances -> Statuses]
              /\ online \in BOOLEAN
              /\ changes \in 0..MaxChanges
              /\ faults \in 0..MaxFaults
              /\ breaks \in 0..MaxBreaks

TypedWire == /\ wire \in [Pages -> Seq(Event)]
             /\ \A p \in Pages : Len(wire[p]) <= MaxWire
             /\ dataCache \in [Pages -> [Item -> Value]]

(* What a handler writes is an item it knows and a value of its row.       *)
LEMMA WriteTyped ==
    ASSUME Typed, NEW p \in Pages, NEW i \in DOMAIN data[p], Write(p, i)
    PROVE  TypedWire' /\ i \in Item /\ data[p][i] \in Value
<1> DEFINE e == [item |-> i, value |-> data[p][i]]
<1>1. data[p] \in Row BY DEF Typed
<1>2. i \in Item /\ data[p][i] \in Value BY <1>1, RowFields
<1>3. e \in Event BY <1>2 DEF Event
<1> HIDE DEF e
<1>4. wire' = [wire EXCEPT ![p] = Append(@, e)] BY DEF Write, e
<1>5. /\ wire[p] \in Seq(Event) /\ Append(wire[p], e) \in Seq(Event)
      /\ Len(wire[p]) < MaxWire /\ Len(Append(wire[p], e)) = Len(wire[p]) + 1
      /\ Len(wire[p]) \in Nat
  BY <1>3 DEF Typed, Write
<1>6. wire' \in [Pages -> Seq(Event)] BY <1>4, <1>5 DEF Typed
<1>7. ASSUME NEW q \in Pages PROVE Len(wire'[q]) <= MaxWire
  BY <1>4, <1>5, BoundAssumption DEF Typed
<1>8. dataCache' \in [Pages -> [Item -> Value]] BY <1>2 DEF Typed, Write
<1> QED BY <1>2, <1>6, <1>7, <1>8 DEF TypedWire

(* A handler's place is in order.                                          *)
Placed(x, n, d) ==
    /\ x \in HandlerPCs /\ n \in 1..(GridSize + 1) /\ d \in Row
    /\ x = "grid" => n \in Grid
    /\ x \in {"grid", "table"} => Table \in DOMAIN d

Moves(p, x, n, d) == /\ pc' = [pc EXCEPT ![p] = x]
                     /\ at' = [at EXCEPT ![p] = n]
                     /\ data' = [data EXCEPT ![p] = d]

LEMMA PlacedNow ==
    ASSUME Typed, Gathered, NEW p \in Pages PROVE Placed(pc[p], at[p], data[p])
  BY DEF Typed, Gathered, Placed

LEMMA PlacedNext ==
    ASSUME Typed, Gathered, NEW p \in Pages, NEW x, NEW n, NEW d,
           Moves(p, x, n, d), Placed(x, n, d),
           TypedWorld', TypedWire', page' \in [Pages -> Browser]
    PROVE  Typed' /\ Gathered'
<1>1. /\ pc' \in [Pages -> HandlerPCs] /\ at' \in [Pages -> 1..(GridSize + 1)]
      /\ data' \in [Pages -> Row]
  BY DEF Typed, Placed, Moves
<1>2. Typed' BY <1>1 DEF Typed, TypedWorld, TypedWire
<1>3. ASSUME NEW q \in Pages
      PROVE  /\ pc'[q] = "grid" => at'[q] \in Grid
             /\ pc'[q] \in {"grid", "table"} => Table \in DOMAIN data'[q]
  <2>1. CASE q = p BY <2>1 DEF Typed, Placed, Moves
  <2>2. CASE q # p BY <2>2 DEF Typed, Gathered, Moves
  <2> QED BY <2>1, <2>2
<1> QED BY <1>2, <1>3 DEF Gathered

LEMMA HandlerTyped ==
    ASSUME Typed, Gathered, NEW p \in Pages, Handler(p)
    PROVE  Typed' /\ Gathered'
<1>1. /\ data[p] \in Row /\ << >> \in Row /\ at[p] \in 1..(GridSize + 1)
      /\ page' \in [Pages -> Browser] /\ Placed(pc[p], at[p], data[p])
  BY EmptyRow, PlacedNow
     DEF Typed, Handler, Snapshot, GetStatus, WriteTable, WrapWithInfo, Send
<1>2. TypedWorld'
  <2>1. UNCHANGED world /\ UNCHANGED breaks
    BY DEF Handler, Snapshot, GetStatus, WriteTable, WrapWithInfo, Send, world
  <2>2. faults' \in 0..MaxFaults
    BY BoundAssumption DEF Typed, Handler, Snapshot, GetStatus, WriteTable,
       WrapWithInfo, Send, Fault, NoFault
  <2> QED BY <2>1, <2>2 DEF Typed, TypedWorld, world
<1>3. UNCHANGED <<wire, dataCache>> => TypedWire' BY DEF Typed, TypedWire
<1>4. /\ UNCHANGED pc => pc' = [pc EXCEPT ![p] = pc[p]]
      /\ UNCHANGED at => at' = [at EXCEPT ![p] = at[p]]
      /\ UNCHANGED data => data' = [data EXCEPT ![p] = data[p]]
  BY DEF Typed
<1>5. CASE Snapshot(p)
  <2> DEFINE d == Put(<< >>, Table, getAllInstanceRegions(stat))
  <2>1. Placed("grid", 1, d)
    BY <1>1, LooksGiveRows, GridAssumption DEF Placed, HandlerPCs, Grid
  <2> HIDE DEF d
  <2>2. pc' = [pc EXCEPT ![p] = "grid"] /\ at' = [at EXCEPT ![p] = 1]
        /\ data' = [data EXCEPT ![p] = d] /\ UNCHANGED <<wire, dataCache>>
    BY <1>5 DEF Snapshot, Goes, d
  <2>7. Moves(p, "grid", 1, d) BY <1>1, <1>2, <1>3, <2>1, <2>2 DEF Moves
  <2>8. TypedWire' BY <1>1, <1>2, <1>3, <2>1, <2>2
  <2> QED BY <1>1, <1>2, <1>3, <2>1, <2>2, <2>7, <2>8, PlacedNext
<1>6. CASE GetStatus(p)
  <2> DEFINE x == IF at[p] = GridSize THEN "table" ELSE "grid"
             n == at[p] + 1
  <2>1. pc[p] = "grid" /\ at[p] \in Grid /\ Table \in DOMAIN data[p]
    BY <1>6 DEF GetStatus, Gathered
  <2>2. PICK d \in {data[p], PutGridRow(data[p], at[p], stat)} :
          data' = [data EXCEPT ![p] = d]
    BY <1>4, <1>6 DEF GetStatus
  <2>3. d \in Row /\ Table \in DOMAIN d BY <1>1, <2>1, <2>2, LooksGiveRows
  <2>4. Placed(x, n, d)
    BY <1>1, <2>1, <2>3, GridAssumption DEF Placed, HandlerPCs, Grid
  <2>5. pc' = [pc EXCEPT ![p] = x] /\ at' = [at EXCEPT ![p] = n]
        /\ UNCHANGED <<wire, dataCache>>
    BY <1>6 DEF GetStatus, Goes
  <2> HIDE DEF x, n
  <2>6. TypedWire' BY <1>3, <2>5
  <2>7. Moves(p, x, n, d) BY <1>1, <1>2, <2>2, <2>4, <2>5, <2>6 DEF Moves
  <2>8. TypedWire' BY <1>1, <1>2, <2>2, <2>4, <2>5, <2>6
  <2> QED BY <1>1, <1>2, <2>2, <2>4, <2>5, <2>6, <2>7, <2>8, PlacedNext
<1>7. CASE WriteTable(p)
  <2>1. Table \in DOMAIN data[p] BY <1>7 DEF WriteTable, Gathered
  <2>2. TypedWire' BY <1>3, <1>7, <2>1, WriteTyped DEF WriteTable
  <2>3. Placed("count", at[p], data[p]) BY <1>1 DEF Placed, HandlerPCs
  <2>4. pc' = [pc EXCEPT ![p] = "count"] /\ UNCHANGED <<at, data>>
    BY <1>7 DEF WriteTable, Goes
  <2>7. Moves(p, "count", at[p], data[p]) BY <1>1, <1>2, <1>4, <2>2, <2>3, <2>4 DEF Moves
  <2>8. TypedWire' BY <1>1, <1>2, <1>4, <2>2, <2>3, <2>4
  <2> QED BY <1>1, <1>2, <1>4, <2>2, <2>3, <2>4, <2>7, <2>8, PlacedNext
<1>8. CASE WrapWithInfo(p)
  <2>1. PICK d \in {data[p], Put(data[p], Active, ActiveNodes)} :
          data' = [data EXCEPT ![p] = d]
    BY <1>4, <1>8 DEF WrapWithInfo
  <2>2. d \in Row BY <1>1, <2>1, LooksGiveRows
  <2>3. Placed("send", at[p], d) BY <1>1, <2>2 DEF Placed, HandlerPCs
  <2>4. pc' = [pc EXCEPT ![p] = "send"] /\ UNCHANGED <<at, wire, dataCache>>
    BY <1>8 DEF WrapWithInfo, Goes
  <2>7. Moves(p, "send", at[p], d) BY <1>1, <1>2, <1>3, <1>4, <2>1, <2>3, <2>4 DEF Moves
  <2>8. TypedWire' BY <1>1, <1>2, <1>3, <1>4, <2>1, <2>3, <2>4
  <2> QED BY <1>1, <1>2, <1>3, <1>4, <2>1, <2>3, <2>4, <2>7, <2>8, PlacedNext
<1>9. CASE Send(p)
  <2>1. pc[p] = "send" /\ UNCHANGED at BY <1>9 DEF Send
  <2>2. CASE Unsent(p) = {}
    <3>1. Placed("start", at[p], << >>) BY <1>1 DEF Placed, HandlerPCs
    <3>2. pc' = [pc EXCEPT ![p] = "start"] /\ data' = [data EXCEPT ![p] = << >>]
          /\ UNCHANGED <<wire, dataCache>>
      BY <1>9, <2>2 DEF Send, Goes
    <3>7. Moves(p, "start", at[p], << >>) BY <1>1, <1>2, <1>3, <1>4, <2>1, <3>1, <3>2 DEF Moves
    <3>8. TypedWire' BY <1>1, <1>2, <1>3, <1>4, <2>1, <3>1, <3>2
    <3> QED BY <1>1, <1>2, <1>3, <1>4, <2>1, <3>1, <3>2, <3>7, <3>8, PlacedNext
  <2>3. CASE Unsent(p) # {}
    <3>1. PICK i \in Unsent(p) : Write(p, i) BY <1>9, <2>3 DEF Send
    <3>2. TypedWire' BY <3>1, WriteTyped DEF Unsent
    <3>3. UNCHANGED <<pc, data>> BY <1>9, <2>3 DEF Send
    <3>7. Moves(p, pc[p], at[p], data[p]) BY <1>1, <1>2, <1>4, <2>1, <3>2, <3>3 DEF Moves
    <3>8. TypedWire' BY <1>1, <1>2, <1>4, <2>1, <3>2, <3>3
    <3> QED BY <1>1, <1>2, <1>4, <2>1, <3>2, <3>3, <3>7, <3>8, PlacedNext
  <2> QED BY <2>2, <2>3
<1> QED BY <1>5, <1>6, <1>7, <1>8, <1>9 DEF Handler

(* The browser and the rest of the program keep them too.                  *)
LEMMA BrowserTyped ==
    ASSUME Typed, Gathered, NEW p \in Pages, Load(p) \/ Connect(p) \/ Break(p) \/ Apply(p)
    PROVE  Typed' /\ Gathered'
<1>1. /\ data[p] \in Row /\ << >> \in Row /\ at[p] \in 1..(GridSize + 1)
      /\ Placed(pc[p], at[p], data[p]) /\ Nothing \in [Item -> Value]
  BY EmptyRow, PlacedNow DEF Typed, Nothing, Value
<1>2. TypedWorld'
  <2>1. UNCHANGED world /\ UNCHANGED faults
    BY DEF Load, Connect, Break, Apply, world
  <2>2. breaks' \in 0..MaxBreaks
    BY BoundAssumption DEF Typed, Load, Connect, Break, Apply
  <2> QED BY <2>1, <2>2 DEF Typed, TypedWorld, world
<1>3. /\ UNCHANGED pc => pc' = [pc EXCEPT ![p] = pc[p]]
      /\ UNCHANGED at => at' = [at EXCEPT ![p] = at[p]]
      /\ UNCHANGED data => data' = [data EXCEPT ![p] = data[p]]
  BY DEF Typed
<1>4. wire' = [wire EXCEPT ![p] = << >>] /\ UNCHANGED dataCache => TypedWire'
  <2> SUFFICES ASSUME wire' = [wire EXCEPT ![p] = << >>], UNCHANGED dataCache
               PROVE  TypedWire'
    OBVIOUS
  <2>1. wire' \in [Pages -> Seq(Event)] BY DEF Typed
  <2>2. \A q \in Pages : Len(wire'[q]) <= MaxWire BY BoundAssumption DEF Typed
  <2> QED BY <2>1, <2>2 DEF Typed, TypedWire
<1>5. Placed("closed", at[p], data[p]) BY <1>1 DEF Placed, HandlerPCs
<1>6. CASE Load(p)
  <2> DEFINE b == [shows |-> [Nothing EXCEPT ![Active] = ActiveNodes],
                   loaded |-> TRUE, again |-> FALSE]
  <2>1. b \in Browser BY <1>1 DEF Browser, ActiveNodes, Value
  <2> HIDE DEF b
  <2>2. page' \in [Pages -> Browser] BY <1>6, <2>1 DEF Load, Typed, b
  <2>3. /\ pc' = [pc EXCEPT ![p] = "closed"] /\ UNCHANGED <<at, data>>
        /\ wire' = [wire EXCEPT ![p] = << >>] /\ UNCHANGED dataCache
    BY <1>6 DEF Load, Goes
  <2>4. TypedWire' BY <1>4, <2>3
  <2>7. Moves(p, "closed", at[p], data[p]) BY <1>2, <1>3, <1>5, <2>2, <2>3, <2>4 DEF Moves
  <2>8. TypedWire' BY <1>2, <1>3, <1>5, <2>2, <2>3, <2>4
  <2> QED BY <1>2, <1>3, <1>5, <2>2, <2>3, <2>4, <2>7, <2>8, PlacedNext
<1>7. CASE Connect(p)
  <2>1. Placed("start", at[p], << >>) BY <1>1 DEF Placed, HandlerPCs
  <2>2. /\ pc' = [pc EXCEPT ![p] = "start"] /\ data' = [data EXCEPT ![p] = << >>]
        /\ UNCHANGED at /\ page' \in [Pages -> Browser]
    BY <1>7 DEF Connect, Goes, Typed
  <2>3. TypedWire' BY <1>1, <1>7 DEF Connect, Typed, TypedWire
  <2>7. Moves(p, "start", at[p], << >>) BY <1>2, <1>3, <2>1, <2>2, <2>3 DEF Moves
  <2>8. TypedWire' BY <1>2, <1>3, <2>1, <2>2, <2>3
  <2> QED BY <1>2, <1>3, <2>1, <2>2, <2>3, <2>7, <2>8, PlacedNext
<1>8. CASE Break(p)
  <2>1. page' \in [Pages -> Browser] BY <1>8 DEF Break, Typed, Browser
  <2>2. /\ pc' = [pc EXCEPT ![p] = "closed"] /\ UNCHANGED <<at, data>>
        /\ wire' = [wire EXCEPT ![p] = << >>] /\ UNCHANGED dataCache
    BY <1>8 DEF Break, Goes
  <2>3. TypedWire' BY <1>4, <2>2
  <2>7. Moves(p, "closed", at[p], data[p]) BY <1>2, <1>3, <1>5, <2>1, <2>2, <2>3 DEF Moves
  <2>8. TypedWire' BY <1>2, <1>3, <1>5, <2>1, <2>2, <2>3
  <2> QED BY <1>2, <1>3, <1>5, <2>1, <2>2, <2>3, <2>7, <2>8, PlacedNext
<1>9. CASE Apply(p)
  <2>1. /\ wire[p] \in Seq(Event) /\ wire[p] # << >> /\ Head(wire[p]) \in Event
        /\ Tail(wire[p]) \in Seq(Event) /\ Len(Tail(wire[p])) = Len(wire[p]) - 1
        /\ Len(wire[p]) \in Nat
    BY <1>9 DEF Apply, Typed
  <2>2. page' \in [Pages -> Browser]
    <3> DEFINE e == Head(wire[p])
    <3>1. e.item \in Item /\ e.value \in Value BY <2>1 DEF Event
    <3>2. page' = [page EXCEPT ![p].shows[e.item] = e.value] BY <1>9 DEF Apply
    <3> HIDE DEF e
    <3> QED BY <3>1, <3>2 DEF Typed, Browser
  <2>3. TypedWire'
    <3>1. wire' = [wire EXCEPT ![p] = Tail(wire[p])] /\ UNCHANGED dataCache
      BY <1>9 DEF Apply, handler
    <3>2. wire' \in [Pages -> Seq(Event)] BY <2>1, <3>1 DEF Typed
    <3>3. ASSUME NEW q \in Pages PROVE Len(wire'[q]) <= MaxWire
      BY <2>1, <3>1, BoundAssumption DEF Typed
    <3> QED BY <3>1, <3>2, <3>3 DEF Typed, TypedWire
  <2>4. UNCHANGED <<pc, at, data>> BY <1>9 DEF Apply, handler
  <2>7. Moves(p, pc[p], at[p], data[p]) BY <1>1, <1>2, <1>3, <2>2, <2>3, <2>4 DEF Moves
  <2>8. TypedWire' BY <1>1, <1>2, <1>3, <2>2, <2>3, <2>4
  <2> QED BY <1>1, <1>2, <1>3, <2>2, <2>3, <2>4, <2>7, <2>8, PlacedNext
<1> QED BY <1>6, <1>7, <1>8, <1>9

LEMMA ChangesTyped ==
    ASSUME Typed, Gathered, Changes
    PROVE  Typed' /\ Gathered'
<1>1. stat' \in [Instances -> Statuses]
  <2>1. CASE UNCHANGED stat BY <2>1 DEF Typed
  <2>2. CASE \E i \in Instances : \E s \in Follows(stat[i]) : stat' = [stat EXCEPT ![i] = s]
    <3>1. PICK i \in Instances : \E s \in Follows(stat[i]) : stat' = [stat EXCEPT ![i] = s]
      BY <2>2
    <3>2. stat[i] \in Statuses BY DEF Typed
    <3>3. Follows(stat[i]) \subseteq Statuses BY <3>2 DEF Follows, Statuses
    <3> QED BY <3>1, <3>3 DEF Typed
  <2> QED BY <2>1, <2>2 DEF Changes
<1>2. online' \in BOOLEAN /\ changes' \in 0..MaxChanges /\ UNCHANGED <<faults, breaks>>
  <2>1. online' \in BOOLEAN BY DEF Changes, Typed
  <2>2. changes' \in 0..MaxChanges BY BoundAssumption DEF Changes, Typed
  <2> QED BY <2>1, <2>2 DEF Changes
<1>3. UNCHANGED <<pc, at, dataCache, data, page, wire>> BY DEF Changes, handler
<1>4. Typed' BY <1>1, <1>2, <1>3 DEF Typed
<1>5. Gathered' BY <1>3 DEF Gathered
<1> QED BY <1>4, <1>5

-----------------------------------------------------------------------------
(* The cache of one connection tells the truth.                            *)

Shown(p) ==
    pc[p] # "closed" =>
        \A i \in Item :
            dataCache[p][i] # Blank
                => Final(i, page[p].shows[i], wire[p]) = dataCache[p][i]

Same(p) == /\ pc'[p] # "closed" => pc[p] # "closed"
           /\ dataCache'[p] = dataCache[p]
           /\ page'[p].shows = page[p].shows
           /\ wire'[p] = wire[p]

LEMMA SameShown == ASSUME NEW p \in Pages, Shown(p), Same(p) PROVE Shown(p)'
  BY DEF Shown, Same

LEMMA BufferNow == ASSUME Typed, NEW p \in Pages PROVE Buffer(wire[p])
<1>1. wire[p] \in Seq(Event) BY DEF Typed
<1> QED BY <1>1 DEF Buffer

LEMMA WriteShown ==
    ASSUME Typed, NEW p \in Pages, Shown(p), pc[p] # "closed",
           NEW i \in Item, Write(p, i), UNCHANGED page
    PROVE  Shown(p)'
<1> SUFFICES ASSUME NEW j \in Item, dataCache'[p][j] # Blank
             PROVE  Final(j, page[p].shows[j], wire'[p]) = dataCache'[p][j]
  BY DEF Shown
<1>1. PICK ev : wire'[p] = Append(wire[p], ev) /\ ev.item = i /\ ev.value = data[p][i]
  <2> DEFINE new == [item |-> i, value |-> data[p][i]]
  <2>1. wire'[p] = Append(wire[p], new) BY DEF Write, Typed
  <2>2. new.item = i /\ new.value = data[p][i] OBVIOUS
  <2> HIDE DEF new
  <2> QED BY <2>1, <2>2
<1>2. Buffer(wire[p]) BY BufferNow
<1>3. dataCache'[p][j] = IF j = i THEN data[p][i] ELSE dataCache[p][j]
  BY DEF Write, Typed
<1>4. PICK s, t, x : s = wire[p] /\ t = wire'[p] /\ x = page[p].shows[j] OBVIOUS
<1>5. Buffer(s) /\ t = Append(s, ev) BY <1>1, <1>2, <1>4
<1>6. CASE j = i
  <2>1. ev.item = j BY <1>1, <1>6
  <2>2. Final(j, x, t) = ev.value BY <1>5, <2>1, FinalAppend
  <2> QED BY <1>1, <1>3, <1>4, <1>6, <2>2
<1>7. CASE j # i
  <2>1. ev.item # j BY <1>1, <1>7
  <2>2. Final(j, x, t) = Final(j, x, s) BY <1>5, <2>1, FinalAppendOther
  <2>3. dataCache'[p][j] = dataCache[p][j] /\ dataCache[p][j] # Blank BY <1>3, <1>7
  <2>4. Final(j, page[p].shows[j], wire[p]) = dataCache[p][j] BY <2>3 DEF Shown
  <2> QED BY <1>4, <2>2, <2>3, <2>4
<1> QED BY <1>6, <1>7

LEMMA ApplyShown ==
    ASSUME Typed, NEW p \in Pages, Shown(p), Apply(p)
    PROVE  Shown(p)'
<1> DEFINE e == Head(wire[p])
<1> SUFFICES ASSUME pc[p] # "closed", NEW j \in Item, dataCache[p][j] # Blank
             PROVE  Final(j, page'[p].shows[j], wire'[p]) = dataCache[p][j]
  BY DEF Shown, Apply, handler
<1>1. wire'[p] = Tail(wire[p]) /\ wire[p] # << >> BY DEF Apply, Typed
<1>2. page'[p].shows[j] = IF e.item = j THEN e.value ELSE page[p].shows[j]
  <2>1. page' = [page EXCEPT ![p].shows[e.item] = e.value] BY DEF Apply
  <2>2. page[p] \in Browser /\ p \in DOMAIN page BY DEF Typed
  <2>3. page'[p].shows = [page[p].shows EXCEPT ![e.item] = e.value]
    BY <2>1, <2>2 DEF Browser
  <2>4. page[p].shows \in [Item -> Value] BY <2>2 DEF Browser
  <2> HIDE DEF e
  <2> QED BY <2>3, <2>4
<1>3. Final(j, page[p].shows[j], wire[p])
        = Final(j, IF e.item = j THEN e.value ELSE page[p].shows[j], Tail(wire[p]))
  BY <1>1, BufferNow, FinalApply
<1>4. Final(j, page[p].shows[j], wire[p]) = dataCache[p][j] BY DEF Shown
<1> QED BY <1>1, <1>2, <1>3, <1>4

LEMMA StepShown ==
    ASSUME Typed, Gathered, CacheIsShown, [Next]_vars
    PROVE  CacheIsShown'
<1>1. \A p \in Pages : Shown(p) BY DEF CacheIsShown, Shown
<1> SUFFICES ASSUME NEW q \in Pages PROVE Shown(q)' BY DEF CacheIsShown, Shown
<1>2. ASSUME NEW p \in Pages, Handler(p) PROVE Shown(q)'
  <2>1. UNCHANGED page
    BY <1>2 DEF Handler, Snapshot, GetStatus, WriteTable, WrapWithInfo, Send
  <2>2. CASE q # p
    <3>1. Same(q) BY <1>2, <2>1, <2>2 DEF Handler, Snapshot, GetStatus, WriteTable,
                     WrapWithInfo, Send, Write, Goes, Same, Typed
    <3> QED BY <1>1, <3>1, SameShown
  <2>3. CASE q = p
    <3>1. pc[p] # "closed"
      BY <1>2 DEF Handler, Snapshot, GetStatus, WriteTable, WrapWithInfo, Send
    <3>2. CASE UNCHANGED <<wire, dataCache>>
      <4>1. Same(q) BY <2>1, <2>3, <3>1, <3>2 DEF Same
      <4> QED BY <1>1, <4>1, SameShown
    <3>3. CASE \E i \in Item : Write(p, i)
      BY <1>1, <2>1, <2>3, <3>1, <3>3, WriteShown
    <3>4. (\E i \in Item : Write(p, i)) \/ UNCHANGED <<wire, dataCache>>
      <4>1. \A i \in Unsent(p) : i \in Item BY RowFields DEF Unsent, Typed
      <4> QED BY <1>2, <4>1, Items
              DEF Handler, Snapshot, GetStatus, WriteTable, WrapWithInfo, Send
    <3> QED BY <3>2, <3>3, <3>4
  <2> QED BY <2>2, <2>3
<1>3. ASSUME NEW p \in Pages, Load(p) \/ Connect(p) \/ Break(p) \/ Apply(p)
      PROVE  Shown(q)'
  <2>1. CASE q # p
    <3>1. Same(q) BY <1>3, <2>1 DEF Load, Connect, Break, Apply, Goes, handler, Same, Typed
    <3> QED BY <1>1, <3>1, SameShown
  <2>2. CASE q = p /\ (Load(p) \/ Break(p))
    <3>1. pc'[q] = "closed" BY <2>2 DEF Load, Break, Goes, Typed
    <3> QED BY <3>1 DEF Shown
  <2>3. CASE q = p /\ Connect(p)
    <3>1. \A i \in Item : dataCache'[q][i] = Blank BY <2>3 DEF Connect, Typed, Nothing
    <3> QED BY <3>1 DEF Shown
  <2>4. CASE q = p /\ Apply(p) BY <1>1, <2>4, ApplyShown
  <2> QED BY <1>3, <2>1, <2>2, <2>3, <2>4
<1>4. CASE Changes
  <2>1. Same(q) BY <1>4 DEF Changes, handler, Same
  <2> QED BY <1>1, <2>1, SameShown
<1>5. CASE UNCHANGED vars
  <2>1. Same(q) BY <1>5 DEF vars, Same
  <2> QED BY <1>1, <2>1, SameShown
<1> QED BY <1>2, <1>3, <1>4, <1>5 DEF Next

LEMMA InductiveHolds == Spec => []Inductive
<1>1. Inductive /\ [Next]_vars => Inductive'
  <2> SUFFICES ASSUME Inductive, [Next]_vars PROVE Inductive' OBVIOUS
  <2>1. Typed /\ Gathered /\ CacheIsShown BY DEF Inductive
  <2>2. Typed' /\ Gathered'
    <3>1. CASE UNCHANGED vars BY <2>1, <3>1 DEF vars, Typed, Gathered
    <3> QED BY <2>1, <3>1, HandlerTyped, BrowserTyped, ChangesTyped DEF Next
  <2>3. CacheIsShown' BY <2>1, StepShown
  <2> QED BY <2>2, <2>3 DEF Inductive
<1> QED BY <1>1, InitTyped, PTL DEF Spec

(* The state of handlers, pages and the wire between them always has its   *)
(* type; no more than MaxWire events are ever buffered.                    *)
THEOREM TypeCorrect == Spec => []TypeOK
<1>1. Inductive => TypeOK BY TypedIsTypeOK DEF Inductive
<1> QED BY <1>1, InductiveHolds, PTL

(* dataCache tells the truth (manager.go:366-373, 426-434): whatever a     *)
(* handler will not write again is what its page shows, or will show when  *)
(* it has read what is buffered, however long the buffer is and however    *)
(* many connections broke before.                                          *)
THEOREM CacheTellsTheTruth == Spec => []CacheIsShown
<1>1. Inductive => CacheIsShown BY DEF Inductive
<1> QED BY <1>1, InductiveHolds, PTL

=============================================================================
