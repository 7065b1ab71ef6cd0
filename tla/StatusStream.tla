---------------------------- MODULE StatusStream ----------------------------
(***************************************************************************)
(* The page and its event stream (internal/server/manager.go).  A handler  *)
(* goroutine per connection takes, every second, one look at the registry  *)
(* for the table of nodes, one per service for the region grid and one at  *)
(* the tailnet for the header, all at different times, and writes only     *)
(* what differs from what it wrote on this connection before (dataCache).  *)
(* The browser applies what arrives, and connects again, to a new handler, *)
(* when the connection breaks.                                             *)
(*                                                                         *)
(* A text with a duration in it stands for its kind: that it is written    *)
(* again when the duration changes is left out.  Blank is Go's "": what an *)
(* empty element shows and what a map has under a key it does not hold.    *)
(***************************************************************************)
EXTENDS Naturals, Sequences, FiniteSetsExt

CONSTANTS
    Pages,          \* browser pages
    GridSize,       \* services without named instances, each with one region
    Blank,          \* ""
    MaxWire,        \* bound: written events that a connection buffers
    MaxChanges,     \* bound: changes of the registry and the tailnet
    MaxFaults,      \* bound: peer lists that cannot be fetched
    MaxBreaks       \* bound: connections that break and pages loaded again

ASSUME GridAssumption  == GridSize \in Nat \ {0}
ASSUME BoundAssumption == /\ MaxWire \in Nat \ {0} /\ MaxChanges \in Nat
                          /\ MaxFaults \in Nat /\ MaxBreaks \in Nat

VARIABLES
    stat,       \* the registry's statuses; "none" without an entry
    online,     \* the exit node is in the tailnet's peer list
    pc, at,     \* each page's handler: where in its loop, the next service,
    dataCache,  \* what it wrote on this connection,
    data,       \* and what it has made of the current round of looks
    page,       \* what each page shows, and whether it connected again
    wire,       \* events written and not applied
    changes, faults, breaks

vars == <<stat, online, pc, at, dataCache, data, page, wire, changes, faults, breaks>>
world == <<stat, online, changes>>
handler == <<pc, at, dataCache, data>>

(* The services of the grid in the order of services.All, the exit node    *)
(* first, and one instance of a service with named instances.              *)
Grid      == 1..GridSize
Instances == 1..(GridSize + 1)

Statuses == {"none", "idle", "launching", "running", "failed"}

(* The elements of the page that events replace. *)
Item  == [of : {"pill", "button"}, at : Grid] \cup {[of |-> "table", at |-> 0],
                                                    [of |-> "active", at |-> 0]}
Table  == [of |-> "table", at |-> 0]
Active == [of |-> "active", at |-> 0]
Pill(s)   == [of |-> "pill", at |-> s]
Button(s) == [of |-> "button", at |-> s]

Nothing == [i \in Item |-> Blank]

HandlerPCs == {"closed", "start", "grid", "table", "count", "send"}

Init == /\ stat = [i \in Instances |-> "none"]
        /\ online = FALSE
        /\ pc = [p \in Pages |-> "closed"]
        /\ at = [p \in Pages |-> 1]
        /\ dataCache = [p \in Pages |-> Nothing]
        /\ data = [p \in Pages |-> << >>]
        /\ page = [p \in Pages |-> [shows |-> Nothing, loaded |-> FALSE, again |-> FALSE]]
        /\ wire = [p \in Pages |-> << >>]
        /\ changes = 0 /\ faults = 0 /\ breaks = 0

Fault   == faults < MaxFaults /\ faults' = faults + 1
NoFault == faults' = faults

-----------------------------------------------------------------------------
(* What is made of a status.                                               *)
HasNode(s) == s = "running"

(* One card per instance that is launching, failed or running. *)
Card(s) == IF s \in {"launching", "failed", "running"} THEN s ELSE "none"
getAllInstanceRegions(st) == [i \in Instances |-> Card(st[i])]

PillOf(s) == IF Card(s) = "none" THEN Blank ELSE s

ButtonOf(s) == IF HasNode(s) THEN "delete"
               ELSE IF s = "launching" THEN "create disabled" ELSE "create"

(* row[i] = v, row a map. *)
Put(row, i, v) == [x \in DOMAIN row \cup {i} |-> IF x = i THEN v ELSE row[x]]

PutGridRow(row, s, st) ==
    Put(Put(row, Pill(s), PillOf(st[s])), Button(s), ButtonOf(st[s]))

(* The peers with a region's hostname of the exit service. *)
ActiveNodes == IF online THEN 1 ELSE 0

-----------------------------------------------------------------------------
(* The handler: the loop body, one look or write at a time.                *)
Goes(p, x) == pc' = [pc EXCEPT ![p] = x]

Snapshot(p) ==
    /\ pc[p] = "start" /\ Goes(p, "grid")
    /\ at' = [at EXCEPT ![p] = 1]
    /\ data' = [data EXCEPT ![p] = Put(<< >>, Table, getAllInstanceRegions(stat))]
    /\ UNCHANGED <<world, dataCache, page, wire, faults, breaks>>

(* GetStatus of the next service; on an error its keys stay out. *)
\* mutant: the services with named instances too
GetStatus_Named(p) ==
    /\ pc[p] = "grid" /\ Goes(p, IF at[p] = GridSize + 1 THEN "table" ELSE "grid")
    /\ at' = [at EXCEPT ![p] = @ + 1]
    /\ NoFault /\ data' = [data EXCEPT ![p] = PutGridRow(@, at[p], stat)]
    /\ UNCHANGED <<world, dataCache, page, wire, breaks>>

GetStatus(p) ==
    /\ pc[p] = "grid" /\ Goes(p, IF at[p] = GridSize THEN "table" ELSE "grid")
    /\ at' = [at EXCEPT ![p] = @ + 1]
    /\ \/ NoFault /\ data' = [data EXCEPT ![p] = PutGridRow(@, at[p], stat)]
       \/ Fault /\ UNCHANGED data
    /\ UNCHANGED <<world, dataCache, page, wire, breaks>>

(* Writes the item if it differs from what was written. *)
\* mutant: the first value only
Differs_New(p, i) == dataCache[p][i] = Blank /\ data[p][i] # Blank

Differs(p, i) == dataCache[p][i] # data[p][i]

Write(p, i) ==
    /\ Len(wire[p]) < MaxWire
    /\ wire' = [wire EXCEPT ![p] = Append(@, [item |-> i, value |-> data[p][i]])]
    /\ dataCache' = [dataCache EXCEPT ![p][i] = data[p][i]]

WriteTable(p) ==
    /\ pc[p] = "table" /\ Goes(p, "count")
    /\ IF Differs(p, Table) THEN Write(p, Table) ELSE UNCHANGED <<wire, dataCache>>
    /\ UNCHANGED <<world, at, data, page, faults, breaks>>

WrapWithInfo(p) ==
    /\ pc[p] = "count" /\ Goes(p, "send")
    /\ \/ NoFault /\ data' = [data EXCEPT ![p] = Put(@, Active, ActiveNodes)]
       \/ Fault /\ UNCHANGED data
    /\ UNCHANGED <<world, at, dataCache, page, wire, breaks>>

(* Go's map order: any of those left. *)
Unsent(p) == {i \in DOMAIN data[p] : Differs(p, i)}

Send(p) ==
    /\ pc[p] = "send"
    /\ IF Unsent(p) = {}
       THEN /\ Goes(p, "start") /\ data' = [data EXCEPT ![p] = << >>]
            /\ UNCHANGED <<wire, dataCache>>
       ELSE (\E i \in Unsent(p) : Write(p, i)) /\ UNCHANGED <<pc, data>>
    /\ UNCHANGED <<world, at, page, faults, breaks>>

Handler(p) == Snapshot(p) \/ GetStatus(p) \/ WriteTable(p) \/ WrapWithInfo(p) \/ Send(p)

-----------------------------------------------------------------------------
(* The browser.  The page is rendered with the header's count and without  *)
(* pills, buttons and table.                                               *)
Load(p) ==
    /\ breaks < MaxBreaks \/ ~page[p].loaded
    /\ breaks' = IF page[p].loaded THEN breaks + 1 ELSE breaks
    /\ page' = [page EXCEPT ![p] = [shows |-> [Nothing EXCEPT ![Active] = ActiveNodes],
                                    loaded |-> TRUE, again |-> FALSE]]
    /\ Goes(p, "closed")
    /\ wire' = [wire EXCEPT ![p] = << >>]
    /\ UNCHANGED <<world, at, dataCache, data, faults>>

(* A connection gets a handler with an empty dataCache. *)
\* mutant: what was written to the page before counts
Connect_SameCache(p) ==
    /\ page[p].loaded /\ pc[p] = "closed" /\ Goes(p, "start")
    /\ UNCHANGED <<world, at, dataCache, data, page, wire, faults, breaks>>

Connect(p) ==
    /\ page[p].loaded /\ pc[p] = "closed" /\ Goes(p, "start")
    /\ dataCache' = [dataCache EXCEPT ![p] = Nothing]
    /\ data' = [data EXCEPT ![p] = << >>]
    /\ UNCHANGED <<world, at, page, wire, faults, breaks>>

Break(p) ==
    /\ pc[p] # "closed" /\ Goes(p, "closed")
    /\ breaks < MaxBreaks /\ breaks' = breaks + 1
    /\ wire' = [wire EXCEPT ![p] = << >>]
    /\ page' = [page EXCEPT ![p].again = TRUE]
    /\ UNCHANGED <<world, at, dataCache, data, faults>>

Apply(p) ==
    /\ wire[p] # << >>
    /\ LET e == Head(wire[p])
       IN  page' = [page EXCEPT ![p].shows[e.item] = e.value]
    /\ wire' = [wire EXCEPT ![p] = Tail(@)]
    /\ UNCHANGED <<world, handler, faults, breaks>>

(* The rest of the program: InstanceRegistry's statuses as they come. *)
Follows(s) == CASE s = "none"      -> {"launching", "running"}
                [] s = "idle"      -> {"launching", "running", "none"}
                [] s = "launching" -> {"running", "failed", "none"}
                [] s = "running"   -> {"idle", "none"}
                [] s = "failed"    -> {"launching", "none"}

Changes ==
    /\ changes < MaxChanges /\ changes' = changes + 1
    /\ \/ /\ UNCHANGED online
          /\ \E i \in Instances : \E s \in Follows(stat[i]) :
                stat' = [stat EXCEPT ![i] = s]
       \/ online' = ~online /\ UNCHANGED stat
    /\ UNCHANGED <<handler, page, wire, faults, breaks>>

Next == \/ \E p \in Pages : Handler(p) \/ Load(p) \/ Connect(p) \/ Break(p) \/ Apply(p)
        \/ Changes

Spec == Init /\ [][Next]_vars

(* The ticker fires, the page reads its connection and connects again.     *)
Fairness == \A p \in Pages : /\ WF_vars(Handler(p))
                             /\ WF_vars(Apply(p))
                             /\ WF_vars(Connect(p))

FairSpec == Spec /\ Fairness

-----------------------------------------------------------------------------
TypeOK == /\ stat \in [Instances -> Statuses]
          /\ online \in BOOLEAN
          /\ pc \in [Pages -> HandlerPCs]
          /\ at \in [Pages -> 1..(GridSize + 1)]
          /\ \A p \in Pages : /\ DOMAIN dataCache[p] = Item
                              /\ DOMAIN data[p] \subseteq Item
                              /\ DOMAIN page[p].shows = Item
                              /\ Len(wire[p]) <= MaxWire
          /\ changes \in 0..MaxChanges
          /\ faults \in 0..MaxFaults
          /\ breaks \in 0..MaxBreaks

(* What a page will show of an item once it has read everything. *)
Final(i, shown, events) ==
    LET mine == {k \in DOMAIN events : events[k].item = i}
    IN  IF mine = {} THEN shown ELSE events[Max(mine)].value

(* dataCache tells the truth: what a handler thinks it has written, and    *)
(* will not write again while it stays the same, is what its page shows or *)
(* is on its way there (manager.go:366-373, 426-434), however many         *)
(* connections broke before.                                               *)
CacheIsShown ==
    \A p \in Pages : pc[p] # "closed" =>
        \A i \in Item :
            dataCache[p][i] # Blank
                => Final(i, page[p].shows[i], wire[p]) = dataCache[p][i]

(* The pill of a page that lost a connection may keep what it showed: a    *)
(* blank pill equals what a new dataCache holds for it, and is not sent.   *)
Faithful(p, i) == i.of = "pill" => ~page[p].again

Settled(p) ==
    /\ page[p].shows[Table] = getAllInstanceRegions(stat)
    /\ page[p].shows[Active] = ActiveNodes
    /\ \A s \in Grid :
          /\ page[p].shows[Button(s)] = ButtonOf(stat[s])
          /\ Faithful(p, Pill(s)) => page[p].shows[Pill(s)] = PillOf(stat[s])

(* When nothing changes any more, every page that was loaded ends up       *)
(* showing the status that is, though the handler's looks at it were taken *)
(* at different times and some failed (manager.go:370-444).                *)
PagesSettle == <>[](\A p \in Pages : page[p].loaded => Settled(p))

=============================================================================
