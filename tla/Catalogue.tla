----------------------------- MODULE Catalogue -----------------------------
(***************************************************************************)
(* The caches in front of the price lists, one per provider, and the list  *)
(* of regions behind utils.LazyWithErrors: page requests ask for a         *)
(* region's estimate, creations for the machine type to use, both at the   *)
(* same time, while the cloud's answers fail now and then.                 *)
(*                                                                         *)
(* A caller loads with the cache's lock held, so a load is one stage of a  *)
(* call and the others wait; what a caller reads after it gave the lock    *)
(* back is a step of its own.  A Tick is a part of cacheDuration.          *)
(***************************************************************************)
EXTENDS Prices

CONSTANTS
    Callers,        \* goroutines that ask
    NoCaller,       \* the lock is free
    Kinds,          \* the providers looked at
    Plain,          \* the price list that several callers ask for
    Day,            \* cacheDuration, in ticks
    MaxFaults       \* bound: calls to the cloud that fail

ASSUME CallerAssumption == NoCaller \notin Callers
ASSUME KindAssumption   ==
    Kinds \subseteq {"do", "vultr", "linode", "ec2", "azure", "gcp", "hetzner"}
ASSUME ListAssumption   == Plain \in List
ASSUME DayAssumption    == Day \in Nat \ {0} /\ MaxFaults \in Nat

VARIABLES
    kind,       \* which provider this is
    list,       \* its cloud's price list
    active,     \* the callers, or nobody when only tables are looked at
    cache,      \* the table, whether there is one, and its age
    rates,      \* GCP's priceCacheOnce
    lock,       \* who holds the cache's lock and loads
    call,       \* what each caller is doing
    lazy,       \* the once-value of the regions
    faults

vars == <<kind, list, active, cache, rates, lock, call, lazy, faults>>
setting == <<kind, list, active>>

(* EC2 and Linode load once per process; the others look at the age. *)
Once == {"ec2", "linode"}

CacheType == [set : BOOLEAN, table : Table, age : 0..Day]
CallPCs   == {"idle", "ensure", "load", "read", "once", "list", "sleep", "done"}
Wants     == {"estimate", "create", "cost", "regions"}

(* ans: what came out so far; failed: a call to the cloud failed for it;   *)
(* stale: the age of what it was told.                                     *)
CallType  == [pc : CallPCs, want : Wants, region : Regions, ans : Entry,
              failed : BOOLEAN, stale : 0..Day]

NewCall(pc, want, region) == [pc |-> pc, want |-> want, region |-> region,
                              ans |-> None, failed |-> FALSE, stale |-> 0]
SomeRegion == CHOOSE r \in Regions : TRUE
Idle       == NewCall("idle", "estimate", SomeRegion)

(* What a provider does not read of a list is Plain's. *)
Everywhere(l) == l.at = Plain.at
NoOwn(l)      == l.own = Plain.own
SameBase(l)   == l.base = Plain.base

Lists(k) == {l \in List :
    CASE k = "do"     -> NoOwn(l) /\ l.odd = {}
      [] k = "vultr"  -> NoOwn(l)
      [] k = "linode" -> Everywhere(l)
      [] k \in {"azure", "gcp"} -> TRUE
      [] OTHER        -> SameBase(l) /\ Everywhere(l) /\ l.odd = {}}

(* Either all callers and the one list, or a list to make a table of. *)
Init ==
    /\ kind \in Kinds
    /\ \/ active = Callers /\ list = Plain
       \/ active = {} /\ list \in Lists(kind)
    /\ cache = [set |-> FALSE, table |-> NoTable, age |-> Day]
    /\ rates = "unset"
    /\ lock = NoCaller
    /\ call = [c \in Callers |-> Idle]
    /\ lazy = [pc |-> "unset", regions |-> {}]
    /\ faults = 0

Fault   == faults < MaxFaults /\ faults' = faults + 1
NoFault == faults' = faults

-----------------------------------------------------------------------------
(* A call begins.  A create asks for a type, an estimate for a cost.       *)
Ask(c) ==
    /\ c \in active /\ call[c].pc = "idle"
    /\ \E w \in {"estimate", "create"}, r \in Regions :
          call' = [call EXCEPT ![c] = NewCall("ensure", w, r)]
    /\ UNCHANGED <<setting, cache, rates, lock, lazy, faults>>

Goto(c, pc) == [call EXCEPT ![c].pc = pc]

(* The call's cloud answer failed: an estimate becomes a made-up number and*)
(* a creation an error.                                                    *)
GivesUp(c) == [call EXCEPT ![c].pc = "done", ![c].failed = TRUE]

(* A call that goes on with whatever the cache holds.                      *)
GoesOn(c) == [call EXCEPT ![c].pc = IF @ = "load" /\ call[c].want = "regions"
                                    THEN "list" ELSE "read",
                          ![c].failed = TRUE]

AfterEnsure(c) == IF call[c].want = "regions" THEN "list" ELSE "read"

(* time.Since(...) < cacheDuration && cache != nil, or the sync.Once.      *)
\* mutant: what was loaded once is kept
Fresh_Ever == cache.set

Fresh == /\ cache.set /\ (kind \in Once \/ cache.age < Day)
         /\ kind = "vultr" => cache.table # NoTable

\* mutant: the lock is given back before the load
Locks_Not(c) == lock

Locks(c) == c

Ensure(c) ==
    /\ call[c].pc = "ensure" /\ lock = NoCaller
    /\ IF Fresh THEN call' = Goto(c, AfterEnsure(c)) /\ UNCHANGED lock
                ELSE call' = Goto(c, "load") /\ lock' = Locks(c)
    /\ UNCHANGED <<setting, cache, rates, lazy, faults>>

(* A load ends: the table is there, or what was there stays, or nothing is.*)
Loading(c, k) == kind = k /\ call[c].pc = "load"

Stores(t) == cache' = [set |-> TRUE, table |-> t, age |-> 0]
Clears    == cache' = [cache EXCEPT !.set = FALSE, !.table = NoTable]

Loaded(c, t) ==
    /\ Stores(t) /\ NoFault
    /\ call' = Goto(c, AfterEnsure(c))

Releases == lock' = NoCaller /\ UNCHANGED <<setting, lazy>>

DOLoad(c) ==
    /\ Loading(c, "do")
    /\ \/ Loaded(c, DOTable(list))
       \/ Fault /\ Clears /\ call' = GivesUp(c)
    /\ Releases /\ UNCHANGED rates

HetznerLoad(c) ==
    /\ Loading(c, "hetzner")
    /\ \/ Loaded(c, HetznerTable(list))
       \/ Fault /\ Clears /\ call' = GivesUp(c)
    /\ Releases /\ UNCHANGED rates

AzureLoad(c) ==
    /\ Loading(c, "azure")
    /\ \/ Loaded(c, AzureTable(list))
       \/ Fault /\ UNCHANGED cache /\ call' = GivesUp(c)
    /\ Releases /\ UNCHANGED rates

VultrLoad(c) ==
    /\ Loading(c, "vultr")
    /\ \/ Loaded(c, VultrTable(list))
       \/ Fault /\ UNCHANGED cache /\ call' = GoesOn(c)
    /\ Releases /\ UNCHANGED rates

(* A page that fails ends the loop, and what was read is all there is.     *)
EC2Load(c) ==
    /\ Loading(c, "ec2")
    /\ \/ Loaded(c, EC2Table(list, Types \X Regions))
       \/ \E read \in SUBSET (Types \X Regions) :
             Fault /\ Stores(EC2Table(list, read)) /\ call' = GoesOn(c)
    /\ Releases /\ UNCHANGED rates

LinodeLoad(c) ==
    /\ Loading(c, "linode")
    /\ \/ Loaded(c, LinodeTable(list))
       \/ Fault /\ Stores(NoTable) /\ call' = GoesOn(c)
    /\ Releases /\ UNCHANGED rates

(* GCP lists its regions, which may be an error, gets the rates once for   *)
(* the process, whatever comes of it, and then each region's types, which  *)
(* may leave a region out; the last two count as success.                  *)
PopulatePriceCache(out) == rates' = IF rates = "unset" THEN out ELSE rates

GCPLoad(c) ==
    /\ Loading(c, "gcp")
    /\ \/ Fault /\ Clears /\ call' = GivesUp(c) /\ UNCHANGED rates
       \/ /\ PopulatePriceCache("known")
          /\ LET T(known) == IF rates' = "known" THEN GCPTable(list, known) ELSE NoTable
             IN  \/ Loaded(c, T(Regions))
                \/ /\ \E r \in Regions : Stores(T(Regions \ {r}))
                   /\ Fault /\ call' = GoesOn(c)
       \/ /\ rates = "unset" /\ PopulatePriceCache("nil")
          /\ Fault /\ Stores(NoTable) /\ call' = GoesOn(c)
    /\ Releases

Load(c) == \/ DOLoad(c) \/ HetznerLoad(c) \/ AzureLoad(c) \/ VultrLoad(c)
           \/ EC2Load(c) \/ LinodeLoad(c) \/ GCPLoad(c)

(* The read after the lock was given back.  The answer of a create is its  *)
(* machine type; DigitalOcean asks for the cost once more, afterwards.     *)
Read(c) ==
    /\ call[c].pc = "read"
    /\ LET e    == cache.table[call[c].region]
           more == kind = "do" /\ call[c].want = "create" /\ e # None
           got  == IF call[c].want = "cost" THEN [call[c].ans EXCEPT !.cost = e.cost] ELSE e
       IN  call' = [call EXCEPT ![c].ans = got,
                                ![c].stale = cache.age,
                                ![c].want = IF more THEN "cost" ELSE @,
                                ![c].pc = IF more THEN "ensure" ELSE "done"]
    /\ UNCHANGED <<setting, cache, rates, lock, lazy, faults>>

Returns(c) ==
    /\ call[c].pc = "done"
    /\ call' = [call EXCEPT ![c] = Idle]
    /\ UNCHANGED <<setting, cache, rates, lock, lazy, faults>>

-----------------------------------------------------------------------------
(* The regions: the first caller lists them, again and again until it      *)
(* works, inside sync.OnceValue; the others wait for it.  Vultr keeps only *)
(* regions that its price table has.                                       *)
AskRegions(c) ==
    /\ c \in active /\ call[c].pc = "idle"
    /\ call' = [call EXCEPT ![c] = NewCall("once", "regions", SomeRegion)]
    /\ UNCHANGED <<setting, cache, rates, lock, lazy, faults>>

Listing == IF kind = "vultr" THEN "ensure" ELSE "list"

EnterOnce(c) ==
    /\ call[c].pc = "once"
    /\ \/ /\ lazy.pc = "unset"
          /\ lazy' = [lazy EXCEPT !.pc = "running"]
          /\ call' = Goto(c, Listing)
       \/ lazy.pc = "set" /\ UNCHANGED lazy /\ call' = Goto(c, "done")
    /\ UNCHANGED <<setting, cache, rates, lock, faults>>

Listed == IF kind = "vultr" THEN {r \in Regions : cache.table[r] # None} ELSE Regions

\* mutant: the value is kept whatever came of it
ListRegions_Once(c) ==
    /\ call[c].pc = "list"
    /\ \/ NoFault /\ lazy' = [pc |-> "set", regions |-> Listed]
       \/ Fault /\ lazy' = [pc |-> "set", regions |-> {}]
    /\ call' = Goto(c, "done")
    /\ UNCHANGED <<setting, cache, rates, lock>>

ListRegions(c) ==
    /\ call[c].pc = "list"
    /\ \/ /\ NoFault
          /\ lazy' = [pc |-> "set", regions |-> Listed]
          /\ call' = Goto(c, "done")
       \/ /\ Fault
          /\ UNCHANGED lazy
          /\ call' = Goto(c, "sleep")
    /\ UNCHANGED <<setting, cache, rates, lock>>

\* mutant: one attempt
Retry_Never(c) == call[c].pc = "sleep" /\ call' = Goto(c, "done")
                  /\ UNCHANGED <<setting, cache, rates, lock, lazy, faults>>

Retry(c) ==
    /\ call[c].pc = "sleep" /\ call' = Goto(c, Listing)
    /\ UNCHANGED <<setting, cache, rates, lock, lazy, faults>>

(* Time passes between calls: a call takes next to nothing of a day.       *)
Tick ==
    /\ \A c \in Callers : call[c].pc \notin {"load", "read", "list"}
    /\ cache.age < Day
    /\ cache' = [cache EXCEPT !.age = @ + 1]
    /\ UNCHANGED <<setting, rates, lock, call, lazy, faults>>

Step(c) == \/ Ensure(c) \/ Load(c) \/ Read(c) \/ Returns(c)
           \/ EnterOnce(c) \/ ListRegions(c) \/ Retry(c)

Next == \/ \E c \in Callers : Ask(c) \/ AskRegions(c) \/ Step(c)
        \/ Tick

Spec == Init /\ [][Next]_vars

(* A caller's goroutine runs on; the lock is handed on in the end.         *)
Fairness == \A c \in Callers : SF_vars(Ensure(c)) /\ WF_vars(Step(c))

FairSpec == Spec /\ Fairness

-----------------------------------------------------------------------------
TypeOK == /\ kind \in Kinds /\ list \in List /\ active \subseteq Callers
          /\ cache \in CacheType
          /\ rates \in {"unset", "known", "nil"}
          /\ lock \in Callers \cup {NoCaller}
          /\ call \in [Callers -> CallType]
          /\ lazy \in [pc : {"unset", "running", "set"}, regions : SUBSET Regions]
          /\ faults \in 0..MaxFaults

(* What each provider's loading makes of a complete list. *)
TableOf == CASE kind = "do"      -> DOTable(list)
             [] kind = "vultr"   -> VultrTable(list)
             [] kind = "linode"  -> LinodeTable(list)
             [] kind = "ec2"     -> EC2Table(list, Types \X Regions)
             [] kind = "azure"   -> AzureTable(list)
             [] kind = "gcp"     -> GCPTable(list, Regions)
             [] kind = "hetzner" -> HetznerTable(list)

(* Whatever the cloud's list: "Using cheapest size for the region" (do.go, *)
(* vultr.go, ...), except for Hetzner, which sorts by the price of another *)
(* location: there the type is one that the location sells, at the cost    *)
(* that is shown (hetzner.go:254-285).                                     *)
TablesAreRight ==
    \A r \in Regions :
        IF kind = "hetzner"
        THEN IF Offers(kind, list, r) = {} THEN TableOf[r] = None
                                           ELSE TableOf[r] \in Offers(kind, list, r)
        ELSE IsCheapest(TableOf[r], kind, list, r)

Answered(c) == call[c].pc = "done" /\ call[c].want # "regions"

Forgets == {"do", "azure", "vultr", "hetzner"}

(* A call none of whose own requests failed is answered from the complete  *)
(* table, whoever else is loading or failing to meanwhile.  What EC2, GCP  *)
(* and Linode cache of a failure is everybody's answer from then on, so    *)
(* for them only as long as nothing failed (the GetRegionHourlyEstimate    *)
(* and cheapest-size lookups of internal/providers).                       *)
AnswersComplete ==
    \A c \in Callers :
        Answered(c) /\ ~call[c].failed /\ (kind \in Forgets \/ faults = 0)
            => call[c].ans = TableOf[call[c].region]

(* Nobody is told a price that is a day old, unless refreshing it failed   *)
(* for that very caller; EC2 and Linode never refresh.                     *)
NoOldPrices ==
    \A c \in Callers :
        Answered(c) /\ ~call[c].failed /\ kind \notin Once => call[c].stale < Day

(* The regions are kept for the life of the process (lazy.go:8-20), so they*)
(* must be all of them, whatever failed on the way.  Vultr's are those with*)
(* a plan, or fewer if the plans could not be listed.                      *)
RegionsComplete ==
    lazy.pc = "set" =>
        IF kind = "vultr"
        THEN faults = 0 => lazy.regions = {r \in Regions : TableOf[r] # None}
        ELSE lazy.regions = Regions

(* Every page that asks for the regions gets them, although the first      *)
(* caller holds all others up while it retries (lazy.go:8-20).             *)
RegionsCome == \A c \in Callers : call[c].pc = "once" ~> lazy.pc = "set"
=============================================================================
