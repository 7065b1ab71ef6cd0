------------------------------- MODULE Prices -------------------------------
(***************************************************************************)
(* What the clouds' price lists say and what each provider makes of them:  *)
(* one machine type per region, meant to be the cheapest one offered, and  *)
(* its hourly cost.  Machine types and regions are numbered in the order   *)
(* in which the clouds list them; 0 is no price.                           *)
(***************************************************************************)
EXTENDS Naturals, FiniteSets

CONSTANTS Types, Regions, MaxPrice

ASSUME PriceAssumption == /\ Types \subseteq Nat /\ IsFiniteSet(Types)
                          /\ Regions \subseteq Nat /\ IsFiniteSet(Regions)
                          /\ Regions # {}
                          /\ MaxPrice \in Nat \ {0}

Costs == 1..MaxPrice

(* A cloud's list: a type's price, its prices in single regions, where it  *)
(* is sold, and the types of another kind that share the list.             *)
List == [base : [Types -> Costs], own : [Types -> [Regions -> 0..MaxPrice]],
         at : [Types -> SUBSET Regions], odd : SUBSET Types]

None  == [type |-> 0, cost |-> 0]
Entry == [type : Types, cost : Costs] \cup {None}
Table == [Regions -> Entry]

NoTable == [r \in Regions |-> None]

(* The head of what sort.Slice leaves, among S, for prices p.              *)
Cheapest(S, p) == CHOOSE t \in S : \A u \in S : p[t] <= p[u]

(* The table of a provider that sorts each region's types by price.        *)
Sorted(offered, price) ==
    [r \in Regions |->
        IF offered[r] = {} THEN None
        ELSE LET t == Cheapest(offered[r], price[r])
             IN  [type |-> t, cost |-> price[r][t]]]

SoldAt(l, S) == [r \in Regions |-> {t \in S : r \in l.at[t]}]

(* DigitalOcean: one price everywhere; the first size of the sorted list   *)
(* that names the region.                                                  *)
DOTable(l) == Sorted(SoldAt(l, Types), [r \in Regions |-> l.base])

(* Vultr: the same without IPv6-only and free plans. *)
VultrTable(l) == Sorted(SoldAt(l, Types \ l.odd), [r \in Regions |-> l.base])

(* Linode: a region's own price counts instead of the type's; a type       *)
(* without a price is passed over.                                         *)
\* mutant: only the region's own price
LinodePrice_Own(l, r, t) == l.own[t][r]

LinodePrice(l, r, t) == IF l.own[t][r] > 0 THEN l.own[t][r] ELSE l.base[t]

LinodeTable(l) == Sorted([r \in Regions |-> Types \ l.odd],
                         [r \in Regions |-> [t \in Types |-> LinodePrice(l, r, t)]])

(* EC2: the products with a price in the region; read has those of the     *)
(* pages that could be read.                                               *)
EC2Table(l, read) == Sorted([r \in Regions |->
                                {t \in Types : <<t, r>> \in read /\ l.own[t][r] > 0}],
                            [r \in Regions |-> [t \in Types |-> l.own[t][r]]])

(* Azure: a size has several meters in a region, the lowest of which is    *)
(* kept; those of other operating systems are skipped.                     *)
Meters(l, r, t) == {l.own[t][r]} \cup (IF r \in l.at[t] /\ t \notin l.odd
                                        THEN {l.base[t]} ELSE {})
AzurePrice(l, r, t) ==
    LET m == Meters(l, r, t) \ {0}
    IN  IF m = {} THEN 0 ELSE CHOOSE c \in m : \A d \in m : c <= d

AzureTable(l) ==
    Sorted([r \in Regions |-> {t \in Types : AzurePrice(l, r, t) > 0}],
           [r \in Regions |-> [t \in Types |-> AzurePrice(l, r, t)]])

(* GCP: a price per instance where there is one, or else rates per core    *)
(* and memory; a type that cannot be priced or is not x86 is passed over.  *)
(* known: the regions whose machine types could be listed.                 *)
GCPPrice(l, r, t) == IF l.own[t][r] > 0 THEN l.own[t][r]
                     ELSE IF r \in l.at[t] THEN l.base[t] ELSE 0

GCPTable(l, known) ==
    Sorted([r \in Regions |->
               IF r \in known THEN {t \in Types \ l.odd : GCPPrice(l, r, t) > 0} ELSE {}],
           [r \in Regions |-> [t \in Types |-> GCPPrice(l, r, t)]])

(* Hetzner: the types are sorted by the price of the first location they   *)
(* are listed with, and each location takes the first that it has.         *)
Locations(l, t) == {r \in Regions : l.own[t][r] > 0}

FirstPrice(l, t) == LET L == Locations(l, t)
                    IN  IF L = {} THEN MaxPrice + 1
                        ELSE l.own[t][CHOOSE r \in L : \A q \in L : r <= q]

\* mutant: the cost that was sorted by
HetznerTable_FirstPrice(l) ==
    [r \in Regions |->
        LET S == {t \in Types : r \in Locations(l, t)}
        IN  IF S = {} THEN None
            ELSE LET t == Cheapest(S, [u \in Types |-> FirstPrice(l, u)])
                 IN  [type |-> t, cost |-> FirstPrice(l, t)]]

HetznerTable(l) ==
    [r \in Regions |->
        LET S == {t \in Types : r \in Locations(l, t)}
        IN  IF S = {} THEN None
            ELSE LET t == Cheapest(S, [u \in Types |-> FirstPrice(l, u)])
                 IN  [type |-> t, cost |-> l.own[t][r]]]

-----------------------------------------------------------------------------
(* What a region really offers, as pairs of type and cost.                 *)
Offers(kind, l, r) ==
    CASE kind = "do"      -> {[type |-> t, cost |-> l.base[t]] :
                                t \in {u \in Types : r \in l.at[u]}}
      [] kind = "vultr"   -> {[type |-> t, cost |-> l.base[t]] :
                                t \in {u \in Types \ l.odd : r \in l.at[u]}}
      [] kind = "linode"  -> {[type |-> t, cost |-> IF l.own[t][r] = 0 THEN l.base[t]
                                                    ELSE l.own[t][r]] : t \in Types \ l.odd}
      [] kind = "azure"   -> UNION {{[type |-> t, cost |-> c] : c \in Meters(l, r, t) \ {0}} :
                                      t \in Types}
      [] kind = "gcp"     -> {o \in [type : Types \ l.odd, cost : Costs] :
                                o.cost = GCPPrice(l, r, o.type)}
      [] OTHER            -> {[type |-> t, cost |-> l.own[t][r]] :
                                t \in {u \in Types : l.own[u][r] > 0}}

IsCheapest(e, kind, l, r) ==
    \/ e = None /\ Offers(kind, l, r) = {}
    \/ e \in Offers(kind, l, r) /\ \A o \in Offers(kind, l, r) : e.cost <= o.cost
=============================================================================
