-------------------------- MODULE Catalogue_proofs --------------------------
(***************************************************************************)
(* Theorems about Catalogue and the tables of Prices, for every price      *)
(* list and for any number of callers and failures.                        *)
(***************************************************************************)
EXTENDS Catalogue, WellFoundedInduction, TLAPS

-----------------------------------------------------------------------------
(* The tables.                                                             *)

(* What CHOOSE finds when a list is sorted exists: any numbers have a least*)
LEMMA Least ==
    ASSUME NEW T \in SUBSET Nat, T # {}
    PROVE  \E x \in T : \A y \in T : x <= y
<1>1. PICK x \in T : \A y \in T : <<y, x>> \notin OpToRel(<, Nat)
  BY WFMin, NatLessThanWellFounded, Zenon
<1>2. \A y \in T : ~(y < x)
  BY <1>1, Zenon DEF OpToRel
<1> QED BY <1>2

(* The head of a sorted list has the lowest price.                         *)
LEMMA CheapestIsCheapest ==
    ASSUME NEW S, S # {}, NEW p, \A t \in S : p[t] \in Nat
    PROVE  /\ Cheapest(S, p) \in S
           /\ \A u \in S : p[Cheapest(S, p)] <= p[u]
<1> DEFINE T == {p[t] : t \in S}
<1>1. \E x \in T : \A y \in T : x <= y
  <2>1. T \in SUBSET Nat /\ T # {} OBVIOUS
  <2> QED BY <2>1, Least
<1>2. \E t \in S : \A u \in S : p[t] <= p[u] BY <1>1
<1> QED BY <1>2, Zenon DEF Cheapest

(* A sorted table has an entry for a region just when something is offered *)
(* there, and then the cheapest.                                           *)
LEMMA SortedIsRight ==
    ASSUME NEW offered \in [Regions -> SUBSET Types], NEW price,
           \A r \in Regions : \A t \in offered[r] : price[r][t] \in Costs
    PROVE  /\ Sorted(offered, price) \in Table
           /\ \A r \in Regions :
                 LET e == Sorted(offered, price)[r]
                 IN  \/ offered[r] = {} /\ e = None
                     \/ /\ e.type \in offered[r] /\ e.cost = price[r][e.type]
                        /\ e = [type |-> e.type, cost |-> e.cost]
                        /\ \A u \in offered[r] : e.cost <= price[r][u]
<1>1. ASSUME NEW r \in Regions, offered[r] # {}
      PROVE  LET t == Cheapest(offered[r], price[r])
             IN  /\ t \in offered[r] /\ t \in Types /\ price[r][t] \in Costs
                 /\ \A u \in offered[r] : price[r][t] <= price[r][u]
  <2>1. \A t \in offered[r] : price[r][t] \in Nat BY DEF Costs
  <2>2. /\ Cheapest(offered[r], price[r]) \in offered[r]
        /\ \A u \in offered[r] : price[r][Cheapest(offered[r], price[r])] <= price[r][u]
    BY <1>1, <2>1, CheapestIsCheapest
  <2> QED BY <2>2
<1>2. ASSUME NEW r \in Regions
      PROVE  LET e == Sorted(offered, price)[r]
             IN  /\ e \in Entry
                 /\ \/ offered[r] = {} /\ e = None
                    \/ /\ e.type \in offered[r] /\ e.cost = price[r][e.type]
                       /\ e = [type |-> e.type, cost |-> e.cost]
                       /\ \A u \in offered[r] : e.cost <= price[r][u]
  BY <1>1 DEF Sorted, Entry
<1> QED BY <1>2 DEF Sorted, Table

LEMMA ListFacts ==
    ASSUME NEW l \in List
    PROVE  /\ l.odd \subseteq Types
           /\ \A t \in Types : /\ l.base[t] \in Costs
                               /\ l.at[t] \subseteq Regions
                               /\ \A r \in Regions : l.own[t][r] \in 0..MaxPrice
BY DEF List

(* What is sorted are offers, and the best of those of each type.          *)
BestOffers(k, l, offered, price) ==
    /\ offered \in [Regions -> SUBSET Types]
    /\ \A r \in Regions : \A t \in offered[r] :
          /\ price[r][t] \in Costs
          /\ [type |-> t, cost |-> price[r][t]] \in Offers(k, l, r)
    /\ \A r \in Regions : \A o \in Offers(k, l, r) :
          o.type \in offered[r] /\ price[r][o.type] <= o.cost /\ o.cost \in Nat

(* Then the sorted table is right.                                         *)
LEMMA SortedOffers ==
    ASSUME NEW k, NEW l, NEW offered, NEW price, BestOffers(k, l, offered, price)
    PROVE  /\ Sorted(offered, price) \in Table
           /\ \A r \in Regions : IsCheapest(Sorted(offered, price)[r], k, l, r)
<1> USE DEF BestOffers
<1>1. Sorted(offered, price) \in Table BY SortedIsRight
<1>2. ASSUME NEW r \in Regions PROVE IsCheapest(Sorted(offered, price)[r], k, l, r)
  <2> DEFINE e == Sorted(offered, price)[r]
  <2>1. \/ offered[r] = {} /\ e = None
        \/ /\ e.type \in offered[r] /\ e.cost = price[r][e.type]
           /\ e = [type |-> e.type, cost |-> e.cost]
           /\ \A u \in offered[r] : e.cost <= price[r][u]
    BY SortedIsRight
  <2> HIDE DEF e
  <2>2. CASE offered[r] = {} /\ e = None
    <3>1. Offers(k, l, r) = {} BY <2>2
    <3> QED BY <2>2, <3>1 DEF IsCheapest, e
  <2>3. CASE /\ e.type \in offered[r] /\ e.cost = price[r][e.type]
             /\ e = [type |-> e.type, cost |-> e.cost]
             /\ \A u \in offered[r] : e.cost <= price[r][u]
    <3>1. e \in Offers(k, l, r) BY <2>3
    <3>2. ASSUME NEW o \in Offers(k, l, r) PROVE e.cost <= o.cost
      <4>1. e.cost <= price[r][o.type] /\ price[r][o.type] <= o.cost BY <2>3
      <4>2. e.cost \in Nat /\ price[r][o.type] \in Nat /\ o.cost \in Nat
        BY <2>3 DEF Costs
      <4> QED BY <4>1, <4>2
    <3> QED BY <3>1, <3>2 DEF IsCheapest, e
  <2> QED BY <2>1, <2>2, <2>3
<1> QED BY <1>1, <1>2

(* What is sorted is what is offered, at the prices it is offered for.     *)
IsOffer(k, l, offered, price, r) ==
    /\ \A t \in offered[r] : price[r][t] \in Costs
    /\ \A o : o \in Offers(k, l, r)
              <=> \E t \in offered[r] : o = [type |-> t, cost |-> price[r][t]]

Exact(k, l, offered, price) ==
    /\ offered \in [Regions -> SUBSET Types]
    /\ \A r \in Regions : IsOffer(k, l, offered, price, r)

(* DigitalOcean, Vultr, Linode, EC2 and GCP sort just what is offered.     *)
LEMMA SortedExactly ==
    ASSUME NEW k, NEW l, NEW offered, NEW price, Exact(k, l, offered, price)
    PROVE  /\ Sorted(offered, price) \in Table
           /\ \A r \in Regions : IsCheapest(Sorted(offered, price)[r], k, l, r)
<1>0. offered \in [Regions -> SUBSET Types] BY DEF Exact
<1>1. \A r \in Regions : \A t \in offered[r] :
         /\ price[r][t] \in Costs
         /\ [type |-> t, cost |-> price[r][t]] \in Offers(k, l, r)
  BY DEF Exact, IsOffer
<1>2. ASSUME NEW r \in Regions, NEW o \in Offers(k, l, r)
      PROVE  o.type \in offered[r] /\ price[r][o.type] <= o.cost /\ o.cost \in Nat
  <2>1. PICK t \in offered[r] : o = [type |-> t, cost |-> price[r][t]]
    BY DEF Exact, IsOffer
  <2>2. o.type = t /\ o.cost = price[r][t] BY <2>1
  <2>3. price[r][t] \in Costs BY <1>1
  <2>4. price[r][t] \in Nat BY <2>3, PriceAssumption DEF Costs
  <2> QED BY <2>2, <2>4
<1>3. BestOffers(k, l, offered, price) BY <1>0, <1>1, <1>2 DEF BestOffers
<1> QED BY <1>3, SortedOffers

LEMMA DOIsRight ==
    ASSUME NEW l \in List
    PROVE  /\ DOTable(l) \in Table
           /\ \A r \in Regions : IsCheapest(DOTable(l)[r], "do", l, r)
<1> DEFINE offered == SoldAt(l, Types)
           price == [r \in Regions |-> l.base]
<1>1. /\ offered \in [Regions -> SUBSET Types]
      /\ \A r \in Regions : offered[r] = {t \in Types : r \in l.at[t]}
      /\ \A r \in Regions, t \in Types : price[r][t] = l.base[t] /\ price[r][t] \in Costs
  BY ListFacts DEF SoldAt
<1>2. \A r \in Regions : \A o :
        o \in Offers("do", l, r) <=> \E t \in offered[r] : o = [type |-> t, cost |-> price[r][t]]
  BY <1>1 DEF Offers
<1>3. DOTable(l) = Sorted(offered, price) BY DEF DOTable
<1> HIDE DEF offered, price
<1>4. Exact("do", l, offered, price) BY <1>1, <1>2 DEF Exact, IsOffer
<1> QED BY <1>3, <1>4, SortedExactly

LEMMA VultrIsRight ==
    ASSUME NEW l \in List
    PROVE  /\ VultrTable(l) \in Table
           /\ \A r \in Regions : IsCheapest(VultrTable(l)[r], "vultr", l, r)
<1> DEFINE offered == SoldAt(l, Types \ l.odd)
           price == [r \in Regions |-> l.base]
<1>1. /\ offered \in [Regions -> SUBSET Types]
      /\ \A r \in Regions : offered[r] = {t \in Types \ l.odd : r \in l.at[t]}
      /\ \A r \in Regions, t \in Types : price[r][t] = l.base[t] /\ price[r][t] \in Costs
  BY ListFacts DEF SoldAt
<1>2. \A r \in Regions : \A o :
        o \in Offers("vultr", l, r) <=> \E t \in offered[r] : o = [type |-> t, cost |-> price[r][t]]
  BY <1>1 DEF Offers
<1>3. VultrTable(l) = Sorted(offered, price) BY DEF VultrTable
<1> HIDE DEF offered, price
<1>4. Exact("vultr", l, offered, price) BY <1>1, <1>2 DEF Exact, IsOffer
<1> QED BY <1>3, <1>4, SortedExactly

LEMMA LinodeIsRight ==
    ASSUME NEW l \in List
    PROVE  /\ LinodeTable(l) \in Table
           /\ \A r \in Regions : IsCheapest(LinodeTable(l)[r], "linode", l, r)
<1> DEFINE offered == [r \in Regions |-> Types \ l.odd]
           price == [r \in Regions |-> [t \in Types |-> LinodePrice(l, r, t)]]
<1>0. ASSUME NEW r \in Regions, NEW t \in Types
      PROVE  /\ LinodePrice(l, r, t) \in Costs
             /\ LinodePrice(l, r, t) = IF l.own[t][r] = 0 THEN l.base[t] ELSE l.own[t][r]
  <2>1. l.base[t] \in Costs /\ l.own[t][r] \in 0..MaxPrice BY ListFacts
  <2> QED BY <2>1, PriceAssumption DEF LinodePrice, Costs
<1>1. /\ offered \in [Regions -> SUBSET Types]
      /\ \A r \in Regions : offered[r] = Types \ l.odd
      /\ \A r \in Regions, t \in Types :
            /\ price[r][t] = IF l.own[t][r] = 0 THEN l.base[t] ELSE l.own[t][r]
            /\ price[r][t] \in Costs
  BY <1>0
<1>2. \A r \in Regions : \A o :
        o \in Offers("linode", l, r) <=> \E t \in offered[r] : o = [type |-> t, cost |-> price[r][t]]
  <2> HIDE DEF price
  <2>1. \A r \in Regions : Offers("linode", l, r) =
            {[type |-> t, cost |-> IF l.own[t][r] = 0 THEN l.base[t] ELSE l.own[t][r]] :
                t \in Types \ l.odd}
    BY DEF Offers
  <2> QED BY <2>1, <1>1
<1>3. LinodeTable(l) = Sorted(offered, price) BY DEF LinodeTable
<1> HIDE DEF offered, price
<1>4. Exact("linode", l, offered, price) BY <1>1, <1>2 DEF Exact, IsOffer
<1> QED BY <1>3, <1>4, SortedExactly

(* EC2's table of some pages, and of all.                                  *)
LEMMA EC2IsTable ==
    ASSUME NEW l \in List, NEW read
    PROVE  EC2Table(l, read) \in Table
<1> DEFINE offered == [r \in Regions |-> {t \in Types : <<t, r>> \in read /\ l.own[t][r] > 0}]
           price == [r \in Regions |-> [t \in Types |-> l.own[t][r]]]
<1>1. /\ offered \in [Regions -> SUBSET Types]
      /\ \A r \in Regions : \A t \in offered[r] : price[r][t] \in Costs
  BY ListFacts, PriceAssumption DEF Costs
<1>2. EC2Table(l, read) = Sorted(offered, price) BY DEF EC2Table
<1> HIDE DEF offered, price
<1> QED BY <1>1, <1>2, SortedIsRight

LEMMA EC2IsRight ==
    ASSUME NEW l \in List, NEW r \in Regions
    PROVE  IsCheapest(EC2Table(l, Types \X Regions)[r], "ec2", l, r)
<1> DEFINE offered == [q \in Regions |-> {t \in Types : <<t, q>> \in Types \X Regions /\ l.own[t][q] > 0}]
           price == [q \in Regions |-> [t \in Types |-> l.own[t][q]]]
<1>1. /\ offered \in [Regions -> SUBSET Types]
      /\ \A q \in Regions : offered[q] = {t \in Types : l.own[t][q] > 0}
      /\ \A q \in Regions, t \in Types : price[q][t] = l.own[t][q]
      /\ \A q \in Regions : \A t \in offered[q] : price[q][t] \in Costs
  BY ListFacts, PriceAssumption DEF Costs
<1>2. \A q \in Regions : \A o :
        o \in Offers("ec2", l, q) <=> \E t \in offered[q] : o = [type |-> t, cost |-> price[q][t]]
  <2> HIDE DEF offered, price
  <2>1. \A q \in Regions : Offers("ec2", l, q) =
           {[type |-> t, cost |-> l.own[t][q]] : t \in {u \in Types : l.own[u][q] > 0}}
    BY DEF Offers
  <2> QED BY <1>1, <2>1
<1>3. EC2Table(l, Types \X Regions) = Sorted(offered, price) BY DEF EC2Table
<1> HIDE DEF offered, price
<1>4. Exact("ec2", l, offered, price) BY <1>1, <1>2 DEF Exact, IsOffer
<1> QED BY <1>3, <1>4, SortedExactly

(* GCP leaves out what has no price, and what could not be listed.         *)
LEMMA GCPIsTable ==
    ASSUME NEW l \in List, NEW known
    PROVE  GCPTable(l, known) \in Table
<1> DEFINE offered == [r \in Regions |->
                         IF r \in known THEN {t \in Types \ l.odd : GCPPrice(l, r, t) > 0} ELSE {}]
           price == [r \in Regions |-> [t \in Types |-> GCPPrice(l, r, t)]]
<1>0. ASSUME NEW r \in Regions, NEW t \in Types PROVE GCPPrice(l, r, t) \in 0..MaxPrice
  <2>1. l.base[t] \in Costs /\ l.own[t][r] \in 0..MaxPrice BY ListFacts
  <2> QED BY <2>1, PriceAssumption DEF GCPPrice, Costs
<1>1. offered \in [Regions -> SUBSET Types] OBVIOUS
<1>3. ASSUME NEW r \in Regions, NEW t \in offered[r] PROVE price[r][t] \in Costs
  <2>1. t \in Types /\ GCPPrice(l, r, t) > 0 BY <1>1
  <2> QED BY <1>0, <2>1, PriceAssumption DEF Costs
<1>2. GCPTable(l, known) = Sorted(offered, price) BY DEF GCPTable
<1> HIDE DEF offered, price
<1> QED BY <1>1, <1>2, <1>3, SortedIsRight

LEMMA GCPIsRight ==
    ASSUME NEW l \in List, NEW r \in Regions
    PROVE  IsCheapest(GCPTable(l, Regions)[r], "gcp", l, r)
<1> DEFINE offered == [q \in Regions |->
                         IF q \in Regions THEN {t \in Types \ l.odd : GCPPrice(l, q, t) > 0} ELSE {}]
           price == [q \in Regions |-> [t \in Types |-> GCPPrice(l, q, t)]]
<1>0. ASSUME NEW q \in Regions, NEW t \in Types PROVE GCPPrice(l, q, t) \in 0..MaxPrice
  <2>1. l.base[t] \in Costs /\ l.own[t][q] \in 0..MaxPrice BY ListFacts
  <2> QED BY <2>1, PriceAssumption DEF GCPPrice, Costs
<1>1. /\ offered \in [Regions -> SUBSET Types]
      /\ \A q \in Regions : offered[q] = {t \in Types \ l.odd : GCPPrice(l, q, t) > 0}
      /\ \A q \in Regions, t \in Types : price[q][t] = GCPPrice(l, q, t)
      /\ \A q \in Regions : \A t \in offered[q] : price[q][t] \in Costs
  BY <1>0, PriceAssumption DEF Costs
<1>2. GCPTable(l, Regions) = Sorted(offered, price) BY DEF GCPTable
<1> HIDE DEF offered, price
<1>3. \A q \in Regions : \A o :
        o \in Offers("gcp", l, q) <=> \E t \in offered[q] : o = [type |-> t, cost |-> price[q][t]]
  <2> SUFFICES ASSUME NEW q \in Regions
               PROVE  \A o : o \in Offers("gcp", l, q)
                             <=> \E t \in offered[q] : o = [type |-> t, cost |-> price[q][t]]
    OBVIOUS
  <2>1. Offers("gcp", l, q) = {o \in [type : Types \ l.odd, cost : Costs] :
                                  o.cost = GCPPrice(l, q, o.type)}
    BY DEF Offers
  <2>2. ASSUME NEW o \in Offers("gcp", l, q)
        PROVE  \E t \in offered[q] : o = [type |-> t, cost |-> price[q][t]]
    <3>1. /\ o = [type |-> o.type, cost |-> o.cost] /\ o.type \in Types \ l.odd
          /\ o.cost \in Costs /\ o.cost = GCPPrice(l, q, o.type)
      BY <2>1
    <3>2. o.type \in offered[q] /\ o.cost = price[q][o.type]
      BY <3>1, <1>1, PriceAssumption DEF Costs
    <3> QED BY <3>1, <3>2
  <2>3. ASSUME NEW t \in offered[q]
        PROVE  [type |-> t, cost |-> price[q][t]] \in Offers("gcp", l, q)
    BY <1>1, <2>1
  <2> QED BY <2>2, <2>3
<1>4. Exact("gcp", l, offered, price) BY <1>1, <1>3 DEF Exact, IsOffer
<1> QED BY <1>2, <1>4, SortedExactly

(* Azure keeps the lowest meter of a size.                                 *)
LEMMA AzurePriceIsLowest ==
    ASSUME NEW l \in List, NEW r \in Regions, NEW t \in Types
    PROVE  LET m == Meters(l, r, t) \ {0}
           IN  /\ m \subseteq Costs
               /\ AzurePrice(l, r, t) \in 0..MaxPrice
               /\ m = {} => AzurePrice(l, r, t) = 0
               /\ m # {} => /\ AzurePrice(l, r, t) \in m
                            /\ \A c \in m : AzurePrice(l, r, t) <= c
<1> DEFINE m == Meters(l, r, t) \ {0}
<1>1. l.base[t] \in Costs /\ l.own[t][r] \in 0..MaxPrice BY ListFacts
<1>2. m \subseteq Costs BY <1>1, PriceAssumption DEF Meters, Costs
<1>3. AzurePrice(l, r, t) = IF m = {} THEN 0 ELSE CHOOSE c \in m : \A d \in m : c <= d
  BY DEF AzurePrice
<1> HIDE DEF m
<1>4. ASSUME m # {} PROVE \E c \in m : \A d \in m : c <= d
  <2>1. m \in SUBSET Nat BY <1>2, PriceAssumption DEF Costs
  <2> QED BY <1>4, <2>1, Least
<1>5. ASSUME m # {}
      PROVE  AzurePrice(l, r, t) \in m /\ \A c \in m : AzurePrice(l, r, t) <= c
  <2>1. AzurePrice(l, r, t) = CHOOSE c \in m : \A d \in m : c <= d BY <1>3, <1>5
  <2> QED BY <1>4, <1>5, <2>1
<1>6. m = {} => AzurePrice(l, r, t) = 0 BY <1>3
<1>7. AzurePrice(l, r, t) \in 0..MaxPrice
  <2>1. CASE m = {} BY <1>6, <2>1, PriceAssumption
  <2>2. CASE m # {}
    <3>1. AzurePrice(l, r, t) \in Costs BY <1>2, <1>5, <2>2
    <3> QED BY <3>1, PriceAssumption DEF Costs
  <2> QED BY <2>1, <2>2
<1> QED BY <1>2, <1>5, <1>6, <1>7 DEF m

LEMMA AzureIsRight ==
    ASSUME NEW l \in List
    PROVE  /\ AzureTable(l) \in Table
           /\ \A r \in Regions : IsCheapest(AzureTable(l)[r], "azure", l, r)
<1> DEFINE offered == [r \in Regions |-> {t \in Types : AzurePrice(l, r, t) > 0}]
           price == [r \in Regions |-> [t \in Types |-> AzurePrice(l, r, t)]]
<1>1. /\ offered \in [Regions -> SUBSET Types]
      /\ \A r \in Regions, t \in Types : price[r][t] = AzurePrice(l, r, t)
      /\ \A r \in Regions, t \in Types : t \in offered[r] <=> AzurePrice(l, r, t) > 0
      /\ \A r \in Regions : offered[r] \subseteq Types
  OBVIOUS
<1>2. AzureTable(l) = Sorted(offered, price) BY DEF AzureTable
<1> HIDE DEF offered, price
<1>3. ASSUME NEW r \in Regions
      PROVE  Offers("azure", l, r) =
                UNION {{[type |-> t, cost |-> c] : c \in Meters(l, r, t) \ {0}} : t \in Types}
  BY DEF Offers
<1>4. ASSUME NEW r \in Regions, NEW t \in offered[r]
      PROVE  price[r][t] \in Costs /\ [type |-> t, cost |-> price[r][t]] \in Offers("azure", l, r)
  <2>0. t \in Types BY <1>1
  <2>1. t \in Types /\ AzurePrice(l, r, t) > 0 /\ price[r][t] = AzurePrice(l, r, t)
    BY <1>1, <2>0
  <2>2. /\ AzurePrice(l, r, t) \in Meters(l, r, t) \ {0}
        /\ AzurePrice(l, r, t) \in Costs
    BY <2>1, AzurePriceIsLowest
  <2> QED BY <2>1, <2>2, <1>3
<1>5. ASSUME NEW r \in Regions, NEW o \in Offers("azure", l, r)
      PROVE  o.type \in offered[r] /\ price[r][o.type] <= o.cost /\ o.cost \in Nat
  <2>0. PICK t \in Types : o \in {[type |-> t, cost |-> c] : c \in Meters(l, r, t) \ {0}}
    BY <1>3
  <2>1. PICK c \in Meters(l, r, t) \ {0} : o = [type |-> t, cost |-> c] BY <2>0
  <2>2. o.type = t /\ o.cost = c BY <2>1
  <2>3. /\ Meters(l, r, t) \ {0} \subseteq Costs
        /\ AzurePrice(l, r, t) \in Meters(l, r, t) \ {0} /\ AzurePrice(l, r, t) <= c
    BY AzurePriceIsLowest
  <2>4. AzurePrice(l, r, t) > 0 /\ c \in Nat BY <2>3, PriceAssumption DEF Costs
  <2> QED BY <1>1, <2>2, <2>3, <2>4
<1>6. BestOffers("azure", l, offered, price) BY <1>1, <1>4, <1>5 DEF BestOffers
<1> QED BY <1>2, <1>6, SortedOffers

(* Hetzner's entry for a location is a type that it sells, at its price    *)
(* there; which of them depends on the prices of other locations.          *)
LEMMA HetznerIsRight ==
    ASSUME NEW l \in List
    PROVE  /\ HetznerTable(l) \in Table
           /\ \A r \in Regions :
                 IF Offers("hetzner", l, r) = {} THEN HetznerTable(l)[r] = None
                                    ELSE HetznerTable(l)[r] \in Offers("hetzner", l, r)
<1>1. ASSUME NEW t \in Types PROVE FirstPrice(l, t) \in Nat
  <2>1. CASE Locations(l, t) = {}
    BY <2>1, PriceAssumption DEF FirstPrice
  <2>2. CASE Locations(l, t) # {}
    <3>1. Locations(l, t) \in SUBSET Nat /\ Locations(l, t) \subseteq Regions
      BY PriceAssumption DEF Locations
    <3>2. \E r \in Locations(l, t) : \A q \in Locations(l, t) : r <= q
      BY <2>2, <3>1, Least
    <3>3. PICK f \in Regions : FirstPrice(l, t) = l.own[t][f]
      BY <2>2, <3>1, <3>2 DEF FirstPrice
    <3> QED BY <3>3, ListFacts
  <2> QED BY <2>1, <2>2
<1>2. ASSUME NEW r \in Regions
      PROVE  /\ HetznerTable(l)[r] \in Entry
             /\ IF Offers("hetzner", l, r) = {} THEN HetznerTable(l)[r] = None
                                   ELSE HetznerTable(l)[r] \in Offers("hetzner", l, r)
  <2> DEFINE S == {t \in Types : r \in Locations(l, t)}
             price == [u \in Types |-> FirstPrice(l, u)]
             t == Cheapest(S, price)
  <2>1. S = {u \in Types : l.own[u][r] > 0} BY DEF Locations
  <2>2. Offers("hetzner", l, r) = {[type |-> u, cost |-> l.own[u][r]] : u \in S}
    BY <2>1 DEF Offers
  <2>3. HetznerTable(l)[r] = IF S = {} THEN None ELSE [type |-> t, cost |-> l.own[t][r]]
    BY DEF HetznerTable
  <2>4. \A u \in S : price[u] \in Nat BY <1>1, <2>1
  <2> HIDE DEF S, price
  <2>5. S # {} => t \in S BY <2>4, CheapestIsCheapest
  <2> HIDE DEF t
  <2>6. CASE S = {} BY <2>2, <2>3, <2>6 DEF Entry
  <2>7. CASE S # {}
    <3>1. t \in Types /\ l.own[t][r] > 0 /\ l.own[t][r] \in 0..MaxPrice
      BY <2>1, <2>5, <2>7, ListFacts
    <3>2. l.own[t][r] \in Costs BY <3>1, PriceAssumption DEF Costs
    <3>3. HetznerTable(l)[r] = [type |-> t, cost |-> l.own[t][r]] BY <2>3, <2>7
    <3>4. HetznerTable(l)[r] \in Offers("hetzner", l, r) BY <2>2, <2>5, <2>7, <3>3
    <3> QED BY <3>1, <3>2, <3>3, <3>4 DEF Entry
  <2> QED BY <2>6, <2>7
<1> QED BY <1>2 DEF Table, HetznerTable

-----------------------------------------------------------------------------
(* The inductive invariant.                                                *)

(* What is cached is worth something: after a failure only where failures  *)
(* are not cached.                                                         *)
Trusted == kind \in Forgets \/ faults = 0

(* Who loads holds the lock. *)
Locked == \A c \in Callers : call[c].pc = "load" => lock = c

Complete == /\ cache.set /\ Trusted => cache.table = TableOf
            /\ rates = "nil" => faults > 0

(* Between a good load, or a look at the cache, and the read the table is  *)
(* there and of today.  Except at Vultr, where a failed load changes       *)
(* nothing, nobody loads meanwhile.                                        *)
Reader(c)  == call[c].pc = "read" /\ ~call[c].failed
ReadsFresh == \A c \in Callers : Reader(c) => cache.set /\ (kind \in Once \/ cache.age < Day)
Exclusive  == kind # "vultr" => \A c, d \in Callers : Reader(c) => call[d].pc # "load"

(* DigitalOcean's second look is at a table that says the same.            *)
Answers ==
    \A c \in Callers :
        (call[c].want = "cost" \/ Answered(c)) /\ ~call[c].failed /\ Trusted
            => call[c].ans = TableOf[call[c].region]

ForRegions == \A c \in Callers : /\ call[c].pc \in {"once", "list", "sleep"}
                                       => call[c].want = "regions"
                                 /\ kind = "vultr" /\ call[c].pc = "list" /\ faults = 0
                                       => cache.set

SecondLook == \A c \in Callers : /\ call[c].want = "cost" => kind = "do"
                                 /\ kind = "do" /\ call[c].failed => call[c].pc = "done"

IInv == /\ TypeOK /\ Locked /\ Complete /\ ReadsFresh /\ Exclusive
        /\ Answers /\ NoOldPrices /\ ForRegions /\ SecondLook /\ RegionsComplete

(* Every load is of one of these kinds.                                    *)
Outcome(c) ==
    /\ call[c].pc = "load" /\ lock' = NoCaller /\ UNCHANGED <<setting, lazy>>
    /\ rates' \in {"unset", "known", "nil"} /\ (rates' = "nil" => faults' > 0)
    /\ \/ /\ NoFault /\ call' = Goto(c, AfterEnsure(c))
          /\ \E t \in Table : Stores(t) /\ (Trusted => t = TableOf)
       \/ /\ Fault
          /\ \/ call' = GivesUp(c) /\ (UNCHANGED cache \/ (kind # "vultr" /\ Clears))
             \/ call' = GoesOn(c) /\ kind = "vultr" /\ UNCHANGED cache
             \/ call' = GoesOn(c) /\ kind \notin Forgets /\ \E t \in Table : Stores(t)

LEMMA NoTableIsTable == NoTable \in Table /\ None \in Entry
BY DEF NoTable, Table, Entry

LEMMA LoadOutcome ==
    ASSUME IInv, NEW c \in Callers, Load(c)
    PROVE  Outcome(c)
<1> USE DEF Releases, Loaded, Loading, Outcome
<1>0. /\ list \in List /\ rates \in {"unset", "known", "nil"} /\ faults \in Nat
      /\ rates = "nil" => faults > 0
  BY DayAssumption DEF IInv, TypeOK, Complete
<1>1. CASE DOLoad(c)
  <2>1. DOTable(list) \in Table BY <1>0, DOIsRight
  <2>2. kind = "do" => TableOf = DOTable(list) BY DEF TableOf
  <2> QED BY <1>0, <1>1, <2>1, <2>2 DEF DOLoad, Fault, NoFault
<1>2. CASE HetznerLoad(c)
  <2>1. HetznerTable(list) \in Table BY <1>0, HetznerIsRight
  <2>2. kind = "hetzner" => TableOf = HetznerTable(list) BY DEF TableOf
  <2> QED BY <1>0, <1>2, <2>1, <2>2 DEF HetznerLoad, Fault, NoFault
<1>3. CASE AzureLoad(c)
  <2>1. AzureTable(list) \in Table BY <1>0, AzureIsRight
  <2>2. kind = "azure" => TableOf = AzureTable(list) BY DEF TableOf
  <2> QED BY <1>0, <1>3, <2>1, <2>2 DEF AzureLoad, Fault, NoFault
<1>4. CASE VultrLoad(c)
  <2>1. VultrTable(list) \in Table BY <1>0, VultrIsRight
  <2>2. kind = "vultr" => TableOf = VultrTable(list) BY DEF TableOf
  <2> QED BY <1>0, <1>4, <2>1, <2>2 DEF VultrLoad, Fault, NoFault
<1>5. CASE EC2Load(c)
  <2>1. \A read : EC2Table(list, read) \in Table BY <1>0, EC2IsTable
  <2>2. kind = "ec2" => TableOf = EC2Table(list, Types \X Regions) BY DEF TableOf
  <2> QED BY <1>0, <1>5, <2>1, <2>2 DEF EC2Load, Fault, NoFault, Forgets
<1>6. CASE LinodeLoad(c)
  <2>1. LinodeTable(list) \in Table BY <1>0, LinodeIsRight
  <2>2. kind = "linode" => TableOf = LinodeTable(list) BY DEF TableOf
  <2> QED BY <1>0, <1>6, <2>1, <2>2, NoTableIsTable DEF LinodeLoad, Fault, NoFault, Forgets
<1>7. CASE GCPLoad(c)
  <2>1. \A known : GCPTable(list, known) \in Table BY <1>0, GCPIsTable
  <2>2. kind = "gcp" => TableOf = GCPTable(list, Regions) BY DEF TableOf
  <2>3. kind = "gcp" => (Trusted => faults = 0) BY DEF Trusted, Forgets
  <2> DEFINE T(known) == IF rates' = "known" THEN GCPTable(list, known) ELSE NoTable
  <2>4. \A known : T(known) \in Table BY <2>1, NoTableIsTable
  <2>5. rates' = "known" => T(Regions) = GCPTable(list, Regions) OBVIOUS
  <2>6. CASE Fault /\ Clears /\ call' = GivesUp(c) /\ UNCHANGED rates
    BY <1>0, <1>7, <2>6 DEF GCPLoad, Fault
  <2>7. CASE rates = "unset" /\ PopulatePriceCache("nil") /\ Fault /\ Stores(NoTable) /\ call' = GoesOn(c)
    BY <1>0, <1>7, <2>7, NoTableIsTable DEF GCPLoad, Fault, PopulatePriceCache, Forgets
  <2>8. CASE PopulatePriceCache("known") /\ Loaded(c, T(Regions))
    <3>1. Trusted => T(Regions) = TableOf
      <4> HIDE DEF T
      <4> QED BY <1>0, <1>7, <2>2, <2>3, <2>5, <2>8 DEF PopulatePriceCache, GCPLoad
    <3> HIDE DEF T
    <3> QED BY <1>0, <1>7, <2>4, <2>8, <3>1 DEF GCPLoad, NoFault, PopulatePriceCache
  <2>9. CASE /\ PopulatePriceCache("known")
             /\ \E r \in Regions : Stores(T(Regions \ {r}))
             /\ Fault /\ call' = GoesOn(c)
    <3> HIDE DEF T
    <3> QED BY <1>0, <1>7, <2>4, <2>9 DEF GCPLoad, Fault, PopulatePriceCache, Forgets
  <2> QED BY <1>7, <2>6, <2>7, <2>8, <2>9 DEF GCPLoad
<1> QED BY <1>1, <1>2, <1>3, <1>4, <1>5, <1>6, <1>7 DEF Load

(* The table that a complete list makes does not change.                   *)
LEMMA SameTable == UNCHANGED setting => TableOf' = TableOf
BY DEF setting, TableOf

LEMMA TableFacts ==
    /\ \A t \in Table, r \in Regions : t[r] \in Entry
    /\ \A e \in Entry : e = [type |-> e.type, cost |-> e.cost]
    /\ \A d, e \in Entry : d = e => [d EXCEPT !.cost = e.cost] = e
    /\ \A d, e \in Entry : [d EXCEPT !.cost = e.cost] \in [type : Types \cup {0}, cost : Costs \cup {0}]
BY DEF Table, Entry, None

LEMMA InitIInv == Init => IInv
<1> SUFFICES ASSUME Init PROVE IInv OBVIOUS
<1>1. Idle \in CallType
  <2>1. SomeRegion \in Regions BY PriceAssumption DEF SomeRegion
  <2> QED BY <2>1, NoTableIsTable, DayAssumption DEF Idle, NewCall, CallType, CallPCs, Wants
<1>2. TypeOK
  <2>1. list \in List BY ListAssumption DEF Init, Lists
  <2>2. cache \in CacheType BY NoTableIsTable, DayAssumption DEF Init, CacheType
  <2> QED BY <1>1, <2>1, <2>2, DayAssumption DEF Init, TypeOK
<1>3. \A c \in Callers : call[c].pc = "idle" /\ call[c].want = "estimate" /\ ~call[c].failed
  BY DEF Init, Idle, NewCall
<1>4. ~cache.set /\ rates = "unset" /\ lazy.pc = "unset" BY DEF Init
<1> QED BY <1>2, <1>3, <1>4
        DEF IInv, Locked, Complete, ReadsFresh, Reader, Exclusive, Answers, Answered,
            NoOldPrices, ForRegions, SecondLook, RegionsComplete

LEMMA AskKeeps ==
    ASSUME IInv, NEW c \in Callers, Ask(c) \/ AskRegions(c) \/ Returns(c)
    PROVE  IInv'
<1>1. PICK w \in {"estimate", "create", "regions"}, r \in Regions, pc \in {"idle", "ensure", "once"} :
        /\ call' = [call EXCEPT ![c] = NewCall(pc, w, r)]
        /\ pc = "once" => w = "regions"
  <2>0. SomeRegion \in Regions BY PriceAssumption DEF SomeRegion
  <2>1. CASE Returns(c) BY <2>0, <2>1 DEF Returns, Idle
  <2>2. CASE Ask(c) BY <2>2 DEF Ask
  <2>3. CASE AskRegions(c) BY <2>0, <2>3 DEF AskRegions
  <2> QED BY <2>1, <2>2, <2>3
<1>2. UNCHANGED <<setting, cache, rates, lock, lazy, faults>> BY DEF Ask, AskRegions, Returns
<1>3. TypeOK'
  <2>1. NewCall(pc, w, r) \in CallType
    BY NoTableIsTable, DayAssumption DEF NewCall, CallType, CallPCs, Wants
  <2> QED BY <1>1, <1>2, <2>1 DEF IInv, TypeOK, setting
<1>4. /\ call'[c].pc = pc /\ call'[c].want = w /\ ~call'[c].failed
      /\ \A d \in Callers : d # c => call'[d] = call[d]
  BY <1>1 DEF IInv, TypeOK, NewCall
<1>5. TableOf' = TableOf /\ Trusted' = Trusted /\ kind' = kind
  BY <1>2, SameTable DEF setting, Trusted
<1>6. Locked' /\ Complete' /\ ReadsFresh' /\ Exclusive'
  BY <1>1, <1>2, <1>4, <1>5 DEF IInv, Locked, Complete, ReadsFresh, Reader, Exclusive
<1>7. Answers' /\ NoOldPrices'
  BY <1>1, <1>2, <1>4, <1>5 DEF IInv, Answers, Answered, NoOldPrices
<1>8. ForRegions' /\ RegionsComplete'
  BY <1>1, <1>2, <1>4, <1>5 DEF IInv, ForRegions, RegionsComplete
<1>9. SecondLook'
  BY <1>1, <1>4, <1>5 DEF IInv, SecondLook
<1> QED BY <1>3, <1>6, <1>7, <1>8, <1>9 DEF IInv

LEMMA EnsureKeeps ==
    ASSUME IInv, NEW c \in Callers, Ensure(c)
    PROVE  IInv'
<1>1. UNCHANGED <<setting, cache, rates, lazy, faults>> /\ lock = NoCaller BY DEF Ensure
<1>2. PICK pc \in {"load", "read", "list"} :
        /\ call' = [call EXCEPT ![c].pc = pc]
        /\ pc = "load" => lock' = c /\ ~Fresh
        /\ pc # "load" => UNCHANGED lock /\ Fresh
        /\ pc = "list" => call[c].want = "regions"
  BY DEF Ensure, Goto, AfterEnsure, Locks
<1>3. call[c] \in CallType /\ call \in [Callers -> CallType] BY DEF IInv, TypeOK
<1>4. /\ call'[c] = [call[c] EXCEPT !.pc = pc]
      /\ \A d \in Callers : d # c => call'[d] = call[d]
  BY <1>2, <1>3
<1>5. TypeOK'
  <2>1. [call[c] EXCEPT !.pc = pc] \in CallType BY <1>3 DEF CallType, CallPCs
  <2>2. call' \in [Callers -> CallType] BY <1>2, <1>3, <2>1
  <2> QED BY <1>1, <1>2, <2>2 DEF IInv, TypeOK, setting
<1>6. TableOf' = TableOf /\ Trusted' = Trusted /\ kind' = kind
  BY <1>1, SameTable DEF setting, Trusted
<1>7. \A d \in Callers : call[d].pc # "load"
  BY <1>1, CallerAssumption DEF IInv, Locked
<1>8. /\ call'[c].pc = pc /\ call'[c].want = call[c].want
      /\ call'[c].failed = call[c].failed /\ call'[c].ans = call[c].ans
      /\ call'[c].region = call[c].region
  BY <1>3, <1>4 DEF CallType
<1>9. Locked' /\ Exclusive'
  <2>1. Locked' BY <1>2, <1>4, <1>7, <1>8 DEF Locked
  <2>2. ASSUME kind # "vultr", NEW a \in Callers, NEW b \in Callers,
               Reader(a)', call'[b].pc = "load"
        PROVE  FALSE
    <3>1. b = c /\ pc = "load" /\ a # c BY <1>4, <1>7, <1>8, <2>2 DEF Reader
    <3>2. Reader(a) BY <1>4, <2>2, <3>1 DEF Reader
    <3> QED BY <1>2, <2>2, <3>1, <3>2 DEF IInv, ReadsFresh, Fresh
  <2> QED BY <1>6, <2>1, <2>2 DEF Exclusive
<1>10. ReadsFresh' /\ ForRegions'
  BY <1>1, <1>2, <1>4, <1>6, <1>8 DEF IInv, ReadsFresh, ForRegions, Reader, Fresh
<1>13. SecondLook'
  <2>1. kind = "do" => ~call[c].failed BY DEF IInv, SecondLook, Ensure
  <2> QED BY <1>4, <1>6, <1>8, <2>1 DEF IInv, SecondLook
<1>11. Answers' /\ NoOldPrices'
  BY <1>1, <1>4, <1>6, <1>8 DEF IInv, Answers, NoOldPrices, Answered
<1>12. Complete' /\ RegionsComplete'
  BY <1>1, <1>6 DEF IInv, Complete, RegionsComplete
<1> QED BY <1>5, <1>9, <1>10, <1>11, <1>12, <1>13 DEF IInv

LEMMA LoadKeeps ==
    ASSUME IInv, NEW c \in Callers, Load(c)
    PROVE  IInv'
<1>1. Outcome(c) BY LoadOutcome
<1>2. call[c] \in CallType /\ call \in [Callers -> CallType] BY DEF IInv, TypeOK
<1>3. faults \in Nat /\ faults' \in 0..MaxFaults /\ faults' >= faults
  BY <1>1, DayAssumption DEF IInv, TypeOK, Outcome, Fault, NoFault
<1>4. TableOf' = TableOf /\ kind' = kind /\ (Trusted' => Trusted)
  BY <1>1, <1>3, SameTable DEF Outcome, setting, Trusted
<1>5. /\ call' \in [Callers -> CallType]
      /\ \A d \in Callers : d # c => call'[d] = call[d]
      /\ call'[c].want = call[c].want /\ call'[c].region = call[c].region
      /\ call'[c].ans = call[c].ans /\ call'[c].stale = call[c].stale
      /\ \/ /\ faults' = faults /\ call'[c].failed = call[c].failed
            /\ \E t \in Table : Stores(t) /\ (Trusted => t = TableOf)
            /\ call'[c].pc = AfterEnsure(c)
         \/ /\ faults' > 0 /\ call'[c].failed
            /\ kind = "do" => call'[c].pc = "done"
            /\ \/ call'[c].pc \in {"read", "done"}
               \/ call'[c].pc = "list" /\ call[c].want = "regions"
  <2>1. CASE NoFault /\ call' = Goto(c, AfterEnsure(c))
    <3>1. AfterEnsure(c) \in CallPCs BY DEF AfterEnsure, CallPCs
    <3>2. call'[c] = [call[c] EXCEPT !.pc = AfterEnsure(c)]
          /\ \A d \in Callers : d # c => call'[d] = call[d]
      BY <1>2, <2>1 DEF Goto
    <3>3. call'[c] \in CallType BY <1>2, <3>1, <3>2 DEF CallType
    <3>4. call' \in [Callers -> CallType] BY <1>2, <2>1, <3>3 DEF Goto
    <3>5. \E t \in Table : Stores(t) /\ (Trusted => t = TableOf)
      BY <1>1, <1>3, <2>1 DEF Outcome, NoFault, Fault
    <3> QED BY <1>2, <2>1, <3>2, <3>4, <3>5 DEF NoFault, CallType
  <2>2. CASE Fault /\ call' \in {GivesUp(c), GoesOn(c)}
    <3>1. PICK pc \in {"read", "list", "done"} :
             /\ call' = [call EXCEPT ![c].pc = pc, ![c].failed = TRUE]
             /\ pc = "list" => call[c].want = "regions"
             /\ kind = "do" => pc = "done"
      <4>0. call' = GoesOn(c) => kind # "do"
        <5>1. GoesOn(c) # GivesUp(c)
          <6>1. GoesOn(c)[c].pc # "done" BY <1>2 DEF GoesOn, CallType
          <6>2. GivesUp(c)[c].pc = "done" BY <1>2 DEF GivesUp, CallType
          <6> QED BY <6>1, <6>2
        <5> QED BY <1>1, <1>2, <2>2, <5>1 DEF Outcome, Forgets, NoFault, Fault
      <4>1. CASE call' = GivesUp(c) BY <4>1 DEF GivesUp
      <4>2. CASE call' = GoesOn(c)
        <5> DEFINE pc == IF call[c].pc = "load" /\ call[c].want = "regions" THEN "list" ELSE "read"
        <5>1. call' = [call EXCEPT ![c].pc = pc, ![c].failed = TRUE]
          BY <1>2, <4>2 DEF GoesOn
        <5>2. kind # "do" /\ pc \in {"read", "list", "done"} /\ (pc = "list" => call[c].want = "regions")
          BY <4>0, <4>2
        <5> QED BY <5>1, <5>2
      <4> QED BY <2>2, <4>1, <4>2
    <3>2. /\ call'[c] = [call[c] EXCEPT !.pc = pc, !.failed = TRUE]
          /\ \A d \in Callers : d # c => call'[d] = call[d]
      BY <1>2, <3>1
    <3>3. call'[c] \in CallType BY <1>2, <3>2 DEF CallType, CallPCs
    <3>4. call' \in [Callers -> CallType] BY <1>2, <3>1, <3>3
    <3>5. faults' > 0 BY <1>3, <2>2 DEF Fault
    <3> QED BY <1>2, <3>1, <3>2, <3>4, <3>5 DEF CallType
  <2> QED BY <1>1, <2>1, <2>2 DEF Outcome
<1>6. \A d \in Callers : d # c => call[d].pc # "load"
  BY <1>1 DEF IInv, Locked, Outcome
<1>7. \A d \in Callers : call'[d].pc # "load"
  BY <1>5, <1>6 DEF AfterEnsure
<1>8. \/ UNCHANGED cache
      \/ kind # "vultr" /\ Clears
      \/ \E t \in Table : Stores(t) /\ (Trusted' => t = TableOf)
  BY <1>1, <1>3, <1>4 DEF Outcome, Fault, NoFault, Trusted
<1>9. TypeOK'
  <2>1. cache \in CacheType BY DEF IInv, TypeOK
  <2>2. ASSUME \E t \in Table : Stores(t) PROVE cache' \in CacheType
    BY <2>2, DayAssumption DEF CacheType, Stores
  <2>3. ASSUME Clears PROVE cache' \in CacheType
    BY <2>1, <2>3, NoTableIsTable DEF CacheType, Clears
  <2>4. cache' \in CacheType BY <1>8, <2>1, <2>2, <2>3
  <2> QED BY <1>1, <1>3, <1>5, <2>4 DEF IInv, TypeOK, Outcome, setting
<1>10. Locked' /\ Exclusive' BY <1>7 DEF Locked, Exclusive
<1>11. Complete'
  <2>1. rates' = "nil" => faults' > 0 BY <1>1 DEF Outcome
  <2>2. ASSUME Clears PROVE ~cache'.set
    <3>1. cache \in CacheType BY DEF IInv, TypeOK
    <3> QED BY <2>2, <3>1 DEF Clears, CacheType
  <2>3. ASSUME NEW t, Stores(t) PROVE cache'.table = t
    BY <2>3 DEF Stores
  <2>4. UNCHANGED cache /\ cache'.set /\ Trusted' => cache'.table = TableOf
    BY <1>4 DEF IInv, Complete
  <2>5. cache'.set /\ Trusted' => cache'.table = TableOf
    BY <1>8, <2>2, <2>3, <2>4
  <2> QED BY <1>4, <2>1, <2>5 DEF Complete
<1>12. ReadsFresh'
  <2> SUFFICES ASSUME NEW d \in Callers, Reader(d)'
               PROVE  cache'.set /\ (kind \in Once \/ cache'.age < Day)
    BY <1>4 DEF ReadsFresh
  <2>1. CASE \E t \in Table : Stores(t) BY <2>1, DayAssumption DEF Stores
  <2>2. CASE ~\E t \in Table : Stores(t)
    <3>1. d # c BY <1>5, <2>2 DEF Reader
    <3>2. Reader(d) BY <1>5, <3>1 DEF Reader
    <3>3. kind = "vultr" BY <1>1, <3>2 DEF IInv, Exclusive, Outcome
    <3>4. UNCHANGED cache BY <1>8, <2>2, <3>3
    <3> QED BY <3>2, <3>4 DEF IInv, ReadsFresh
  <2> QED BY <2>1, <2>2
<1>13. Answers' /\ NoOldPrices'
  <2> SUFFICES ASSUME NEW d \in Callers
               PROVE  /\ Answered(d)' /\ ~call'[d].failed => Answered(d) /\ d # c
                      /\ call'[d].want = call[d].want /\ call'[d].region = call[d].region
                      /\ call'[d].ans = call[d].ans /\ call'[d].stale = call[d].stale
                      /\ ~call'[d].failed => ~call[d].failed
    BY <1>4 DEF IInv, Answers, NoOldPrices
  <2> QED BY <1>5 DEF Answered, AfterEnsure
<1>14. ForRegions'
  <2> SUFFICES ASSUME NEW d \in Callers
               PROVE  /\ call'[d].pc \in {"once", "list", "sleep"} => call'[d].want = "regions"
                      /\ kind = "vultr" /\ call'[d].pc = "list" /\ faults' = 0 => cache'.set
    BY <1>4 DEF ForRegions
  <2>1. call'[d].pc \in {"once", "list", "sleep"} => call'[d].want = "regions"
    BY <1>5 DEF IInv, ForRegions, AfterEnsure
  <2>2. kind = "vultr" /\ call'[d].pc = "list" /\ faults' = 0 => cache'.set
    BY <1>3, <1>5, <1>8 DEF IInv, ForRegions, Stores
  <2> QED BY <2>1, <2>2
<1>15. RegionsComplete'
  <2>1. UNCHANGED lazy BY <1>1 DEF Outcome
  <2> QED BY <1>3, <1>4, <2>1 DEF IInv, RegionsComplete
<1>16. SecondLook'
  <2> SUFFICES ASSUME NEW d \in Callers
               PROVE  /\ call'[d].want = "cost" => kind = "do"
                      /\ kind = "do" /\ call'[d].failed => call'[d].pc = "done"
    BY <1>4 DEF SecondLook
  <2>1. CASE d = c
    <3>1. kind = "do" => ~call[c].failed BY <1>1 DEF IInv, SecondLook, Outcome
    <3> QED BY <1>5, <2>1, <3>1 DEF IInv, SecondLook
  <2>2. CASE d # c
    <3>1. call'[d] = call[d] BY <1>5, <2>2
    <3> QED BY <3>1 DEF IInv, SecondLook
  <2> QED BY <2>1, <2>2
<1> QED BY <1>9, <1>10, <1>11, <1>12, <1>13, <1>14, <1>15, <1>16 DEF IInv

LEMMA ReadKeeps ==
    ASSUME IInv, NEW c \in Callers, Read(c)
    PROVE  IInv'
<1> DEFINE e    == cache.table[call[c].region]
           more == kind = "do" /\ call[c].want = "create" /\ e # None
           got  == IF call[c].want = "cost" THEN [call[c].ans EXCEPT !.cost = e.cost] ELSE e
           w    == IF more THEN "cost" ELSE call[c].want
           pc   == IF more THEN "ensure" ELSE "done"
<1>1. /\ UNCHANGED <<setting, cache, rates, lock, lazy, faults>>
      /\ call[c].pc = "read"
  BY DEF Read
<1>2. /\ call[c] \in CallType /\ call \in [Callers -> CallType] /\ cache \in CacheType
      /\ call[c].want \in Wants
      /\ e \in Entry /\ call[c].ans \in Entry
  BY TableFacts DEF IInv, TypeOK, CallType, CacheType
<1>3. /\ call'[c] = [call[c] EXCEPT !.ans = got, !.stale = cache.age, !.want = w, !.pc = pc]
      /\ \A d \in Callers : d # c => call'[d] = call[d]
      /\ DOMAIN call' = Callers /\ call' = [d \in Callers |-> call'[d]]
  BY <1>2 DEF Read
<1>4. w \in Wants /\ pc \in CallPCs BY <1>2 DEF Wants, CallPCs
<1>5. ~call[c].failed /\ Trusted => e = TableOf[call[c].region] /\ got = e
  <2> SUFFICES ASSUME ~call[c].failed, Trusted
               PROVE  e = TableOf[call[c].region] /\ got = e
    OBVIOUS
  <2>1. cache.table = TableOf BY <1>1 DEF IInv, ReadsFresh, Reader, Complete
  <2>2. call[c].want = "cost" => call[c].ans = e BY <2>1 DEF IInv, Answers
  <2> QED BY <1>2, <2>1, <2>2, TableFacts
<1>6. got \in Entry /\ cache.age \in 0..Day
  <2>1. CASE call[c].want = "cost"
    <3>1. ~call[c].failed /\ Trusted BY <1>1, <2>1 DEF IInv, SecondLook, Trusted, Forgets
    <3> QED BY <1>2, <1>5, <3>1 DEF CacheType
  <2>2. CASE call[c].want # "cost" BY <1>2, <2>2 DEF CacheType
  <2> QED BY <2>1, <2>2
<1>7. more => kind = "do" OBVIOUS
<1>8. (w = "cost" => kind = "do") /\ (pc = "done" \/ ~call[c].failed) /\ pc \in {"ensure", "done"}
  BY <1>1 DEF IInv, SecondLook
<1>9. ~call[c].failed => cache.set /\ (kind \in Once \/ cache.age < Day)
  BY <1>1 DEF IInv, ReadsFresh, Reader
<1> HIDE DEF e, more, got, w, pc
<1>10. /\ call'[c].pc = pc /\ call'[c].want = w /\ call'[c].ans = got
       /\ call'[c].stale = cache.age /\ call'[c].failed = call[c].failed
       /\ call'[c].region = call[c].region /\ call'[c] \in CallType
  BY <1>2, <1>3, <1>4, <1>6 DEF CallType
<1>11. TypeOK'
  <2>1. \A d \in Callers : call'[d] \in CallType BY <1>2, <1>3, <1>10
  <2>2. call' \in [Callers -> CallType] BY <1>3, <2>1
  <2> QED BY <1>1, <2>2 DEF IInv, TypeOK, setting
<1>12. TableOf' = TableOf /\ Trusted' = Trusted /\ kind' = kind
  BY <1>1, SameTable DEF setting, Trusted
<1>13. \A d \in Callers : call'[d].pc \in {"read", "load", "once", "list", "sleep"} => call'[d] = call[d]
  BY <1>3, <1>8, <1>10
<1>14. Locked' /\ Complete' /\ ReadsFresh' /\ Exclusive' /\ ForRegions' /\ RegionsComplete'
  BY <1>1, <1>12, <1>13 DEF IInv, Locked, Complete, ReadsFresh, Reader, Exclusive,
                           ForRegions, RegionsComplete
<1>15. Answers'
  <2> SUFFICES ASSUME NEW d \in Callers, call'[d].want = "cost" \/ Answered(d)',
                      ~call'[d].failed, Trusted
               PROVE  call'[d].ans = TableOf[call'[d].region]
    BY <1>12 DEF Answers
  <2>1. CASE d = c BY <1>5, <1>10, <2>1
  <2>2. CASE d # c
    <3>1. call'[d] = call[d] BY <1>3, <2>2
    <3> QED BY <3>1 DEF IInv, Answers, Answered
  <2> QED BY <2>1, <2>2
<1>16. NoOldPrices' BY <1>3, <1>9, <1>10, <1>12 DEF IInv, NoOldPrices, Answered
<1>17. SecondLook'
  <2> SUFFICES ASSUME NEW d \in Callers
               PROVE  /\ call'[d].want = "cost" => kind = "do"
                      /\ kind = "do" /\ call'[d].failed => call'[d].pc = "done"
    BY <1>12 DEF SecondLook
  <2>1. CASE d = c BY <1>8, <1>10, <2>1
  <2>2. CASE d # c
    <3>1. call'[d] = call[d] BY <1>3, <2>2
    <3> QED BY <3>1 DEF IInv, SecondLook
  <2> QED BY <2>1, <2>2
<1> QED BY <1>11, <1>14, <1>15, <1>16, <1>17 DEF IInv

LEMMA RegionsKeep ==
    ASSUME IInv, NEW c \in Callers, EnterOnce(c) \/ ListRegions(c) \/ Retry(c)
    PROVE  IInv'
<1>1. PICK pc \in {"ensure", "list", "done", "sleep"} : call' = [call EXCEPT ![c].pc = pc]
  BY DEF EnterOnce, ListRegions, Retry, Goto, Listing
<1>2. /\ UNCHANGED <<setting, cache, rates, lock>>
      /\ call[c].pc \in {"once", "list", "sleep"} /\ call[c].want = "regions"
  BY DEF EnterOnce, ListRegions, Retry, IInv, ForRegions
<1>3. call[c] \in CallType /\ call \in [Callers -> CallType] BY DEF IInv, TypeOK
<1>4. /\ call'[c] = [call[c] EXCEPT !.pc = pc]
      /\ \A d \in Callers : d # c => call'[d] = call[d]
  BY <1>1, <1>3
<1>5. /\ call'[c].pc = pc /\ call'[c].want = "regions"
      /\ call'[c].failed = call[c].failed /\ call'[c] \in CallType
  BY <1>2, <1>3, <1>4 DEF CallType, CallPCs
<1>6. faults \in Nat /\ faults' \in 0..MaxFaults /\ faults' >= faults
  BY DayAssumption DEF EnterOnce, ListRegions, Retry, IInv, TypeOK, Fault, NoFault
<1>7. TableOf' = TableOf /\ (Trusted' => Trusted) /\ kind' = kind
  BY <1>2, <1>6, SameTable DEF setting, Trusted
<1>8. Listed \subseteq Regions BY DEF Listed
<1>9. /\ lazy' \in [pc : {"unset", "running", "set"}, regions : SUBSET Regions]
      /\ lazy'.pc = "set" => UNCHANGED lazy \/ (lazy'.regions = Listed /\ call[c].pc = "list")
  BY <1>8 DEF EnterOnce, ListRegions, Retry, IInv, TypeOK
<1>10. TypeOK'
  <2>1. call' \in [Callers -> CallType] BY <1>1, <1>3, <1>4, <1>5
  <2> QED BY <1>2, <1>6, <1>9, <2>1 DEF IInv, TypeOK, setting
<1>11. RegionsComplete'
  <2> SUFFICES ASSUME lazy'.pc = "set", ~UNCHANGED lazy
               PROVE  IF kind = "vultr"
                      THEN faults' = 0 => lazy'.regions = {r \in Regions : TableOf[r] # None}
                      ELSE lazy'.regions = Regions
    BY <1>6, <1>7 DEF IInv, RegionsComplete
  <2>1. lazy'.regions = Listed /\ call[c].pc = "list" BY <1>9
  <2>2. CASE kind # "vultr" BY <2>1, <2>2 DEF Listed
  <2>3. CASE kind = "vultr" /\ faults' = 0
    <3>1. faults = 0 /\ cache.set BY <1>6, <2>1, <2>3 DEF IInv, ForRegions
    <3>2. cache.table = TableOf BY <3>1 DEF IInv, Complete, Trusted
    <3> QED BY <2>1, <2>3, <3>2 DEF Listed
  <2> QED BY <2>2, <2>3
<1>12. \A d \in Callers : /\ call'[d].pc \in {"read", "load"} => call'[d] = call[d]
                          /\ call'[d].want = "cost" \/ Answered(d)' => call'[d] = call[d]
  BY <1>4, <1>5 DEF Answered
<1>13. Locked' /\ ReadsFresh' /\ Exclusive' /\ Complete'
  BY <1>2, <1>6, <1>7, <1>12 DEF IInv, Locked, ReadsFresh, Reader, Exclusive, Complete
<1>14. Answers' /\ NoOldPrices'
  BY <1>7, <1>12 DEF IInv, Answers, NoOldPrices, Answered
<1>15. ForRegions'
  <2>1. kind = "vultr" /\ pc = "list" /\ call[c].pc # "list" => FALSE
    BY <1>3, <1>4, <1>5 DEF EnterOnce, ListRegions, Retry, Listing, Goto, CallType
  <2>2. pc = "list" => call[c].pc = "list" \/ kind # "vultr" BY <2>1
  <2>3. ASSUME NEW d \in Callers
        PROVE  /\ call'[d].pc \in {"once", "list", "sleep"} => call'[d].want = "regions"
               /\ kind = "vultr" /\ call'[d].pc = "list" /\ faults' = 0 => cache'.set
    <3>1. CASE d = c BY <1>2, <1>5, <1>6, <2>2, <3>1 DEF IInv, ForRegions
    <3>2. CASE d # c BY <1>2, <1>4, <1>6, <3>2 DEF IInv, ForRegions
    <3> QED BY <3>1, <3>2
  <2> QED BY <1>7, <2>3 DEF ForRegions
<1>16. SecondLook'
  BY <1>2, <1>4, <1>5, <1>7 DEF IInv, SecondLook
<1> QED BY <1>10, <1>11, <1>13, <1>14, <1>15, <1>16 DEF IInv

LEMMA TickKeeps ==
    ASSUME IInv, Tick
    PROVE  IInv'
<1>1. TableOf' = TableOf /\ Trusted' = Trusted /\ kind' = kind
  BY SameTable DEF Tick, setting, Trusted
<1>2. /\ cache'.set = cache.set /\ cache'.table = cache.table /\ cache' \in CacheType
      /\ UNCHANGED <<setting, rates, lock, call, lazy, faults>>
      /\ \A c \in Callers : call[c].pc \notin {"load", "read", "list"}
  BY DayAssumption DEF Tick, IInv, TypeOK, CacheType
<1>3. TypeOK' BY <1>2 DEF IInv, TypeOK, setting
<1> QED BY <1>1, <1>2, <1>3
        DEF IInv, Locked, Complete, ReadsFresh, Reader, Exclusive, Answers, Answered,
            NoOldPrices, ForRegions, SecondLook, RegionsComplete

LEMMA NextKeeps == IInv /\ [Next]_vars => IInv'
<1> SUFFICES ASSUME IInv, [Next]_vars PROVE IInv' OBVIOUS
<1>1. ASSUME NEW c \in Callers, Ask(c) \/ AskRegions(c) \/ Returns(c) PROVE IInv'
  BY <1>1, AskKeeps
<1>2. ASSUME NEW c \in Callers, Ensure(c) PROVE IInv' BY <1>2, EnsureKeeps
<1>3. ASSUME NEW c \in Callers, Load(c) PROVE IInv' BY <1>3, LoadKeeps
<1>4. ASSUME NEW c \in Callers, Read(c) PROVE IInv' BY <1>4, ReadKeeps
<1>5. ASSUME NEW c \in Callers, EnterOnce(c) \/ ListRegions(c) \/ Retry(c) PROVE IInv'
  BY <1>5, RegionsKeep
<1>6. CASE Tick BY <1>6, TickKeeps
<1>7. CASE UNCHANGED vars
  <2>1. TableOf' = TableOf BY <1>7, SameTable DEF vars, setting
  <2> QED BY <1>7, <2>1
          DEF vars, setting, IInv, TypeOK, Locked, Complete, Trusted, ReadsFresh, Reader, Exclusive,
              Answers, Answered, NoOldPrices, ForRegions, SecondLook, RegionsComplete
<1> QED BY <1>1, <1>2, <1>3, <1>4, <1>5, <1>6, <1>7 DEF Next, Step

LEMMA Inductive == Spec => []IInv
BY InitIInv, NextKeeps, PTL DEF Spec

-----------------------------------------------------------------------------
(* Theorems                                                                *)

(* Type correctness: every table that a load makes, or half makes, has for *)
(* each region nothing or a machine type at a price.                       *)
THEOREM TypeCorrect == Spec => []TypeOK
<1>1. IInv => TypeOK BY DEF IInv
<1> QED BY Inductive, <1>1, PTL

(* "Using cheapest size for the region" (do.go, vultr.go, ...), for every  *)
(* price list; at Hetzner a type that the location sells, at its price     *)
(* (hetzner.go:254-285).                                                   *)
THEOREM TablesRight == Spec => []TablesAreRight
<1>1. IInv => TablesAreRight
  <2> SUFFICES ASSUME IInv PROVE TablesAreRight OBVIOUS
  <2>1. list \in List /\ kind \in {"do", "vultr", "linode", "ec2", "azure", "gcp", "hetzner"}
    BY KindAssumption DEF IInv, TypeOK
  <2>2. CASE kind = "hetzner" BY <2>1, <2>2, HetznerIsRight DEF TablesAreRight, TableOf
  <2>3. CASE kind = "do" BY <2>1, <2>3, DOIsRight DEF TablesAreRight, TableOf
  <2>4. CASE kind = "vultr" BY <2>1, <2>4, VultrIsRight DEF TablesAreRight, TableOf
  <2>5. CASE kind = "linode" BY <2>1, <2>5, LinodeIsRight DEF TablesAreRight, TableOf
  <2>6. CASE kind = "ec2" BY <2>1, <2>6, EC2IsRight DEF TablesAreRight, TableOf
  <2>7. CASE kind = "azure" BY <2>1, <2>7, AzureIsRight DEF TablesAreRight, TableOf
  <2>8. CASE kind = "gcp" BY <2>1, <2>8, GCPIsRight DEF TablesAreRight, TableOf
  <2> QED BY <2>1, <2>2, <2>3, <2>4, <2>5, <2>6, <2>7, <2>8
<1> QED BY Inductive, <1>1, PTL

(* A call none of whose requests failed is answered from the complete      *)
(* table, whoever else loads, or fails to, at the same time.               *)
THEOREM AnswersAreComplete == Spec => []AnswersComplete
<1>1. IInv => AnswersComplete
  BY DEF IInv, Answers, AnswersComplete, Trusted
<1> QED BY Inductive, <1>1, PTL

(* Nobody is told a price that is a day old unless refreshing it failed    *)
(* for that caller; EC2 and Linode never refresh.                          *)
THEOREM PricesAreOfToday == Spec => []NoOldPrices
<1>1. IInv => NoOldPrices BY DEF IInv
<1> QED BY Inductive, <1>1, PTL

(* The regions, kept for the life of the process (lazy.go:8-20), are all   *)
(* of them.                                                                *)
THEOREM RegionsAreComplete == Spec => []RegionsComplete
<1>1. IInv => RegionsComplete BY DEF IInv
<1> QED BY Inductive, <1>1, PTL
=============================================================================
