-------------------------- MODULE ServiceHelperProofs --------------------------
(***************************************************************************)
(* Proofs about ServiceHelper, for include lists and lists of name servers *)
(* of every length, every set of prefix lengths, and D-Bus calls that fail *)
(* or not.                                                                 *)
(*                                                                         *)
(* What the loops of get_ip4_routes and get_ip6_routes compute is shown by *)
(* induction over their passes.  Induction is over sets of numbers (NatSetInduction), from the  *)
(* fact that a set of naturals that is not empty has a least element.      *)
(***************************************************************************)
EXTENDS ServiceHelper, FiniteSetTheorems, WellFoundedInduction, TLAPS

\* The parts that have arrived, against how far the helper is.
HandoffFits ==
    /\ got \subseteq {"config"} \cup Announced
    /\ pc \in {"start", "build", "ignored", "config"} => got = {}
    /\ pc = "ip4" => got = {"config"}
    /\ pc = "ip6" => got = {"config"} \cup (Announced \cap {"ip4"})
    /\ pc = "completed" => got = {"config"} \cup Announced
    /\ pc \in {"ip4", "ip6"} => has = Announced

\* The service counts the parts as the helper does.
ServiceFits ==
    /\ ~disconnected /\ pc # "failed" => service \in {"starting", "started"}
    /\ ~disconnected /\ pc \in {"ip4", "ip6", "completed"}
       /\ got = {"config"} \cup Announced => service = "started"
    /\ NoHalfConfig

\* What Build makes of the environment.
Config4 == IF env.ip4 THEN family(get_ip4_routes(env.inc4, env.mask4 = 0), domains4,
                                  addr46_list(env.dns, 4))
           ELSE NoConfig
Config6 == IF env.ip6 THEN family(get_ip6_routes(env.inc6, env.mask6 = 0), domains6,
                                  addr46_list(env.dns, 6))
           ELSE NoConfig

\* Nothing is sent before it is built.
ConfigFits ==
    \/ /\ got = {} /\ pc \in {"start", "build", "ignored", "failed"}
       /\ ip4config = NoConfig /\ ip6config = NoConfig
    \/ /\ pc \notin {"start", "build", "ignored"}
       /\ ip4config = Config4 /\ ip6config = Config6

\* The types of the control state.
Control ==
    /\ pc \in {"start", "build", "config", "ip4", "ip6"} \cup Done
    /\ service \in {"starting", "started", "stopped", "exited"}
    /\ has \subseteq {"ip4", "ip6"}
    /\ got \subseteq {"config", "ip4", "ip6"}
    /\ disconnected \in BOOLEAN

HelperInv ==
    /\ Control /\ env \in Env(Includes, Includes, Servers)
    /\ HandoffFits /\ ServiceFits /\ ConfigFits

-----------------------------------------------------------------------------
(* Induction, and the loop over an include list.                           *)

\* Induction over the natural numbers, for a set instead of a predicate.
LEMMA NatSetInduction ==
  ASSUME NEW T, 0 \in T, \A n \in Nat : n \in T => n + 1 \in T
  PROVE  Nat \subseteq T
<1> SUFFICES ASSUME ~(Nat \subseteq T) PROVE FALSE
  OBVIOUS
<1> DEFINE Missed == Nat \ T
<1>1. Missed # {} /\ Missed \subseteq Nat
  OBVIOUS
<1>2. PICK m \in Missed : \A k \in Missed : ~(<<k, m>> \in OpToRel(<, Nat))
  <2> HIDE DEF Missed
  <2> QED BY <1>1, NatLessThanWellFounded, WFMin
<1>3. m \in Nat /\ m # 0 /\ m \notin T
  OBVIOUS
<1>4. m - 1 \in Nat /\ m - 1 < m
  BY <1>3
<1>5. <<m - 1, m>> \in OpToRel(<, Nat)
  BY <1>3, <1>4 DEF OpToRel
<1>6. m - 1 \in T
  BY <1>2, <1>4, <1>5
<1> QED BY <1>3, <1>4, <1>6

\* The first k passes over inc as a function of their number; default: d.
Passes(f, inc, d, k) ==
    f = [n \in 0 .. k |-> IF n = 0 THEN [routes |-> <<>>, default |-> d]
                          ELSE take_route(f[n - 1], inc[n])]

\* The recursion of get_routes defines a function.
LEMMA PassesExist ==
  ASSUME NEW inc, NEW d, NEW k \in Nat
  PROVE  \E f : Passes(f, inc, d, k)
<1> DEFINE T == {n \in Nat : \E f : Passes(f, inc, d, n)}
<1>1. 0 \in T
  <2> DEFINE g == [n \in 0 .. 0 |-> [routes |-> <<>>, default |-> d]]
  <2>1. Passes(g, inc, d, 0)
    BY DEF Passes
  <2> QED BY <2>1
<1>2. ASSUME NEW n \in Nat, n \in T PROVE n + 1 \in T
  <2>1. PICK f : Passes(f, inc, d, n)
    BY <1>2
  <2> DEFINE g == [i \in 0 .. n + 1 |-> IF i = 0 THEN [routes |-> <<>>, default |-> d]
                                        ELSE take_route(f[i - 1], inc[i])]
  <2>2. ASSUME NEW i \in 0 .. n PROVE g[i] = f[i]
    BY <2>1, i \in 0 .. n + 1 DEF Passes
  <2>3. ASSUME NEW i \in 0 .. n + 1, i # 0 PROVE g[i - 1] = f[i - 1]
    <3>1. i - 1 \in 0 .. n
      BY <2>3
    <3> QED BY <2>2, <3>1
  <2>4. g = [i \in 0 .. n + 1 |-> IF i = 0 THEN [routes |-> <<>>, default |-> d]
                                  ELSE take_route(g[i - 1], inc[i])]
    BY <2>3
  <2>5. Passes(g, inc, d, n + 1)
    BY <2>4 DEF Passes
  <2> QED BY <2>5
<1> HIDE DEF T
<1>3. k \in T
  BY <1>1, <1>2, NatSetInduction
<1> QED BY <1>3 DEF T

\* What a list of prefix lengths has said after its first n entries.
Good(inc, n) == {inc[i] : i \in 1 .. n} \ {0, Bad}
Zero(inc, n) == \E i \in 1 .. n : inc[i] = 0

\* What a pass works on: the routes so far, and whether a default was seen.
Acc == [routes : Seq(Nat), default : BOOLEAN]

\* One pass, case by case.
LEMMA TakeRoute ==
  ASSUME NEW acc \in Acc, NEW e \in Nat
  PROVE  /\ take_route(acc, e) \in Acc
         /\ e = Bad => take_route(acc, e) = acc
         /\ e = 0 => take_route(acc, e).routes = acc.routes
         /\ e = 0 => take_route(acc, e).default
         /\ e # Bad /\ e # 0 => take_route(acc, e).routes = Append(acc.routes, e)
         /\ e # Bad /\ e # 0 => (take_route(acc, e).default <=> acc.default)
<1>1. CASE e = Bad
  BY <1>1 DEF take_route, Bad
<1>2. CASE e = 0
  <2>1. take_route(acc, e) = [acc EXCEPT !.default = TRUE]
    BY <1>2 DEF take_route, Bad
  <2>2. take_route(acc, e) \in Acc
    BY <2>1 DEF Acc
  <2>3. take_route(acc, e).routes = acc.routes
    BY <2>1 DEF Acc
  <2>4. take_route(acc, e).default
    BY <2>1 DEF Acc
  <2>5. e # Bad
    BY <1>2 DEF Bad
  <2> QED BY <1>2, <2>2, <2>3, <2>4, <2>5
<1>3. CASE e # Bad /\ e # 0
  <2>1. Append(acc.routes, e) \in Seq(Nat)
    BY DEF Acc
  <2>2. take_route(acc, e) = [acc EXCEPT !.routes = Append(acc.routes, e)]
    BY <1>3 DEF take_route
  <2>3. take_route(acc, e) \in Acc
    BY <2>1, <2>2 DEF Acc
  <2>4. take_route(acc, e).routes = Append(acc.routes, e)
    BY <2>2 DEF Acc
  <2>5. take_route(acc, e).default <=> acc.default
    BY <2>2 DEF Acc
  <2> QED BY <1>3, <2>3, <2>4, <2>5
<1> QED BY <1>1, <1>2, <1>3

\* After n passes the routes are the good entries among the first n, and the
\* default is noted if it was given at first or by one of them.
LEMMA PassesRight ==
  ASSUME NEW inc, Len(inc) \in Nat, NEW d \in BOOLEAN, NEW f, Passes(f, inc, d, Len(inc)),
         \A i \in 1 .. Len(inc) : inc[i] \in Nat
  PROVE  \A n \in 0 .. Len(inc) :
            /\ f[n] \in Acc
            /\ {f[n].routes[i] : i \in 1 .. Len(f[n].routes)} = Good(inc, n)
            /\ f[n].default <=> d \/ Zero(inc, n)
<1> DEFINE R(n) == /\ f[n] \in Acc
                   /\ {f[n].routes[i] : i \in 1 .. Len(f[n].routes)} = Good(inc, n)
                   /\ f[n].default <=> d \/ Zero(inc, n)
           T == {n \in Nat : n <= Len(inc) => R(n)}
<1>1. R(0)
  <2>1. f[0] = [routes |-> <<>>, default |-> d]
    BY DEF Passes
  <2> QED BY <2>1 DEF Good, Zero, Acc
<1>2. ASSUME NEW n \in Nat, n + 1 <= Len(inc), R(n) PROVE R(n + 1)
  <2> DEFINE e == inc[n + 1]
             r == f[n].routes
  <2>1. f[n + 1] = take_route(f[n], e) /\ e \in Nat
    BY <1>2 DEF Passes
  <2>2. 1 .. n + 1 = (1 .. n) \cup {n + 1}
    BY <1>2
  <2>3. {inc[i] : i \in 1 .. n + 1} = {inc[i] : i \in 1 .. n} \cup {e}
    BY <2>2
  <2>4. Good(inc, n + 1) = Good(inc, n) \cup ({e} \ {0, Bad})
    BY <2>3 DEF Good
  <2>5. Zero(inc, n + 1) <=> Zero(inc, n) \/ e = 0
    BY <2>2 DEF Zero
  <2>6. f[n] \in Acc /\ r \in Seq(Nat) /\ e \in Nat
    BY <1>2, <2>1 DEF Acc
  <2>7. f[n + 1] \in Acc
    BY <2>1, <2>6, TakeRoute
  <2>8. CASE e = Bad
    <3>1. f[n + 1] = f[n]
      BY <2>1, <2>6, <2>8, TakeRoute
    <3> QED BY <1>2, <2>4, <2>5, <2>8, <3>1 DEF Bad
  <2>9. CASE e = 0
    <3>0. take_route(f[n], e).routes = f[n].routes /\ take_route(f[n], e).default
      <4> HIDE DEF r, e
      <4> QED BY <2>6, <2>9, TakeRoute, Zenon
    <3>1. f[n + 1].routes = r /\ f[n + 1].default
      <4> HIDE DEF r, e
      <4> QED BY <2>1, <3>0, Zenon DEF r
    <3>2. Good(inc, n + 1) = Good(inc, n) /\ Zero(inc, n + 1)
      BY <2>4, <2>5, <2>9
    <3> QED BY <1>2, <2>7, <3>1, <3>2
  <2>10. CASE e # Bad /\ e # 0
    <3>0. /\ take_route(f[n], e).routes = Append(f[n].routes, e)
          /\ take_route(f[n], e).default <=> f[n].default
      <4> HIDE DEF r, e
      <4> QED BY <2>6, <2>10, TakeRoute, Zenon
    <3>1. f[n + 1].routes = Append(r, e) /\ (f[n + 1].default <=> f[n].default)
      <4> HIDE DEF r, e
      <4> QED BY <2>1, <3>0, Zenon DEF r
    <3>2. /\ Len(Append(r, e)) = Len(r) + 1 /\ Len(r) \in Nat
          /\ \A i \in 1 .. Len(r) : Append(r, e)[i] = r[i]
          /\ Append(r, e)[Len(r) + 1] = e
      BY <2>1, <2>6
    <3>3. 1 .. Len(Append(r, e)) = (1 .. Len(r)) \cup {Len(r) + 1}
      BY <3>2
    <3>4. {Append(r, e)[i] : i \in 1 .. Len(Append(r, e))}
             = {r[i] : i \in 1 .. Len(r)} \cup {e}
      BY <3>2, <3>3
    <3>5. Good(inc, n + 1) = Good(inc, n) \cup {e} /\ (Zero(inc, n + 1) <=> Zero(inc, n))
      BY <2>4, <2>5, <2>10
    <3>6. {f[n + 1].routes[i] : i \in 1 .. Len(f[n + 1].routes)} = Good(inc, n + 1)
      BY <1>2, <3>1, <3>4, <3>5
    <3> QED BY <1>2, <2>7, <3>1, <3>5, <3>6
  <2> QED BY <2>8, <2>9, <2>10
<1>3. 0 \in T
  BY <1>1
<1>4. ASSUME NEW n \in Nat, n \in T PROVE n + 1 \in T
  <2> HIDE DEF R
  <2>1. n + 1 <= Len(inc) => n <= Len(inc)
    OBVIOUS
  <2> QED BY <1>2, <1>4, <2>1
<1>5. Nat \subseteq T
  <2> HIDE DEF T
  <2> QED BY <1>3, <1>4, NatSetInduction
<1> QED BY <1>5

\* What the loop returns.
LEMMA GetRoutesRight ==
  ASSUME NEW prefixes, Len(prefixes) \in Nat, NEW d \in BOOLEAN,
         \A i \in 1 .. Len(prefixes) : prefixes[i] \in Nat
  PROVE  LET r == get_routes(prefixes, d)
         IN  /\ r \in Acc
             /\ {r.routes[i] : i \in 1 .. Len(r.routes)} = Good(prefixes, Len(prefixes))
             /\ r.default <=> d \/ Zero(prefixes, Len(prefixes))
<1> DEFINE pass == CHOOSE f : Passes(f, prefixes, d, Len(prefixes))
<1>1. Passes(pass, prefixes, d, Len(prefixes))
  BY PassesExist
<1>2. get_routes(prefixes, d) = pass[Len(prefixes)]
  BY DEF get_routes, Passes
<1> HIDE DEF pass
<1>3. /\ pass[Len(prefixes)] \in Acc
      /\ {pass[Len(prefixes)].routes[i] : i \in 1 .. Len(pass[Len(prefixes)].routes)}
            = Good(prefixes, Len(prefixes))
      /\ pass[Len(prefixes)].default <=> d \/ Zero(prefixes, Len(prefixes))
  BY <1>1, PassesRight
<1> QED BY <1>2, <1>3

\* The lengths a list may have, and what its entries are.
LEMMA IncludesTypes ==
  ASSUME NEW inc \in Includes
  PROVE  /\ Len(inc) \in Nat
         /\ \A i \in 1 .. Len(inc) : inc[i] \in Entries
<1>1. PICK n \in 0 .. MaxRoutes : inc \in [1 .. n -> Entries]
  BY DEF Includes
<1>2. n \in Nat /\ inc \in Seq(Entries) /\ Len(inc) = n
  BY <1>1, ConstantsAssumption
<1> QED BY <1>1, <1>2

\* What the loop is to make of an entry: p is the entry's length, for a route;
\* 0, for a default route; or Bad.
Reads(p, entry, addresses) ==
    /\ p \in Nat
    /\ (p # 0 /\ p # Bad) <=> (entry.addr = "good" /\ entry.len \in PrefixLengths)
    /\ (p # 0 /\ p # Bad) => p = entry.len
    /\ p = 0 <=> (entry.addr \in addresses /\ entry.len \in {0, NotNumber})

\* An entry is a route if its address can be parsed and its length is a length;
\* a default route if its length reads 0 and its address is set and, for IPv4,
\* can be parsed.
LEMMA EntryRight ==
  ASSUME NEW entry \in Entries
  PROVE  /\ Reads(ip4_entry(entry), entry, {"good"})
         /\ Reads(ip6_entry(entry), entry, {"good", "bad"})
<1>1. /\ entry.addr \in {"good", "bad", "unset"}
      /\ entry.len \in PrefixLengths \cup {0, NotNumber, Bad}
  BY DEF Entries
<1>2. PrefixLengths \subseteq 1 .. 128
  BY ConstantsAssumption
<1> DEFINE l == strtol(entry.len)
<1>3. CASE entry.len \in {0, NotNumber}
  <2>1. l = 0 /\ entry.len \notin PrefixLengths
    BY <1>2, <1>3 DEF strtol, NotNumber
  <2> QED BY <1>1, <1>3, <2>1 DEF Reads, ip4_entry, ip6_entry, Bad
<1>4. CASE entry.len = Bad
  <2>1. l = Bad /\ entry.len \notin PrefixLengths /\ entry.len \notin {0, NotNumber}
    BY <1>2, <1>4 DEF strtol, NotNumber, Bad
  <2> QED BY <1>1, <2>1 DEF Reads, ip4_entry, ip6_entry, Bad
<1>5. CASE entry.len \in PrefixLengths
  <2>0. entry.len \in 1 .. 128
    BY <1>2, <1>5
  <2>1. /\ l = entry.len /\ l \in Nat /\ l # 0 /\ l # Bad
        /\ entry.len \notin {0, NotNumber}
    BY <2>0 DEF strtol, NotNumber, Bad
  <2>2. CASE entry.addr = "good"
    <3>1. ip4_entry(entry) = l /\ ip6_entry(entry) = l
      BY <2>2 DEF ip4_entry, ip6_entry
    <3> QED BY <1>5, <2>1, <2>2, <3>1 DEF Reads
  <2>3. CASE entry.addr # "good"
    <3>1. ip4_entry(entry) = Bad /\ ip6_entry(entry) = Bad
      BY <1>1, <2>1, <2>3 DEF ip4_entry, ip6_entry
    <3> QED BY <2>1, <2>3, <3>1 DEF Reads, Bad
  <2> QED BY <2>2, <2>3
<1> QED BY <1>1, <1>3, <1>4, <1>5

\* r has the routes of inc, and the default that was given at first or by inc.
Says(r, inc, d, addresses) ==
    /\ r \in Acc
    /\ {r.routes[i] : i \in 1 .. Len(r.routes)} = RouteSet(inc)
    /\ r.default <=> d \/ GivesDefault(inc, addresses)

\* A list of numbers, made entry by entry from a list of includes, says what
\* the reference says of the includes.
LEMMA ListRight ==
  ASSUME NEW inc \in Includes, NEW addresses, NEW prefixes, NEW d \in BOOLEAN,
         Len(prefixes) = Len(inc),
         \A i \in 1 .. Len(inc) : Reads(prefixes[i], inc[i], addresses)
  PROVE  Says(get_routes(prefixes, d), inc, d, addresses)
<1> USE DEF Reads
<1>1. Len(inc) \in Nat
  BY IncludesTypes
<1>2. Good(prefixes, Len(inc)) = RouteSet(inc)
  <2>1. ASSUME NEW e \in Good(prefixes, Len(inc)) PROVE e \in RouteSet(inc)
    <3>1. PICK i \in 1 .. Len(inc) : e = prefixes[i] /\ prefixes[i] \notin {0, Bad}
      BY DEF Good
    <3>2. inc[i].addr = "good" /\ inc[i].len \in PrefixLengths /\ e = inc[i].len
      BY <3>1
    <3> QED BY <3>2 DEF RouteSet
  <2>2. ASSUME NEW e \in RouteSet(inc) PROVE e \in Good(prefixes, Len(inc))
    <3>1. PICK i \in 1 .. Len(inc) : /\ inc[i].addr = "good" /\ e = inc[i].len
                                    /\ e \in PrefixLengths
      BY DEF RouteSet
    <3>2. prefixes[i] \notin {0, Bad} /\ e = prefixes[i]
      BY <3>1
    <3> QED BY <3>2 DEF Good
  <2> QED BY <2>1, <2>2
<1>3. Zero(prefixes, Len(inc)) <=> GivesDefault(inc, addresses)
  BY DEF Zero, GivesDefault
<1>4. /\ get_routes(prefixes, d) \in Acc
      /\ {get_routes(prefixes, d).routes[i] : i \in 1 .. Len(get_routes(prefixes, d).routes)}
            = Good(prefixes, Len(prefixes))
      /\ get_routes(prefixes, d).default <=> d \/ Zero(prefixes, Len(prefixes))
  BY <1>1, GetRoutesRight
<1> QED BY <1>2, <1>3, <1>4 DEF Says

\* What get_ip4_routes returns.
LEMMA Ip4RoutesRight ==
  ASSUME NEW inc \in Includes, NEW d \in BOOLEAN
  PROVE  Says(get_ip4_routes(inc, d), inc, d, {"good"})
<1> DEFINE prefixes == [i \in 1 .. Len(inc) |-> ip4_entry(inc[i])]
<1>1. Len(inc) \in Nat /\ \A i \in 1 .. Len(inc) : inc[i] \in Entries
  BY IncludesTypes
<1>2. Len(prefixes) = Len(inc)
  BY <1>1
<1>3. \A i \in 1 .. Len(inc) : prefixes[i] = ip4_entry(inc[i])
  OBVIOUS
<1>4. get_ip4_routes(inc, d) = get_routes(prefixes, d)
  BY DEF get_ip4_routes
<1> HIDE DEF prefixes
<1>5. \A i \in 1 .. Len(inc) : Reads(prefixes[i], inc[i], {"good"})
  BY <1>1, <1>3, EntryRight
<1> QED BY <1>2, <1>4, <1>5, ListRight

\* What get_ip6_routes returns.
LEMMA Ip6RoutesRight ==
  ASSUME NEW inc \in Includes, NEW d \in BOOLEAN
  PROVE  Says(get_ip6_routes(inc, d), inc, d, {"good", "bad"})
<1> DEFINE prefixes == [i \in 1 .. Len(inc) |-> ip6_entry(inc[i])]
<1>1. Len(inc) \in Nat /\ \A i \in 1 .. Len(inc) : inc[i] \in Entries
  BY IncludesTypes
<1>2. Len(prefixes) = Len(inc)
  BY <1>1
<1>3. \A i \in 1 .. Len(inc) : prefixes[i] = ip6_entry(inc[i])
  OBVIOUS
<1>4. get_ip6_routes(inc, d) = get_routes(prefixes, d)
  BY DEF get_ip6_routes
<1> HIDE DEF prefixes
<1>5. \A i \in 1 .. Len(inc) : Reads(prefixes[i], inc[i], {"good", "bad"})
  BY <1>1, <1>3, EntryRight
<1> QED BY <1>2, <1>4, <1>5, ListRight

\* What a family's configuration says, against the reference.
LEMMA FamilyRight ==
  ASSUME NEW inc, NEW addresses, NEW mask, NEW domains, NEW dns, NEW r,
         Says(r, inc, mask = 0, addresses)
  PROVE  /\ Reference(family(r, domains, dns), mask, inc, addresses)
         /\ family(r, domains, dns).never_default \in BOOLEAN
         /\ family(r, domains, dns).domains = domains
         /\ family(r, domains, dns).dns = dns
<1> DEFINE c == family(r, domains, dns)
<1>0. /\ r \in Acc
      /\ {r.routes[i] : i \in 1 .. Len(r.routes)} = RouteSet(inc)
      /\ r.default <=> mask = 0 \/ GivesDefault(inc, addresses)
  BY DEF Says
<1>1. r.routes # <<>> <=> RouteSet(inc) # {}
  <2>1. r.routes \in Seq(Nat)
    BY <1>0 DEF Acc
  <2>2. r.routes # <<>> => Len(r.routes) >= 1
    BY <2>1
  <2>3. r.routes # <<>> => 1 \in 1 .. Len(r.routes)
    BY <2>1, <2>2
  <2>4. r.routes = <<>> => 1 .. Len(r.routes) = {}
    OBVIOUS
  <2> QED BY <1>0, <2>3, <2>4
<1>2. c = [routes |-> r.routes, never_default |-> r.routes # <<>> /\ ~r.default,
           domains |-> domains, dns |-> dns]
  BY DEF family
<1> HIDE DEF c
<1>3. c.routes = r.routes /\ c.domains = domains /\ c.dns = dns
  BY <1>2
<1>4. c.never_default \in BOOLEAN
  BY <1>2
<1>5. c.never_default <=> r.routes # <<>> /\ ~r.default
  BY <1>2
<1>6. Reference(c, mask, inc, addresses)
  BY <1>0, <1>1, <1>3, <1>5 DEF Reference
<1> QED BY <1>3, <1>4, <1>6 DEF c

-----------------------------------------------------------------------------
(* What Build makes of the environment.                                    *)

\* A list of name servers is a finite list of numbers.
LEMMA Lists ==
  ASSUME NEW list \in Servers
  PROVE  /\ Len(list) \in 0 .. MaxRoutes
         /\ \A i \in 1 .. Len(list) : list[i] \in {4, 6, Bad}
<1>1. PICK n \in 0 .. MaxRoutes : list \in [1 .. n -> {4, 6, Bad}]
  BY DEF Servers
<1>2. n \in Nat /\ list \in Seq({4, 6, Bad}) /\ Len(list) = n
  BY <1>1, ConstantsAssumption
<1> QED BY <1>1, <1>2

\* The entries of a list that are e are finitely many, and counted.
LEMMA CountTypes ==
  ASSUME NEW list \in Servers, NEW e
  PROVE  /\ IsFiniteSet({i \in 1 .. Len(list) : list[i] = e})
         /\ Count(list, e) \in 0 .. MaxRoutes
<1>1. Len(list) \in Nat /\ Len(list) <= MaxRoutes
  BY Lists, ConstantsAssumption
<1>2. IsFiniteSet(1 .. Len(list)) /\ Cardinality(1 .. Len(list)) = Len(list)
  <2>1. /\ 1 \in Int /\ Len(list) \in Int
        /\ IF 1 > Len(list) THEN 0 = Len(list) ELSE Len(list) - 1 + 1 = Len(list)
    BY <1>1
  <2> QED BY <2>1, FS_Interval
<1> DEFINE E == {i \in 1 .. Len(list) : list[i] = e}
<1>3. E \subseteq 1 .. Len(list)
  OBVIOUS
<1> HIDE DEF E
<1>4. IsFiniteSet(E) /\ Cardinality(E) <= Len(list) /\ Cardinality(E) \in Nat
  BY <1>2, <1>3, FS_Subset, FS_CardinalityType
<1> QED BY <1>1, <1>4, ConstantsAssumption DEF E, Count

\* The name servers of a family are all of them or none.
LEMMA Addr46Types ==
  ASSUME NEW list \in Servers, NEW f
  PROVE  /\ addr46_list(list, f) \in 0 .. MaxRoutes
         /\ addr46_list(list, f) \in {0, Count(list, f)}
<1>1. Count(list, f) \in 0 .. MaxRoutes
  BY CountTypes
<1>2. 0 \in 0 .. MaxRoutes
  BY ConstantsAssumption
<1> QED BY <1>1, <1>2 DEF addr46_list

\* A list that is not discarded has no bad entry.
LEMMA NoneBad ==
  ASSUME NEW list \in Servers, ~(Count(list, Bad) > 0)
  PROVE  \A i \in 1 .. Len(list) : list[i] # Bad
<1> DEFINE B == {i \in 1 .. Len(list) : list[i] = Bad}
<1>1. IsFiniteSet(B) /\ Count(list, Bad) \in 0 .. MaxRoutes
  BY CountTypes
<1>2. Count(list, Bad) = 0
  BY <1>1, ConstantsAssumption
<1>3. Cardinality(B) = 0
  BY <1>2 DEF Count
<1>4. B = {}
  <2> HIDE DEF B
  <2> QED BY <1>1, <1>3, FS_EmptySet
<1> QED BY <1>4

\* The parts of an environment that the configurations are made of.
LEMMA EnvTypes ==
  ASSUME env \in Env(Includes, Includes, Servers)
  PROVE  /\ env.inc4 \in Includes /\ env.inc6 \in Includes /\ env.dns \in Servers
         /\ env.mask4 \in PrefixLengths \cup {0, Absent}
         /\ env.mask6 \in PrefixLengths \cup {0, Absent}
BY DEF Env

\* The type of a configuration, as in TypeOK.
ConfigOK(c) ==
    /\ \A i \in 1 .. Len(c.routes) : c.routes[i] \in PrefixLengths
    /\ c.never_default \in BOOLEAN
    /\ c.domains \in {"none", "split", "default"}
    /\ c.dns \in 0 .. MaxRoutes

\* What `family' makes of the routes that were read and a number of name servers.
LEMMA FamilyTypes ==
  ASSUME NEW inc, NEW addresses, NEW mask, NEW domains \in {"none", "split", "default"},
         NEW dns \in 0 .. MaxRoutes, NEW r, Says(r, inc, mask = 0, addresses)
  PROVE  /\ ConfigOK(family(r, domains, dns))
         /\ Reference(family(r, domains, dns), mask, inc, addresses)
         /\ family(r, domains, dns).dns = dns
<1> DEFINE c == family(r, domains, dns)
<1>1. /\ Reference(c, mask, inc, addresses) /\ c.never_default \in BOOLEAN
      /\ c.domains = domains /\ c.dns = dns
  BY FamilyRight
<1>2. RouteSet(inc) \subseteq PrefixLengths
  BY DEF RouteSet
<1> HIDE DEF c
<1>3. \A i \in 1 .. Len(c.routes) : c.routes[i] \in PrefixLengths
  BY <1>1, <1>2 DEF Reference
<1> QED BY <1>1, <1>3 DEF c, ConfigOK

\* An address family that is not used.
LEMMA NoConfigTypes == ConfigOK(NoConfig) /\ NoConfig.dns = 0
<1>1. 0 \in 0 .. MaxRoutes
  BY ConstantsAssumption
<1> QED BY <1>1 DEF ConfigOK, NoConfig

\* Both families' configurations, from their types to their routes and servers.
LEMMA ConfigTypes ==
  ASSUME env \in Env(Includes, Includes, Servers)
  PROVE  /\ ConfigOK(Config4) /\ ConfigOK(Config6)
         /\ env.ip4 => Reference(Config4, env.mask4, env.inc4, {"good"})
         /\ env.ip6 => Reference(Config6, env.mask6, env.inc6, {"good", "bad"})
         /\ Config4.dns = IF env.ip4 THEN addr46_list(env.dns, 4) ELSE 0
         /\ Config6.dns = IF env.ip6 THEN addr46_list(env.dns, 6) ELSE 0
<1>1. domains4 \in {"none", "split", "default"} /\ domains6 \in {"none", "split", "default"}
  BY DEF domains4, domains6
<1>2. addr46_list(env.dns, 4) \in 0 .. MaxRoutes /\ addr46_list(env.dns, 6) \in 0 .. MaxRoutes
  BY EnvTypes, Addr46Types
<1>3. /\ ConfigOK(Config4)
      /\ env.ip4 => Reference(Config4, env.mask4, env.inc4, {"good"})
      /\ Config4.dns = IF env.ip4 THEN addr46_list(env.dns, 4) ELSE 0
  <2>1. CASE env.ip4
    <3> DEFINE r == get_ip4_routes(env.inc4, env.mask4 = 0)
    <3>1. Config4 = family(r, domains4, addr46_list(env.dns, 4))
      BY <2>1 DEF Config4
    <3>2. env.inc4 \in Includes /\ (env.mask4 = 0) \in BOOLEAN
      BY EnvTypes
    <3>3. Says(r, env.inc4, env.mask4 = 0, {"good"})
      BY <3>2, Ip4RoutesRight
    <3> HIDE DEF r
    <3> QED BY <1>1, <1>2, <2>1, <3>1, <3>3, FamilyTypes
  <2>2. CASE ~env.ip4
    BY <2>2, NoConfigTypes DEF Config4
  <2> QED BY <2>1, <2>2
<1>4. /\ ConfigOK(Config6)
      /\ env.ip6 => Reference(Config6, env.mask6, env.inc6, {"good", "bad"})
      /\ Config6.dns = IF env.ip6 THEN addr46_list(env.dns, 6) ELSE 0
  <2>1. CASE env.ip6
    <3> DEFINE r == get_ip6_routes(env.inc6, env.mask6 = 0)
    <3>1. Config6 = family(r, domains6, addr46_list(env.dns, 6))
      BY <2>1 DEF Config6
    <3>2. env.inc6 \in Includes /\ (env.mask6 = 0) \in BOOLEAN
      BY EnvTypes
    <3>3. Says(r, env.inc6, env.mask6 = 0, {"good", "bad"})
      BY <3>2, Ip6RoutesRight
    <3> HIDE DEF r
    <3> QED BY <1>1, <1>2, <2>1, <3>1, <3>3, FamilyTypes
  <2>2. CASE ~env.ip6
    BY <2>2, NoConfigTypes DEF Config6
  <2> QED BY <2>1, <2>2
<1> QED BY <1>3, <1>4

\* The environment is read once.
LEMMA EnvKept ==
  ASSUME env' = env
  PROVE  Announced' = Announced /\ Config4' = Config4 /\ Config6' = Config6
BY DEF Announced, Config4, Config6, domains4, domains6

-----------------------------------------------------------------------------
(* The invariant.                                                          *)

\* The helper starts in the invariant, whatever its environment.
LEMMA HelperInit == AnyInit => HelperInv
BY DEF AnyInit, Start, HelperInv, Control, Done, HandoffFits, ServiceFits, NoHalfConfig,
       ConfigFits

\* The environments of the runs are among those of the theorems.
LEMMA RunsAreCovered == Spec => AnySpec
<1>1. <<>> \in Includes /\ <<>> \in Servers
  <2>1. 0 \in 0 .. MaxRoutes
    BY ConstantsAssumption
  <2>2. \A S : <<>> \in [1 .. 0 -> S]
    OBVIOUS
  <2> QED BY <2>1, <2>2 DEF Includes, Servers
<1>2. /\ Env(Includes, {<<>>}, {<<>>}) \subseteq Env(Includes, Includes, Servers)
      /\ Env({<<>>}, Includes, {<<>>}) \subseteq Env(Includes, Includes, Servers)
      /\ Env({<<>>}, {<<>>}, Servers) \subseteq Env(Includes, Includes, Servers)
  BY <1>1 DEF Env
<1>3. Init => AnyInit
  BY <1>2 DEF Init, AnyInit, Start
<1> QED BY <1>3, PTL DEF Spec, AnySpec

\* The announced families, case by case.
LEMMA Families ==
  /\ Announced \subseteq {"ip4", "ip6"}
  /\ "ip4" \in Announced <=> env.ip4
  /\ "ip6" \in Announced <=> env.ip6
BY DEF Announced

\* The steps before the handoff.
LEMMA ReadingKeeps ==
  ASSUME HelperInv, CheckReason \/ Build \/ helper_failed
  PROVE  HelperInv'
<1> USE DEF HelperInv, Control, HandoffFits, ServiceFits, NoHalfConfig, ConfigFits, Done,
            libnmVars
<1>1. CASE CheckReason
  BY <1>1, EnvKept DEF CheckReason
<1>2. CASE Build
  <2>1. ip4config' = Config4 /\ ip6config' = Config6
    BY <1>2 DEF Build, Config4, Config6
  <2> QED BY <1>2, <2>1, EnvKept DEF Build
<1>3. CASE helper_failed
  BY <1>3, EnvKept DEF helper_failed
<1> QED BY <1>1, <1>2, <1>3

\* The calls.
LEMMA HandoffKeeps ==
  ASSUME HelperInv, SetConfig \/ SetIp4Config \/ SetIp6Config
  PROVE  HelperInv'
<1> USE DEF HelperInv, Control, HandoffFits, ServiceFits, NoHalfConfig, ConfigFits, Done,
            libnmVars, call, receive
<1>1. CASE SetConfig
  BY <1>1, EnvKept, Families DEF SetConfig
<1>2. CASE SetIp4Config
  BY <1>2, EnvKept, Families DEF SetIp4Config
<1>3. CASE SetIp6Config
  BY <1>3, EnvKept, Families DEF SetIp6Config
<1> QED BY <1>1, <1>2, <1>3

\* What the service does meanwhile.
LEMMA ServiceKeeps ==
  ASSUME HelperInv, Disconnect \/ Exits
  PROVE  HelperInv'
<1> USE DEF HelperInv, Control, HandoffFits, ServiceFits, NoHalfConfig, ConfigFits, Done,
            helperVars
<1>1. CASE Disconnect
  BY <1>1, EnvKept DEF Disconnect
<1>2. CASE Exits
  BY <1>2, EnvKept DEF Exits
<1> QED BY <1>1, <1>2

\* The helper's and the service's steps keep the invariant.
LEMMA HelperStep == HelperInv /\ [Next]_vars => HelperInv'
<1> SUFFICES ASSUME HelperInv, [Next]_vars PROVE HelperInv'
  OBVIOUS
<1>1. CASE CheckReason \/ Build \/ helper_failed
  BY <1>1, ReadingKeeps
<1>2. CASE SetConfig \/ SetIp4Config \/ SetIp6Config
  BY <1>2, HandoffKeeps
<1>3. CASE Disconnect \/ Exits
  BY <1>3, ServiceKeeps
<1>4. CASE UNCHANGED vars
  BY <1>4, EnvKept DEF vars, HelperInv, Control, HandoffFits, ServiceFits, NoHalfConfig,
                       ConfigFits
<1> QED BY <1>1, <1>2, <1>3, <1>4 DEF Next

\* The invariant of the helper and the service it reports to.
LEMMA HelperInvHolds == AnySpec => []HelperInv
BY HelperInit, HelperStep, PTL DEF AnySpec

-----------------------------------------------------------------------------
(* What follows from it.  The theorems are about AnySpec, where routes and  *)
(* name servers are given together; by RunsAreCovered they are true of     *)
(* Spec, which the runs check.                                             *)

\* The configurations are those of the environment, or empty.
LEMMA ConfigsAre ==
  ASSUME HelperInv
  PROVE  /\ ip4config = NoConfig \/ ip4config = Config4
         /\ ip6config = NoConfig \/ ip6config = Config6
         /\ got # {} => ip4config = Config4 /\ ip6config = Config6
BY DEF HelperInv, ConfigFits

\* The control state, the routes and the name servers have their types.
THEOREM HelperTypeCorrect == AnySpec => []TypeOK
<1>1. HelperInv => TypeOK
  <2> SUFFICES ASSUME HelperInv PROVE TypeOK
    OBVIOUS
  <2>1. ConfigOK(ip4config) /\ ConfigOK(ip6config)
    BY ConfigsAre, ConfigTypes, NoConfigTypes DEF HelperInv
  <2> QED BY <2>1 DEF HelperInv, Control, TypeOK, ConfigOK
<1> QED BY <1>1, HelperInvHolds, PTL

\* The service is never STARTED with one address family still to come.
THEOREM NeverHalfConfigured == AnySpec => []NoHalfConfig
<1>1. HelperInv => NoHalfConfig
  BY DEF HelperInv, ServiceFits
<1> QED BY <1>1, HelperInvHolds, PTL

\* A helper that ends well leaves no service waiting for another part.
THEOREM CompletedIsStarted == AnySpec => []CompletedMeansStarted
<1>1. HelperInv => CompletedMeansStarted
  BY DEF HelperInv, ServiceFits, HandoffFits, CompletedMeansStarted
<1> QED BY <1>1, HelperInvHolds, PTL

\* The service has the routes of the tunnel, whatever stands between them, from
\* the loop of get_ip4_routes, which parses an address before its length, and
\* that of get_ip6_routes, which notes a default route before it does.
THEOREM RoutesAreFaithful == AnySpec => []RoutesFaithful
<1>1. HelperInv => RoutesFaithful
  <2> SUFFICES ASSUME HelperInv PROVE RoutesFaithful
    OBVIOUS
  <2>1. ASSUME "ip4" \in got PROVE Reference(ip4config, env.mask4, env.inc4, {"good"})
    <3>1. env.ip4 /\ ip4config = Config4
      BY <2>1, Families, ConfigsAre DEF HelperInv, HandoffFits
    <3> QED BY <3>1, ConfigTypes DEF HelperInv
  <2>2. ASSUME "ip6" \in got PROVE Reference(ip6config, env.mask6, env.inc6, {"good", "bad"})
    <3>1. env.ip6 /\ ip6config = Config6
      BY <2>2, Families, ConfigsAre DEF HelperInv, HandoffFits
    <3> QED BY <3>1, ConfigTypes DEF HelperInv
  <2> QED BY <2>1, <2>2 DEF RoutesFaithful
<1> QED BY <1>1, HelperInvHolds, PTL

\* A list that has no bad entry is made of the two families.
LEMMA CountsAdd ==
  ASSUME NEW list \in Servers, \A i \in 1 .. Len(list) : list[i] # Bad
  PROVE  /\ Count(list, 4) = Cardinality({i \in 1 .. Len(list) : list[i] \notin {6}})
         /\ Count(list, 6) = Cardinality({i \in 1 .. Len(list) : list[i] \notin {4}})
         /\ Count(list, 4) + Count(list, 6)
              = Cardinality({i \in 1 .. Len(list) : list[i] \notin {}})
<1> DEFINE E(e) == {i \in 1 .. Len(list) : list[i] = e}
           Others(S) == {i \in 1 .. Len(list) : list[i] \notin S}
<1>1. \A i \in 1 .. Len(list) : list[i] = 4 \/ list[i] = 6
  BY Lists
<1>2. /\ E(4) = Others({6})
      /\ E(6) = Others({4})
      /\ E(4) \cup E(6) = Others({})
  BY <1>1
<1>3. E(4) \cap E(6) = {}
  OBVIOUS
<1>4. IsFiniteSet(E(4)) /\ IsFiniteSet(E(6))
  BY CountTypes
<1>5. Count(list, 4) = Cardinality(E(4)) /\ Count(list, 6) = Cardinality(E(6))
  BY DEF Count
<1> HIDE DEF E
<1>6. Cardinality(E(4) \cup E(6)) = Cardinality(E(4)) + Cardinality(E(6)) - Cardinality(E(4) \cap E(6))
  BY <1>4, FS_Union
<1>7. Cardinality(E(4) \cap E(6)) = 0
  BY <1>3, FS_EmptySet
<1>8. Cardinality(E(4)) \in Nat /\ Cardinality(E(6)) \in Nat
  BY <1>4, FS_CardinalityType
<1>9. Cardinality(E(4) \cup E(6)) = Cardinality(E(4)) + Cardinality(E(6))
  BY <1>6, <1>7, <1>8
<1>10. /\ Count(list, 4) = Cardinality(Others({6}))
       /\ Count(list, 6) = Cardinality(Others({4}))
       /\ Count(list, 4) + Count(list, 6) = Cardinality(Others({}))
  <2> HIDE DEF Others
  <2> QED BY <1>2, <1>5, <1>9, Zenon
<1> QED BY <1>10

\* A VPN that is up has all usable name servers, or none.
THEOREM DnsIsWhole == AnySpec => []DnsWhole
<1>1. HelperInv => DnsWhole
  <2> SUFFICES ASSUME HelperInv, service = "started" PROVE DnsWhole
    BY DEF DnsWhole
  <2> DEFINE foreign == (IF env.ip4 THEN {} ELSE {4}) \cup (IF env.ip6 THEN {} ELSE {6})
             usable == {i \in 1 .. Len(env.dns) : env.dns[i] \notin foreign}
             n4 == addr46_list(env.dns, 4)
             n6 == addr46_list(env.dns, 6)
  <2>1. ip4config = Config4 /\ ip6config = Config6
    BY ConfigsAre DEF HelperInv, ServiceFits, NoHalfConfig
  <2>2. /\ ip4config.dns = IF env.ip4 THEN n4 ELSE 0
        /\ ip6config.dns = IF env.ip6 THEN n6 ELSE 0
    BY <2>1, ConfigTypes DEF HelperInv
  <2>3. env.dns \in Servers
    BY EnvTypes DEF HelperInv
  <2>4. /\ n4 = 0 \/ n4 = Count(env.dns, 4)
        /\ n6 = 0 \/ n6 = Count(env.dns, 6)
        /\ n4 \in Nat /\ n6 \in Nat
    BY <2>3, Addr46Types, ConstantsAssumption
  <2>5. CASE Count(env.dns, Bad) > 0
    <3>1. n4 = 0 /\ n6 = 0
      BY <2>5 DEF addr46_list
    <3> HIDE DEF n4, n6
    <3> QED BY <2>2, <3>1 DEF DnsWhole
  <2>6. CASE ~(Count(env.dns, Bad) > 0)
    <3>1. n4 = Count(env.dns, 4) /\ n6 = Count(env.dns, 6)
      BY <2>6 DEF addr46_list
    <3>2. \A i \in 1 .. Len(env.dns) : env.dns[i] # Bad
      BY <2>3, <2>6, NoneBad
    <3>3. /\ n4 = Cardinality({i \in 1 .. Len(env.dns) : env.dns[i] \notin {6}})
          /\ n6 = Cardinality({i \in 1 .. Len(env.dns) : env.dns[i] \notin {4}})
          /\ n4 + n6 = Cardinality({i \in 1 .. Len(env.dns) : env.dns[i] \notin {}})
      BY <2>3, <3>1, <3>2, CountsAdd
    <3> HIDE DEF n4, n6
    <3>4. CASE env.ip4 /\ env.ip6
      <4>1. foreign = {}
        BY <3>4
      <4>2. n4 + n6 = Cardinality(usable)
        BY <3>3, <4>1
      <4> HIDE DEF usable
      <4> QED BY <2>2, <2>4, <3>1, <3>4, <4>2 DEF DnsWhole, usable, foreign
    <3>5. CASE env.ip4 /\ ~env.ip6
      <4>1. foreign = {6}
        BY <3>5
      <4>2. n4 = Cardinality(usable)
        BY <3>3, <4>1
      <4> HIDE DEF usable
      <4> QED BY <2>2, <2>4, <3>1, <3>5, <4>2 DEF DnsWhole, usable, foreign
    <3>6. CASE ~env.ip4 /\ env.ip6
      <4>1. foreign = {4}
        BY <3>6
      <4>2. n6 = Cardinality(usable)
        BY <3>3, <4>1
      <4> HIDE DEF usable
      <4> QED BY <2>2, <2>4, <3>1, <3>6, <4>2 DEF DnsWhole, usable, foreign
    <3>7. CASE ~env.ip4 /\ ~env.ip6
      BY <2>2, <3>7 DEF DnsWhole
    <3> QED BY <3>4, <3>5, <3>6, <3>7
  <2> QED BY <2>5, <2>6
<1> QED BY <1>1, HelperInvHolds, PTL
==============================================================================
