---------------------------- MODULE ServiceHelper ----------------------------
(***************************************************************************)
(* The vpnc-script nm-gpclient-service-helper, which gpclient runs when    *)
(* its tunnel is up: it reads the tunnel's parameters from its environment *)
(* and hands them to the service over D-Bus, in up to three calls.         *)
(*                                                                         *)
(* The service may be told to disconnect, or end, between any two calls;   *)
(* a call may fail before or after the service has seen it.  The service   *)
(* side (libnm) is modelled as far as these calls reach it.  Addresses are *)
(* abstract: an entry of an include list is whether its address is set and *)
(* can be parsed, and the length of its prefix; one of the list of name    *)
(* servers is its family, and Bad if it cannot be parsed.                  *)
(***************************************************************************)
EXTENDS Naturals, Sequences, FiniteSets

CONSTANTS
    MaxRoutes,  \* longest include list, and list of name servers, of the model
    PrefixLengths, \* lengths of prefixes that occur, other than 0
    Faults      \* a subset of {"dbus"}: a D-Bus call may fail

ASSUME ConstantsAssumption ==
    /\ MaxRoutes \in Nat
    /\ PrefixLengths \subseteq 1 .. 128
    /\ Faults \subseteq {"dbus"}

NotNumber == 998    \* a MASKLEN that does not start with a number
Bad == 999          \* a prefix out of range or missing; what is not an address
Absent == 1000      \* an environment variable that is not set, or malformed

\* The variables of an entry, of the form CISCO_SPLIT_INC_0_ADDR.  A MASK, which
\* IPv4 reads where there is no MASKLEN, is given by the length it stands for.
Entries == [addr : {"good", "bad", "unset"}, len : PrefixLengths \cup {0, NotNumber, Bad}]
Includes == UNION {[1 .. n -> Entries] : n \in 0 .. MaxRoutes}
Servers == UNION {[1 .. n -> {4, 6, Bad}] : n \in 0 .. MaxRoutes}

\* What the helper finds in its environment.  valid: VPNGATEWAY, TUNDEV and
\* the internal addresses that are set are well formed; connect: reason is
\* unset or "connect"; ip4, ip6: the internal addresses that are set; mask4,
\* mask6: the prefix of INTERNAL_IP4_NETMASK and INTERNAL_IP6_NETMASK (0 also
\* for an IPv6 prefix that is no number); the domains, set or not; dns: the
\* list INTERNAL_IP4_DNS, of both families.
Env(includes4, includes6, servers) ==
       [valid : BOOLEAN, connect : BOOLEAN, ip4 : BOOLEAN, ip6 : BOOLEAN,
        mask4 : PrefixLengths \cup {0, Absent}, mask6 : PrefixLengths \cup {0, Absent},
        inc4 : includes4, inc6 : includes6, dns : servers,
        split_dns : BOOLEAN, def_domain : BOOLEAN]

\* An address family's configuration as far as the model goes.
NoConfig == [routes |-> <<>>, never_default |-> FALSE, domains |-> "none", dns |-> 0]

VARIABLES
    env, pc,
    ip4config, ip6config,   \* what Build made
    service,                \* state of the plugin object at the other end
    has, got,               \* libnm: parts announced by SetConfig, received
    disconnected            \* history: NetworkManager disconnected

helperVars == <<env, pc, ip4config, ip6config>>
libnmVars == <<service, has, got>>
vars == <<env, pc, ip4config, ip6config, service, has, got, disconnected>>

Done == {"ignored", "failed", "completed"}  \* exit (0), exit (1), exit (0)

TypeOK ==
    /\ pc \in {"start", "build", "config", "ip4", "ip6"} \cup Done
    /\ \A c \in {ip4config, ip6config} :
          /\ \A i \in 1 .. Len(c.routes) : c.routes[i] \in PrefixLengths
          /\ c.never_default \in BOOLEAN
          /\ c.domains \in {"none", "split", "default"}
          /\ c.dns \in 0 .. MaxRoutes
    /\ service \in {"starting", "started", "stopped", "exited"}
    /\ has \subseteq {"ip4", "ip6"}
    /\ got \subseteq {"config", "ip4", "ip6"}
    /\ disconnected \in BOOLEAN

\* The helper is started by gpclient, with an environment out of envs.
Start(envs) ==
    /\ env \in envs
    \* without a valid environment the rest is not read
    /\ env.valid \/ (env.inc4 = <<>> /\ env.inc6 = <<>> /\ env.dns = <<>>)
    /\ env.connect \/ ~env.valid
    /\ pc = "start"
    /\ ip4config = NoConfig /\ ip6config = NoConfig
    /\ service = "starting" /\ has = {} /\ got = {}
    /\ disconnected = FALSE

\* The routes of the two families and the name servers are read independently of
\* each other, so a run varies one of them at a time; AnyInit has them together.
Init == Start(Env(Includes, {<<>>}, {<<>>}) \cup Env({<<>>}, Includes, {<<>>})
              \cup Env({<<>>}, {<<>>}, Servers))
AnyInit == Start(Env(Includes, Includes, Servers))

-----------------------------------------------------------------------------
(* Reading the environment.                                                *)

\* strtol, without a look at where the number ends: 0 if there is none.
strtol(len) == IF len = NotNumber THEN 0 ELSE len

\* What a pass of the loop of get_ip4_routes makes of an entry, the length of a
\* prefix or Bad: the address is parsed first.
ip4_entry(entry) == IF entry.addr = "good" THEN strtol(entry.len) ELSE Bad

\* The same for get_ip6_routes: the address need only be set for a prefix of 0,
\* and is parsed after that, by nm_ip_route_new.
ip6_entry(entry) ==
    IF entry.addr = "unset" \/ (entry.addr = "bad" /\ strtol(entry.len) # 0)
    THEN Bad ELSE strtol(entry.len)

\* Faulty variants of take_route: a default route ends the loop; a bad entry
\* is not skipped.
take_route_break(acc, prefix) ==
    IF acc.default THEN acc
    ELSE IF prefix = Bad THEN acc
    ELSE IF prefix = 0 THEN [acc EXCEPT !.default = TRUE]
    ELSE [acc EXCEPT !.routes = Append(@, prefix)]
take_route_unchecked(acc, prefix) ==
    IF prefix = 0 THEN [acc EXCEPT !.default = TRUE]
    ELSE [acc EXCEPT !.routes = Append(@, prefix)]

\* The rest of a pass, alike in both loops: a bad entry is skipped, a default
\* route noted, any other becomes a route.
take_route(acc, prefix) ==
    IF prefix = Bad THEN acc
    ELSE IF prefix = 0 THEN [acc EXCEPT !.default = TRUE]
    ELSE [acc EXCEPT !.routes = Append(@, prefix)]

\* The loop, over what the passes make of the entries.
get_routes(prefixes, d) ==
    LET pass[n \in 0 .. Len(prefixes)] ==
            IF n = 0 THEN [routes |-> <<>>, default |-> d]
                     ELSE take_route(pass[n - 1], prefixes[n])
    IN  pass[Len(prefixes)]

\* get_ip4_routes (&d) and get_ip6_routes (&d)
get_ip4_routes(inc, d) == get_routes([i \in 1 .. Len(inc) |-> ip4_entry(inc[i])], d)
get_ip6_routes(inc, d) == get_routes([i \in 1 .. Len(inc) |-> ip6_entry(inc[i])], d)

\* How many entries of a list are e.
Count(list, e) == Cardinality({i \in 1 .. Len(list) : list[i] = e})

\* Faulty variant: an entry that cannot be parsed is skipped, as for routes.
addr46_list_lenient(list, f) == Count(list, f)

\* addr46_list_to_gvariant: the name servers of one family, as their number;
\* one entry that cannot be parsed discards the list, for both families.
addr46_list(list, f) == IF Count(list, Bad) > 0 THEN 0 ELSE Count(list, f)

\* The routes r that were read; NEVER_DEFAULT; the name servers of the family.
family(r, domains, dns) ==
    [routes |-> r.routes,
     never_default |-> r.routes # <<>> /\ ~r.default,
     domains |-> domains,
     dns |-> dns]

\* CISCO_SPLIT_DNS, or else CISCO_DEF_DOMAIN, goes with IPv4, and only
\* CISCO_DEF_DOMAIN with IPv6.
domains4 == IF env.split_dns THEN "split" ELSE IF env.def_domain THEN "default" ELSE "none"
domains6 == IF env.def_domain THEN "default" ELSE "none"

\* main() up to the D-Bus proxy.
CheckReason ==
    /\ pc = "start"
    /\ \/ ~env.connect /\ pc' = "ignored"
       \/ env.connect /\ pc' = "build"
       \/ env.connect /\ "dbus" \in Faults /\ pc' = "failed"
    /\ UNCHANGED <<env, ip4config, ip6config, libnmVars, disconnected>>

\* Everything between the proxy and send_config.  A netmask of 0 means a
\* default route.
Build ==
    /\ pc = "build" /\ env.valid
    /\ ip4config' = IF env.ip4 THEN family(get_ip4_routes(env.inc4, env.mask4 = 0), domains4,
                                         addr46_list(env.dns, 4))
                  ELSE NoConfig
    /\ ip6config' = IF env.ip6 THEN family(get_ip6_routes(env.inc6, env.mask6 = 0), domains6,
                                         addr46_list(env.dns, 6))
                  ELSE NoConfig
    /\ pc' = "config"
    /\ UNCHANGED <<env, libnmVars, disconnected>>

\* helper_failed: SetFailure, after which libnm disconnects; or it is lost.
helper_failed ==
    /\ pc = "build" /\ ~env.valid
    /\ pc' = "failed"
    /\ \/ service' = IF service = "exited" THEN service ELSE "stopped"
       \/ "dbus" \in Faults /\ UNCHANGED service
    /\ UNCHANGED <<env, ip4config, ip6config, has, got, disconnected>>

-----------------------------------------------------------------------------
(* The handoff.                                                            *)

\* The families the helper announces in SetConfig.
Announced == (IF env.ip4 THEN {"ip4"} ELSE {}) \cup (IF env.ip6 THEN {"ip6"} ELSE {})

\* libnm: STARTED once every announced part has arrived, whatever the state.
receive(part, announced) ==
    /\ service # "exited"
    /\ got' = got \cup {part}
    /\ has' = announced
    /\ service' = IF announced \cup {"config"} = got' THEN "started" ELSE service

\* One synchronous call: delivered and answered, delivered but not answered
\* in time, or not delivered.
call(part, announced, next) ==
    /\ \/ receive(part, announced) /\ pc' = next
       \/ "dbus" \in Faults /\ receive(part, announced) /\ pc' = "failed"
       \/ /\ service = "exited" \/ "dbus" \in Faults
          /\ pc' = "failed"
          /\ UNCHANGED libnmVars
    /\ UNCHANGED <<env, ip4config, ip6config, disconnected>>

\* Faulty variant: both families are announced although one is not sent.
SetConfig_both == pc = "config" /\ call("config", {"ip4", "ip6"}, "ip4")

\* Faulty variant: a family is sent but not announced.
SetConfig_silent == pc = "config" /\ call("config", Announced \ {"ip6"}, "ip4")

SetConfig == pc = "config" /\ call("config", Announced, "ip4")

SetIp4Config ==
    /\ pc = "ip4"
    /\ \/ env.ip4 /\ call("ip4", has, "ip6")
       \/ ~env.ip4 /\ pc' = "ip6" /\ UNCHANGED <<env, ip4config, ip6config,
                                        libnmVars, disconnected>>

SetIp6Config ==
    /\ pc = "ip6"
    /\ \/ env.ip6 /\ call("ip6", has, "completed")
       \/ ~env.ip6 /\ pc' = "completed" /\ UNCHANGED <<env, ip4config, ip6config,
                                              libnmVars, disconnected>>

-----------------------------------------------------------------------------
(* The service meanwhile.                                                  *)

\* NetworkManager disconnects, or the 60 s for the configuration are over.
Disconnect ==
    /\ service \in {"starting", "started"}
    /\ service' = "stopped"
    /\ disconnected' = TRUE
    /\ UNCHANGED <<helperVars, has, got>>

Exits ==
    /\ service = "stopped"
    /\ service' = "exited"
    /\ UNCHANGED <<helperVars, has, got, disconnected>>

Next == \/ CheckReason \/ Build \/ helper_failed
        \/ SetConfig \/ SetIp4Config \/ SetIp6Config
        \/ Disconnect \/ Exits

Spec == Init /\ [][Next]_vars
AnySpec == AnyInit /\ [][Next]_vars

-----------------------------------------------------------------------------
(* Properties.                                                             *)

\* The service is STARTED, and the VPN active for NetworkManager, only with
\* every part of the configuration the tunnel has: never with IPv4 only
\* because the call with the IPv6 part failed or is still to come.
NoHalfConfig == service = "started" => Announced \cup {"config"} \subseteq got

\* A helper that ends well leaves the service STARTED, unless NetworkManager
\* disconnected meanwhile: it never waits for a part that does not come.
CompletedMeansStarted == pc = "completed" /\ ~disconnected => service = "started"

\* The routes of a family, by sets: the prefix of each entry that has an address
\* and a length; and the VPN is kept from being the default route exactly if
\* there is such an entry and no default route was given, by mask or by entry.
\* addresses: what the address of an entry may be that is a default route.
RouteSet(inc) == {inc[i].len : i \in {j \in 1 .. Len(inc) : inc[j].addr = "good"}}
                   \cap PrefixLengths
GivesDefault(inc, addresses) ==
    \E i \in 1 .. Len(inc) : inc[i].addr \in addresses /\ inc[i].len \in {0, NotNumber}
Reference(c, mask, inc, addresses) ==
    /\ {c.routes[i] : i \in 1 .. Len(c.routes)} = RouteSet(inc)
    /\ c.never_default <=> RouteSet(inc) # {} /\ mask # 0 /\ ~GivesDefault(inc, addresses)

\* What arrives at the service has the routes of the tunnel, whatever bad
\* entries and default routes stand between them, and in whatever order.  A
\* length that is no number makes an entry a default route; for IPv6 one whose
\* address cannot be parsed is a default route too, but never a route.
RoutesFaithful ==
    /\ "ip4" \in got => Reference(ip4config, env.mask4, env.inc4, {"good"})
    /\ "ip6" \in got => Reference(ip6config, env.mask6, env.inc6, {"good", "bad"})

\* A VPN that is up resolves names with all the name servers of its address
\* families or with none of them, each in the configuration of its own family:
\* a list that cannot be read to its end is never used in part.
DnsWhole ==
    service = "started" =>
        LET foreign == (IF env.ip4 THEN {} ELSE {4}) \cup (IF env.ip6 THEN {} ELSE {6})
            usable == {i \in 1 .. Len(env.dns) : env.dns[i] \notin foreign}
        IN  /\ ip4config.dns + ip6config.dns \in {0, Cardinality(usable)}
            /\ ip4config.dns \in {0, Count(env.dns, 4)}

\* "If routes-to-include were provided, that means no default route, unless it
\* was set as netmask" (comment in main) or is itself among the routes.
IncludesMeanSplit ==
    "ip4" \in got /\ env.inc4 # <<>> /\ env.mask4 # 0
        => \/ ip4config.never_default
           \/ \E i \in 1 .. Len(env.inc4) : env.inc4[i].len \in {0, NotNumber}
==============================================================================
