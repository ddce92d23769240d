----------------------------- MODULE Activation -----------------------------
(***************************************************************************)
(* One VPN profile from the editor to the gpclient command line: the       *)
(* profile's data items and secret flags, the editor that writes them,     *)
(* NetworkManager's rounds of NeedSecrets, the authentication dialog that  *)
(* obtains the cookie, and Connect, which turns profile and secrets into   *)
(* gpclient's arguments.                                                   *)
(*                                                                         *)
(* Three programs read the same data items with code of their own: the     *)
(* editor, the dialog and the service.  The module is about whether they   *)
(* agree, and about which cookie a launch uses.  Data items that are only  *)
(* passed on (certificates, MTU, browser, client version...) are left out. *)
(* NetworkManager works on a copy of the profile while it activates it, so *)
(* edits happen between activations.                                       *)
(***************************************************************************)
EXTENDS Naturals

CONSTANTS
    Host,           \* server names
    FlagValues,     \* values of cookie-flags and gateway-flags, sets of flags
    MaxActivations, \* how often the profile is activated
    None, Empty     \* an item that is absent, or the empty string

ASSUME ConstantsAssumption ==
    /\ MaxActivations \in Nat
    /\ {None, Empty} \cap (Host \cup {"yes", "no", "bad"}) = {} /\ None # Empty
    /\ FlagValues \subseteq SUBSET {"agent_owned", "not_saved", "not_required"}
    /\ {"not_saved"} \in FlagValues

Item == Host \cup {None, Empty}
Switch == {None, "yes", "no", "bad"}    \* "bad" is neither yes nor no

\* vpn.data; as_gateway and auto_gateway matter only if they are "yes".
Profile ==
    [portal : Item, gateway : Item, as_gateway : BOOLEAN, auto_gateway : BOOLEAN,
     no_dtls : Switch, disable_udp : Switch,
     cookie_flags : FlagValues, gateway_flags : FlagValues]

\* A cookie is what gpauth returned: for which server, asked as a gateway or
\* as a portal, in which activation (0: before the time of the model).
Cookie == [server : Host, direct : BOOLEAN, epoch : 0 .. MaxActivations]
NoCookie == [server |-> None, direct |-> FALSE, epoch |-> 0]
Secrets == [cookie : Cookie \cup {NoCookie}, gateway : Host \cup {None}]
NoSecrets == [cookie |-> NoCookie, gateway |-> None]

\* The widgets of the editor.
Ui == [portal : Host \cup {Empty}, gateway : Host \cup {Empty},
       direct : BOOLEAN, no_dtls : BOOLEAN]
NoUi == [portal |-> None, gateway |-> None, direct |-> FALSE, no_dtls |-> FALSE]

\* gpclient's arguments: the server, --as-gateway, --auto-gateway, --gateway,
\* --no-dtls, and the cookie on its stdin.
Args == [server : Host, direct : BOOLEAN, auto : BOOLEAN,
         gateway : Host \cup {None}, no_dtls : BOOLEAN, cookie : Cookie]
NoArgs == [server |-> None, direct |-> FALSE, auto |-> FALSE,
           gateway |-> None, no_dtls |-> FALSE, cookie |-> NoCookie]

VARIABLES
    profile,
    shown,      \* history: what the editor showed when it saved, if it was last
    stored,     \* secrets kept between activations, with the profile or keyring
    leftover,   \* history: secrets of an earlier time have not been cleared
    phase,      \* idle, the round of NeedSecrets, the dialog, Connect or up
    epoch,      \* number of the activation
    secrets,    \* what NetworkManager has collected in this activation
    launched    \* gpclient's arguments while it is up

vars == <<profile, shown, stored, leftover, phase, epoch, secrets, launched>>

TypeOK ==
    /\ profile \in Profile
    /\ shown \in Ui \cup {NoUi}
    /\ stored \in Secrets
    /\ leftover \in BOOLEAN
    /\ phase \in {"idle", "system", "ask_existing", "existing", "ask_new",
                  "new", "connect", "up"}
    /\ epoch \in 0 .. MaxActivations
    /\ secrets \in Secrets
    /\ launched \in Args \cup {NoArgs}

\* A hand-made profile; an older version may have left secrets with it.
Init ==
    /\ \E h \in Host :
          profile = [portal |-> None, gateway |-> h, as_gateway |-> TRUE,
                     auto_gateway |-> FALSE, no_dtls |-> None,
                     disable_udp |-> None, cookie_flags |-> {"not_saved"},
                     gateway_flags |-> {"not_saved"}]
    /\ shown = NoUi
    /\ stored \in {NoSecrets} \cup
                  {[cookie |-> [server |-> h, direct |-> TRUE, epoch |-> 0],
                    gateway |-> h] : h \in Host}
    /\ leftover = (stored # NoSecrets)
    /\ phase = "idle" /\ epoch = 0
    /\ secrets = NoSecrets /\ launched = NoArgs

Present(v) == v \notin {None, Empty}
First(a, b) == IF Present(a) THEN a ELSE b

-----------------------------------------------------------------------------
(* The editor.                                                             *)

\* What the editor shows for a profile; without portal support (or without
\* an answer from gpclient --help) it is direct gateway mode.
gpclient_editor_new(p, supported) ==
    [portal |-> First(p.portal, Empty), gateway |-> First(p.gateway, Empty),
     direct |-> p.as_gateway \/ ~supported,
     no_dtls |-> (IF p.no_dtls # None THEN p.no_dtls ELSE p.disable_udp) # "no"]

\* The editor refuses to save without a server to talk to.
Savable(ui) ==
    IF ui.direct THEN Present(ui.gateway) \/ Present(ui.portal)
                 ELSE Present(ui.portal)

\* Faulty variant: the opt-out from HTTPS-only is not written.
editor_update_connection_optout(ui) ==
    [portal |-> First(ui.portal, None),
     gateway |-> IF ui.direct THEN First(ui.gateway, ui.portal)
                              ELSE First(ui.gateway, None),
     as_gateway |-> ui.direct,
     auto_gateway |-> ~ui.direct /\ ~Present(ui.gateway),
     no_dtls |-> IF ui.no_dtls THEN "yes" ELSE None, disable_udp |-> None,
     cookie_flags |-> {"not_saved"}, gateway_flags |-> {"not_saved"}]

\* The profile the editor writes: a new VPN setting, nothing of the old one.
editor_update_connection(ui) ==
    [portal |-> First(ui.portal, None),
     gateway |-> IF ui.direct THEN First(ui.gateway, ui.portal)
                              ELSE First(ui.gateway, None),
     as_gateway |-> ui.direct,
     auto_gateway |-> ~ui.direct /\ ~Present(ui.gateway),
     no_dtls |-> IF ui.no_dtls THEN "yes" ELSE "no", disable_udp |-> None,
     cookie_flags |-> {"not_saved"}, gateway_flags |-> {"not_saved"}]

\* The user opens the editor, changes what can be changed, and saves.
EditorSave(ui, supported) ==
    /\ phase = "idle"
    /\ supported \/ (ui.direct /\ ui.portal = gpclient_editor_new(profile, FALSE).portal)
    /\ Savable(ui)
    /\ profile' = editor_update_connection(ui)
    /\ shown' = ui
    /\ UNCHANGED <<stored, leftover, phase, epoch, secrets, launched>>

\* nmcli connection modify: one item at a time, any value.
HandEdit ==
    /\ phase = "idle"
    /\ \/ \E v \in Item : profile' \in {[profile EXCEPT !.portal = v],
                                        [profile EXCEPT !.gateway = v]}
       \/ \E v \in BOOLEAN : profile' \in {[profile EXCEPT !.as_gateway = v],
                                           [profile EXCEPT !.auto_gateway = v]}
       \/ \E v \in Switch : profile' \in {[profile EXCEPT !.no_dtls = v],
                                          [profile EXCEPT !.disable_udp = v]}
       \/ \E v \in FlagValues : profile' \in {[profile EXCEPT !.cookie_flags = v],
                                              [profile EXCEPT !.gateway_flags = v]}
    /\ shown' = NoUi
    /\ UNCHANGED <<stored, leftover, phase, epoch, secrets, launched>>

\* The repair of README.md: stored secrets are removed.
ClearSecrets ==
    /\ phase = "idle"
    /\ stored' = NoSecrets
    /\ leftover' = FALSE
    /\ UNCHANGED <<profile, shown, phase, epoch, secrets, launched>>

-----------------------------------------------------------------------------
(* NetworkManager's activation up to Connect.                              *)

kept == UNCHANGED <<profile, shown, leftover, epoch>>

\* The activation fails; NetworkManager forgets its secrets.
Fail ==
    /\ phase' = "idle"
    /\ secrets' = NoSecrets
    /\ UNCHANGED <<stored, launched>>
    /\ kept

\* Whether stored secrets are with the agent or with NetworkManager.
AgentOwned == "agent_owned" \in profile.cookie_flags

Activate ==
    /\ phase = "idle" /\ epoch < MaxActivations
    /\ phase' = "system"
    /\ epoch' = epoch + 1
    /\ secrets' = IF AgentOwned THEN NoSecrets ELSE stored
    /\ UNCHANGED <<profile, shown, stored, leftover, launched>>

\* Faulty variant: every flag is accepted.
validate_auth_secret_flags_any == TRUE

\* Only NOT_SAVED, alone or with AGENT_OWNED, for both secrets.
validate_auth_secret_flags ==
    \A f \in {profile.cookie_flags, profile.gateway_flags} :
        f \in {{"not_saved"}, {"not_saved", "agent_owned"}}

\* Faulty variant: a portal alone does not count as a server.
SecretsNeeded_portal ==
    \/ profile.gateway = None
    \/ secrets.cookie = NoCookie

\* What real_need_secrets answers for a profile whose flags are safe.
SecretsNeeded ==
    \/ secrets.gateway = None /\ profile.gateway = None /\ profile.portal = None
    \/ secrets.cookie = NoCookie

\* A call of NeedSecrets; if secrets are needed NetworkManager asks the agent
\* for the ones it has, then for new ones, then gives up.
NeedSecrets ==
    /\ phase \in {"system", "existing", "new"}
    /\ LET refused == ~validate_auth_secret_flags \/ (SecretsNeeded /\ phase = "new")
       IN
       \/ refused /\ Fail
       \/ /\ ~refused
          /\ phase' = IF ~SecretsNeeded THEN "connect"
                      ELSE IF phase = "system" THEN "ask_existing" ELSE "ask_new"
          /\ UNCHANGED <<stored, secrets, launched>> /\ kept

\* The secrets the agent gives to the dialog.
Offered == IF AgentOwned THEN stored ELSE secrets

\* The dialog's reading of the profile: data item first, then secret.
DialogGateway == First(profile.gateway, First(Offered.gateway, None))
DialogDirect == profile.as_gateway \/ ~Present(profile.portal)

\* Faulty variant: the dialog signs on to the portal whenever there is one.
DialogServer_portal == First(profile.portal, DialogGateway)

\* The server gpauth signs on to.
DialogServer == IF DialogDirect THEN DialogGateway ELSE profile.portal

\* The gateway secret the dialog prints.
DialogGatewaySecret == First(DialogGateway, First(profile.portal, None))

\* The agent is asked for what it has and runs the dialog without interaction:
\* a cookie it was given is printed as it is.
DialogExisting ==
    /\ phase = "ask_existing"
    /\ \/ /\ Present(DialogServer) /\ Offered.cookie # NoCookie
          /\ phase' = "existing"
          /\ secrets' = [cookie |-> Offered.cookie, gateway |-> DialogGatewaySecret]
       \/ /\ ~(Present(DialogServer) /\ Offered.cookie # NoCookie)
          /\ phase' = "ask_new"
          /\ UNCHANGED secrets
    /\ UNCHANGED <<stored, launched>> /\ kept

\* What NetworkManager and the agent keep of new secrets: those whose flags
\* do not say NOT_SAVED.
Keep(s) ==
    [cookie |-> IF "not_saved" \in profile.cookie_flags THEN stored.cookie ELSE s.cookie,
     gateway |-> IF "not_saved" \in profile.gateway_flags THEN stored.gateway
                 ELSE s.gateway]

\* The dialog with interaction: gpauth signs on, or the dialog gives up.
DialogNew ==
    /\ phase = "ask_new"
    /\ \/ Fail
       \/ /\ Present(DialogServer)
          /\ phase' = "new"
          /\ secrets' = [cookie |-> [server |-> DialogServer, direct |-> DialogDirect,
                                     epoch |-> epoch],
                         gateway |-> DialogGatewaySecret]
          /\ stored' = Keep(secrets')
          /\ UNCHANGED launched /\ kept

-----------------------------------------------------------------------------
(* Connect.                                                                *)

nm_openconnect_properties_validate ==
    profile.no_dtls # "bad" /\ profile.disable_udp # "bad"

\* The service's reading: secret first, then data item.
ServiceGateway == First(secrets.gateway, First(profile.gateway, None))

\* Faulty variant: a profile without a portal is not direct by itself.
ServiceDirect_flag == profile.as_gateway

ServiceDirect == profile.as_gateway \/ ~Present(profile.portal)
ServiceServer ==
    IF ServiceDirect THEN First(ServiceGateway, profile.portal) ELSE profile.portal

\* Faulty variant: the legacy switch comes first.
NoDtls_legacy ==
    (IF profile.disable_udp # None THEN profile.disable_udp ELSE profile.no_dtls) # "no"

\* HTTPS-only unless UDP was asked for; disable_udp counts only if no_dtls is
\* absent.
NoDtls ==
    (IF profile.no_dtls # None THEN profile.no_dtls ELSE profile.disable_udp) # "no"

\* The mode and server arguments.
start_openconnect_args ==
    [server |-> ServiceServer,
     direct |-> ServiceDirect,
     auto |-> ~ServiceDirect /\ profile.auto_gateway,
     gateway |-> IF ServiceDirect \/ profile.auto_gateway THEN None ELSE ServiceGateway,
     no_dtls |-> NoDtls,
     cookie |-> secrets.cookie]

\* What Connect tests before it launches anything.
Acceptable ==
    /\ validate_auth_secret_flags
    /\ nm_openconnect_properties_validate
    /\ Present(ServiceGateway) \/ Present(profile.portal)
    /\ secrets.cookie # NoCookie

\* gpclient is of the wrong version, has no device, is kept out by the lock
\* file, cannot be started or does not read its cookie: whatever the profile
\* and the secrets are, Connect fails.
LaunchFails == Fail

real_connect ==
    /\ phase = "connect"
    /\ \/ ~Acceptable /\ Fail
       \/ Acceptable /\ LaunchFails
       \/ /\ Acceptable
          /\ phase' = "up"
          /\ launched' = start_openconnect_args
          /\ UNCHANGED <<stored, secrets>> /\ kept

\* The connection ends: NetworkManager clears the activation's secrets.
Down ==
    /\ phase = "up"
    /\ phase' = "idle"
    /\ secrets' = NoSecrets
    /\ launched' = NoArgs
    /\ UNCHANGED stored /\ kept

Next ==
    \/ \E ui \in Ui, supported \in BOOLEAN : EditorSave(ui, supported)
    \/ HandEdit \/ ClearSecrets \/ Activate \/ NeedSecrets \/ DialogExisting
    \/ DialogNew \/ real_connect \/ Down

Spec == Init /\ [][Next]_vars

-----------------------------------------------------------------------------
(* Properties.                                                             *)

Fresh == launched.cookie.epoch = epoch

\* gpclient is given a cookie of this activation; an old one only as long as
\* secrets of an earlier time lie around.  No sequence of flag changes makes
\* the service reuse a cookie it obtained itself.
CookieFresh == phase = "up" => Fresh \/ (leftover /\ launched.cookie.epoch = 0)

\* The server and mode that gpclient connects to are the ones the cookie was
\* obtained for, although dialog and service read gateway in opposite orders.
CookieFits ==
    phase = "up" /\ Fresh => /\ launched.cookie.server = launched.server
                             /\ launched.cookie.direct = launched.direct

\* The modes of README.md, "Gateway Selection", for what the editor shows.
Promised(ui) ==
    [server |-> IF ui.direct THEN First(ui.gateway, ui.portal) ELSE ui.portal,
     direct |-> ui.direct,
     auto |-> ~ui.direct /\ ~Present(ui.gateway),
     gateway |-> IF ui.direct THEN None ELSE First(ui.gateway, None),
     no_dtls |-> ui.no_dtls]

\* gpclient is launched the way the editor showed when it saved the profile,
\* whatever the dialog put into the gateway secret.
LaunchFollowsEditor ==
    phase = "up" /\ shown # NoUi /\ Fresh =>
        \A f \in {"server", "direct", "auto", "gateway", "no_dtls"} :
            launched[f] = Promised(shown)[f]

\* The transport switch shown by an editor opened on the running profile,
\* hand-edited or not, is the transport in use.
EditorShowsTransport ==
    phase = "up" => gpclient_editor_new(profile, TRUE).no_dtls = launched.no_dtls

\* After a sign-on nothing that the profile or the secrets must provide is
\* missing: an activation in which gpauth has returned a cookie fails for a
\* switch that is neither yes nor no, or else in Connect, with a server, a
\* cookie and safe flags at hand, because gpclient cannot be launched.
SignOnSuffices ==
    [][phase \notin {"idle", "up"} /\ phase' = "idle" /\ secrets.cookie.epoch = epoch
         => \/ ~nm_openconnect_properties_validate
            \/ phase = "connect" /\ Acceptable]_vars

\* The portal's name in the gateway secret is "a harmless placeholder"
\* (comment in the dialog): a profile without a gateway gets no --gateway.
PlaceholderHarmless ==
    phase = "up" /\ ~leftover /\ ~Present(profile.gateway) => launched.gateway = None
=============================================================================
