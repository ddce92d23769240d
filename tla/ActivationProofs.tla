---------------------------- MODULE ActivationProofs ----------------------------
(***************************************************************************)
(* Proofs about Activation, for every set of servers and of flag values    *)
(* and any number of activations.                                          *)
(***************************************************************************)
EXTENDS Activation, TLAPS

\* Nothing the model's service obtains is ever stored: what is stored is old.
StoredOld ==
    /\ stored.cookie.epoch = 0
    /\ stored.cookie # NoCookie => leftover

\* After the first round of NeedSecrets the flags are known to be safe.
RoundFits ==
    /\ phase # "idle" => epoch # 0
    /\ phase \notin {"idle", "system"} => validate_auth_secret_flags

\* The secrets collected so far: none, old ones, or, after the dialog with
\* interaction, those of this activation.
SecretsFit ==
    /\ phase = "idle" => secrets = NoSecrets
    /\ phase \in {"system", "ask_existing", "existing", "ask_new"} =>
          secrets.cookie.epoch = 0
    /\ secrets.cookie # NoCookie =>
          secrets.cookie.epoch = epoch \/ (leftover /\ secrets.cookie.epoch = 0)

\* A cookie of this activation is for the server and the mode the service will
\* read from the same profile and secrets, and goes with a gateway secret.
FreshFits ==
    phase # "idle" /\ secrets.cookie.epoch = epoch =>
        /\ secrets.cookie.server = ServiceServer
        /\ secrets.cookie.direct = ServiceDirect
        /\ Present(secrets.gateway)
        /\ Present(profile.gateway) => secrets.gateway = profile.gateway

\* A profile nobody has edited by hand is as the editor wrote it.
ShownFits ==
    shown # NoUi => Savable(shown) /\ profile = editor_update_connection(shown)

\* gpclient runs with the arguments for the profile and the secrets.
ArgsFit == phase = "up" => launched = start_openconnect_args /\ secrets.cookie # NoCookie

ActInv ==
    TypeOK /\ StoredOld /\ RoundFits /\ SecretsFit /\ FreshFits /\ ShownFits /\ ArgsFit

-----------------------------------------------------------------------------
(* Names, cookies and what the programs read.                              *)

\* An item that is present is the name of a server.
LEMMA PresentIsHost == \A v \in Item : Present(v) <=> v \in Host
<1>1. None \notin Host /\ Empty \notin Host
  BY ConstantsAssumption
<1> QED BY <1>1 DEF Item, Present

LEMMA PlaceholdersApart == NoCookie \notin Cookie /\ NoUi \notin Ui
<1>1. None \notin Host /\ None # Empty
  BY ConstantsAssumption
<1>2. ASSUME NoCookie \in Cookie PROVE FALSE
  BY <1>1, <1>2 DEF NoCookie, Cookie
<1>3. ASSUME NoUi \in Ui PROVE FALSE
  BY <1>1, <1>3 DEF NoUi, Ui
<1> QED BY <1>2, <1>3

\* The first of an item and a second choice is never an empty string.
LEMMA FirstIsItem ==
  ASSUME NEW a \in Item, NEW b \in Item
  PROVE  /\ First(a, b) \in Item
         /\ b # Empty => First(a, b) \in Host \cup {None}
         /\ First(a, b) \in Host <=> a \in Host \/ b \in Host
         /\ a \in Host => First(a, b) = a
         /\ a \notin Host => First(a, b) = b
<1>1. Present(a) <=> a \in Host
  BY PresentIsHost
<1> QED BY <1>1 DEF First, Item

\* The fields of a profile that is of its type, one by one.
LEMMA ProfileFields ==
  ASSUME NEW p \in Profile
  PROVE  /\ p.portal \in Item /\ p.gateway \in Item
         /\ p.as_gateway \in BOOLEAN /\ p.auto_gateway \in BOOLEAN
         /\ p.no_dtls \in Switch /\ p.disable_udp \in Switch
         /\ p.cookie_flags \in FlagValues /\ p.gateway_flags \in FlagValues
  BY DEF Profile

LEMMA SecretsFields ==
  ASSUME NEW s \in Secrets
  PROVE  /\ s.cookie \in Cookie \cup {NoCookie} /\ s.gateway \in Host \cup {None}
         /\ s.cookie # NoCookie => s.cookie \in Cookie
         /\ s.gateway \in Item
         /\ s.cookie.epoch \in 0 .. MaxActivations
  BY ConstantsAssumption DEF Secrets, Item, Cookie, NoCookie

LEMMA NoSecretsType == NoSecrets \in Secrets
  BY DEF NoSecrets, Secrets

\* The dialog's reading: where it signs on, and the secret it prints.
LEMMA DialogReads ==
  ASSUME TypeOK
  PROVE  /\ Offered \in Secrets
         /\ DialogGateway \in Host \cup {None}
         /\ DialogDirect \in BOOLEAN
         /\ DialogServer \in Item
         /\ Present(DialogServer) <=> DialogServer \in Host
         /\ DialogGatewaySecret \in Host \cup {None}
<1>1. Offered \in Secrets
  BY DEF TypeOK, Offered
<1>2. profile.portal \in Item /\ profile.gateway \in Item /\ profile.as_gateway \in BOOLEAN
  BY ProfileFields DEF TypeOK
<1>3. None \in Item /\ None # Empty /\ Offered.gateway \in Item
  BY <1>1, SecretsFields, ConstantsAssumption DEF Item
<1>4. First(Offered.gateway, None) \in Host \cup {None}
  BY <1>3, FirstIsItem
<1>5. DialogGateway \in Host \cup {None}
  <2>1. First(Offered.gateway, None) \in Item /\ First(Offered.gateway, None) # Empty
    BY <1>3, <1>4, ConstantsAssumption DEF Item
  <2> QED BY <1>2, <2>1, FirstIsItem DEF DialogGateway
<1>6. DialogDirect \in BOOLEAN
  BY <1>2 DEF DialogDirect, Present
<1>7. DialogServer \in Item
  BY <1>2, <1>5 DEF DialogServer, Item
<1>8. DialogGatewaySecret \in Host \cup {None}
  <2>1. First(profile.portal, None) \in Host \cup {None}
    BY <1>2, <1>3, FirstIsItem
  <2>2. DialogGateway \in Item /\ First(profile.portal, None) \in Item
        /\ First(profile.portal, None) # Empty
    BY <1>5, <2>1, ConstantsAssumption DEF Item
  <2> QED BY <2>2, FirstIsItem DEF DialogGatewaySecret
<1> QED BY <1>1, <1>5, <1>6, <1>7, <1>8, PresentIsHost

\* The service's reading of the same profile and the collected secrets.
LEMMA ServiceReads ==
  ASSUME TypeOK
  PROVE  /\ ServiceGateway \in Host \cup {None}
         /\ ServiceDirect \in BOOLEAN
         /\ Present(ServiceGateway) \/ Present(profile.portal) => ServiceServer \in Host
<1>1. profile.portal \in Item /\ profile.gateway \in Item /\ profile.as_gateway \in BOOLEAN
  BY ProfileFields DEF TypeOK
<1>2. None \in Item /\ None # Empty /\ secrets.gateway \in Item
  BY SecretsFields, ConstantsAssumption DEF Item, TypeOK
<1>3. First(profile.gateway, None) \in Host \cup {None}
  BY <1>1, <1>2, FirstIsItem
<1>4. ServiceGateway \in Host \cup {None}
  <2>1. First(profile.gateway, None) \in Item /\ First(profile.gateway, None) # Empty
    BY <1>2, <1>3, ConstantsAssumption DEF Item
  <2> QED BY <1>2, <2>1, FirstIsItem DEF ServiceGateway
<1>5. ServiceGateway \in Item
  BY <1>4 DEF Item
<1>6. ServiceDirect \in BOOLEAN
  BY <1>1 DEF ServiceDirect, Present
<1>7. ASSUME Present(ServiceGateway) \/ Present(profile.portal)
      PROVE  ServiceServer \in Host
  <2>1. ServiceGateway \in Host \/ profile.portal \in Host
    BY <1>1, <1>5, <1>7, PresentIsHost
  <2>2. CASE ServiceDirect
    <3>1. First(ServiceGateway, profile.portal) \in Host
      BY <1>1, <1>5, <2>1, FirstIsItem
    <3> QED BY <2>2, <3>1 DEF ServiceServer
  <2>3. CASE ~ServiceDirect
    BY <1>1, <2>3, PresentIsHost DEF ServiceServer, ServiceDirect
  <2> QED BY <2>2, <2>3
<1> QED BY <1>4, <1>6, <1>7

\* What the editor writes is a profile, whatever the widgets show.
LEMMA EditorWritesProfile ==
  ASSUME NEW ui \in Ui
  PROVE  editor_update_connection(ui) \in Profile
<1>1. /\ ui.portal \in Item /\ ui.gateway \in Item /\ None \in Item
      /\ ui.direct \in BOOLEAN /\ ui.no_dtls \in BOOLEAN
  BY DEF Ui, Item
<1>2. First(ui.portal, None) \in Item
  BY <1>1, FirstIsItem
<1>3. First(ui.gateway, ui.portal) \in Item /\ First(ui.gateway, None) \in Item
  BY <1>1, FirstIsItem
<1>4. {"not_saved"} \in FlagValues
  BY ConstantsAssumption
<1>5. (~ui.direct /\ ~Present(ui.gateway)) \in BOOLEAN
  BY <1>1
<1> QED BY <1>1, <1>2, <1>3, <1>4, <1>5 DEF editor_update_connection, Profile, Switch

-----------------------------------------------------------------------------
(* The invariant, action by action.                                        *)

LEMMA InitActInv == Init => ActInv
<1> SUFFICES ASSUME Init PROVE ActInv
  OBVIOUS
<1> USE DEF Init
<1>1. PICK h \in Host :
         profile = [portal |-> None, gateway |-> h, as_gateway |-> TRUE,
                    auto_gateway |-> FALSE, no_dtls |-> None,
                    disable_udp |-> None, cookie_flags |-> {"not_saved"},
                    gateway_flags |-> {"not_saved"}]
  OBVIOUS
<1>2. profile \in Profile
  BY <1>1, ConstantsAssumption DEF Profile, Item, Switch
<1>3. stored \in Secrets /\ stored.cookie.epoch = 0
  <2>1. CASE stored = NoSecrets
    BY <2>1, NoSecretsType DEF NoSecrets, NoCookie
  <2>2. ASSUME NEW g \in Host,
               stored = [cookie |-> [server |-> g, direct |-> TRUE, epoch |-> 0], gateway |-> g]
        PROVE  stored \in Secrets /\ stored.cookie.epoch = 0
    <3>1. [server |-> g, direct |-> TRUE, epoch |-> 0] \in Cookie
      BY ConstantsAssumption DEF Cookie
    <3> QED BY <2>2, <3>1 DEF Secrets
  <2> QED BY <2>1, <2>2
<1>4. stored.cookie # NoCookie => leftover
  <2>1. NoSecrets.cookie = NoCookie
    BY DEF NoSecrets
  <2> QED BY <2>1
<1>5. TypeOK
  BY <1>2, <1>3, NoSecretsType, ConstantsAssumption DEF TypeOK
<1>6. StoredOld /\ RoundFits /\ SecretsFit
  BY <1>3, <1>4 DEF StoredOld, RoundFits, SecretsFit, NoSecrets, NoCookie
<1>7. FreshFits /\ ShownFits /\ ArgsFit
  BY DEF FreshFits, ShownFits, ArgsFit
<1> QED BY <1>5, <1>6, <1>7 DEF ActInv

\* Editing happens while nothing is active, so only what the profile shows,
\* and the profile, are at stake.
LEMMA EditInv ==
  ASSUME ActInv, phase = "idle",
         UNCHANGED <<stored, leftover, phase, epoch, secrets, launched>>,
         profile' \in Profile, shown' \in Ui \cup {NoUi}, ShownFits'
  PROVE  ActInv'
<1>1. TypeOK'
  BY DEF ActInv, TypeOK
<1>2. StoredOld' /\ RoundFits' /\ SecretsFit'
  BY DEF ActInv, StoredOld, RoundFits, SecretsFit
<1>3. FreshFits' /\ ArgsFit'
  BY DEF FreshFits, ArgsFit
<1> QED BY <1>1, <1>2, <1>3 DEF ActInv

LEMMA EditorSaveInv ==
  ASSUME ActInv, NEW ui \in Ui, NEW supported \in BOOLEAN, EditorSave(ui, supported)
  PROVE  ActInv'
<1>1. profile' \in Profile
  BY EditorWritesProfile DEF EditorSave
<1>2. ShownFits'
  BY DEF EditorSave, ShownFits
<1> QED BY <1>1, <1>2, EditInv DEF EditorSave

LEMMA HandEditInv ==
  ASSUME ActInv, HandEdit
  PROVE  ActInv'
<1>1. profile \in Profile
  BY DEF ActInv, TypeOK
<1>2. profile' \in Profile
  <2>1. CASE \E v \in Item : profile' \in {[profile EXCEPT !.portal = v],
                                           [profile EXCEPT !.gateway = v]}
    BY <1>1, <2>1 DEF Profile
  <2>2. CASE \E v \in BOOLEAN : profile' \in {[profile EXCEPT !.as_gateway = v],
                                              [profile EXCEPT !.auto_gateway = v]}
    BY <1>1, <2>2 DEF Profile
  <2>3. CASE \E v \in Switch : profile' \in {[profile EXCEPT !.no_dtls = v],
                                             [profile EXCEPT !.disable_udp = v]}
    BY <1>1, <2>3 DEF Profile
  <2>4. CASE \E v \in FlagValues : profile' \in {[profile EXCEPT !.cookie_flags = v],
                                                 [profile EXCEPT !.gateway_flags = v]}
    BY <1>1, <2>4 DEF Profile
  <2> QED BY <2>1, <2>2, <2>3, <2>4 DEF HandEdit
<1>3. ShownFits'
  BY DEF HandEdit, ShownFits
<1> QED BY <1>2, <1>3, EditInv DEF HandEdit

LEMMA ClearSecretsInv ==
  ASSUME ActInv, ClearSecrets
  PROVE  ActInv'
<1> USE DEF ClearSecrets
<1>1. TypeOK'
  BY NoSecretsType DEF ActInv, TypeOK
<1>2. StoredOld' /\ RoundFits' /\ SecretsFit'
  BY DEF ActInv, StoredOld, RoundFits, SecretsFit, NoSecrets, NoCookie
<1>3. FreshFits' /\ ArgsFit' /\ ShownFits'
  BY DEF ActInv, FreshFits, ArgsFit, ShownFits
<1> QED BY <1>1, <1>2, <1>3 DEF ActInv

\* An activation that fails, or ends, leaves nothing but the profile.
LEMMA BackToIdle ==
  ASSUME ActInv, phase' = "idle", secrets' = NoSecrets,
         launched' \in {launched, NoArgs}, UNCHANGED stored, kept
  PROVE  ActInv'
<1> USE DEF kept
<1>1. TypeOK'
  BY NoSecretsType DEF ActInv, TypeOK
<1>2. StoredOld' /\ RoundFits' /\ SecretsFit'
  BY DEF ActInv, StoredOld, RoundFits, SecretsFit, NoSecrets
<1>3. FreshFits' /\ ArgsFit'
  BY DEF FreshFits, ArgsFit
<1>4. ShownFits'
  BY DEF ActInv, ShownFits
<1> QED BY <1>1, <1>2, <1>3, <1>4 DEF ActInv

LEMMA ActivateInv ==
  ASSUME ActInv, Activate
  PROVE  ActInv'
<1> USE DEF Activate
<1>1. epoch' \in 1 .. MaxActivations /\ secrets' \in {NoSecrets, stored}
  BY ConstantsAssumption DEF ActInv, TypeOK
<1>2. secrets'.cookie.epoch = 0 /\ (secrets'.cookie # NoCookie => leftover)
  BY <1>1 DEF ActInv, StoredOld, NoSecrets, NoCookie
<1>3. TypeOK'
  BY <1>1, NoSecretsType DEF ActInv, TypeOK
<1>4. StoredOld' /\ RoundFits' /\ SecretsFit'
  BY <1>1, <1>2 DEF ActInv, StoredOld, RoundFits, SecretsFit
<1>5. FreshFits'
  BY <1>1, <1>2 DEF FreshFits
<1>6. ArgsFit' /\ ShownFits'
  BY DEF ActInv, ArgsFit, ShownFits
<1> QED BY <1>3, <1>4, <1>5, <1>6 DEF ActInv

\* A round that does not fail changes the phase alone.
LEMMA NeedSecretsInv ==
  ASSUME ActInv, NeedSecrets
  PROVE  ActInv'
<1>1. CASE Fail
  BY <1>1, BackToIdle DEF Fail
<1>2. CASE /\ validate_auth_secret_flags
           /\ phase' = IF ~SecretsNeeded THEN "connect"
                       ELSE IF phase = "system" THEN "ask_existing" ELSE "ask_new"
           /\ ~(SecretsNeeded /\ phase = "new")
           /\ UNCHANGED <<stored, secrets, launched>> /\ kept
  <2> USE <1>2 DEF kept
  <2>1. phase \in {"system", "existing", "new"}
    BY DEF NeedSecrets
  <2>2. phase' \in {"ask_existing", "ask_new", "connect"}
    OBVIOUS
  <2>3. phase' \in {"ask_existing", "ask_new"} => phase \in {"system", "existing"}
    BY <2>1
  <2>4. TypeOK'
    BY <2>2 DEF ActInv, TypeOK
  <2>5. StoredOld' /\ RoundFits' /\ SecretsFit'
    BY <2>1, <2>2, <2>3 DEF ActInv, StoredOld, RoundFits, SecretsFit, validate_auth_secret_flags
  <2>6. FreshFits'
    BY <2>1, <2>2 DEF ActInv, FreshFits, ServiceServer, ServiceDirect, ServiceGateway
  <2>7. ArgsFit' /\ ShownFits'
    BY <2>2 DEF ActInv, ArgsFit, ShownFits
  <2> QED BY <2>4, <2>5, <2>6, <2>7 DEF ActInv
<1> QED BY <1>1, <1>2 DEF NeedSecrets

LEMMA DialogExistingInv ==
  ASSUME ActInv, DialogExisting
  PROVE  ActInv'
<1> USE DEF DialogExisting, kept
<1>1. phase' \in {"existing", "ask_new"} /\ UNCHANGED <<stored, launched, profile, shown, leftover, epoch>>
  OBVIOUS
<1>2. secrets' \in Secrets
  <2>1. Offered \in Secrets /\ DialogGatewaySecret \in Host \cup {None}
    BY DialogReads DEF ActInv
  <2>2. Offered.cookie \in Cookie \cup {NoCookie}
    BY <2>1, SecretsFields
  <2> QED BY <2>1, <2>2 DEF ActInv, TypeOK, Secrets
<1>3. secrets'.cookie \in {secrets.cookie, stored.cookie}
  BY DEF Offered
<1>4. secrets'.cookie.epoch = 0 /\ (secrets'.cookie # NoCookie => leftover)
  BY <1>3 DEF ActInv, StoredOld, SecretsFit, RoundFits
<1>5. TypeOK'
  BY <1>1, <1>2 DEF ActInv, TypeOK
<1>6. StoredOld' /\ RoundFits' /\ SecretsFit'
  BY <1>1, <1>4 DEF ActInv, StoredOld, RoundFits, SecretsFit, validate_auth_secret_flags
<1>7. FreshFits'
  BY <1>1, <1>4 DEF ActInv, RoundFits, FreshFits
<1>8. ArgsFit' /\ ShownFits'
  BY <1>1 DEF ActInv, ArgsFit, ShownFits
<1> QED BY <1>5, <1>6, <1>7, <1>8 DEF ActInv

\* The sign-on.  The flags are safe by now, so nothing new is stored; whichever
\* of portal and gateway the dialog signs on to, the secret it prints makes
\* the service read the same.
LEMMA DialogNewInv ==
  ASSUME ActInv, DialogNew
  PROVE  ActInv'
<1>1. CASE Fail
  BY <1>1, BackToIdle DEF Fail
<1>2. CASE /\ Present(DialogServer)
           /\ phase' = "new"
           /\ secrets' = [cookie |-> [server |-> DialogServer, direct |-> DialogDirect,
                                      epoch |-> epoch],
                          gateway |-> DialogGatewaySecret]
           /\ stored' = Keep(secrets')
           /\ UNCHANGED launched /\ kept
  <2> USE <1>2 DEF kept
  <2>1. TypeOK /\ phase = "ask_new"
    BY DEF ActInv, DialogNew
  <2>2. /\ DialogServer \in Host /\ DialogDirect \in BOOLEAN
        /\ DialogGateway \in Host \cup {None} /\ DialogGatewaySecret \in Host \cup {None}
    BY <2>1, DialogReads
  <2>3. profile.portal \in Item /\ profile.gateway \in Item
    BY <2>1, ProfileFields DEF TypeOK
  <2>4. stored' = stored
    <3>1. "not_saved" \in profile.cookie_flags /\ "not_saved" \in profile.gateway_flags
      BY <2>1 DEF ActInv, RoundFits, validate_auth_secret_flags
    <3>2. stored = [cookie |-> stored.cookie, gateway |-> stored.gateway]
      BY <2>1 DEF TypeOK, Secrets
    <3> QED BY <3>1, <3>2 DEF Keep
  <2>5. secrets' \in Secrets
    <3>1. secrets'.cookie \in Cookie
      BY <2>1, <2>2 DEF Cookie, TypeOK
    <3> QED BY <2>2, <3>1 DEF Secrets
  <2>6. TypeOK'
    BY <2>1, <2>4, <2>5 DEF TypeOK
  <2>7. StoredOld' /\ RoundFits' /\ SecretsFit'
    BY <2>1, <2>4 DEF ActInv, StoredOld, RoundFits, SecretsFit, validate_auth_secret_flags
  <2>8. /\ DialogGateway \in Host => DialogGatewaySecret = DialogGateway
        /\ profile.gateway \in Host => DialogGateway = profile.gateway
        /\ DialogGatewaySecret \in Host
    <3>1. None \in Item /\ None \notin Host
      BY ConstantsAssumption DEF Item
    <3>2. DialogGateway \in Item /\ First(profile.portal, None) \in Item
      BY <2>2, <2>3, <3>1, FirstIsItem DEF Item
    <3>3. First(Offered.gateway, None) \in Item
      BY <2>1, <3>1, DialogReads, SecretsFields, FirstIsItem
    <3>4. DialogGateway \in Host => DialogGatewaySecret = DialogGateway
      BY <3>2, FirstIsItem DEF DialogGatewaySecret
    <3>5. profile.gateway \in Host => DialogGateway = profile.gateway
      BY <2>3, <3>3, FirstIsItem DEF DialogGateway
    <3>6. DialogGateway \in Host \/ profile.portal \in Host
      BY <2>2 DEF DialogServer
    <3>7. First(profile.portal, None) \in Host <=> profile.portal \in Host
      BY <2>3, <3>1, FirstIsItem
    <3>8. DialogGatewaySecret \in Host
      BY <3>2, <3>6, <3>7, FirstIsItem DEF DialogGatewaySecret
    <3> QED BY <3>4, <3>5, <3>8
  <2>9. FreshFits'
    <3>1. /\ profile' = profile /\ secrets'.gateway = DialogGatewaySecret
          /\ secrets'.cookie.server = DialogServer /\ secrets'.cookie.direct = DialogDirect
      OBVIOUS
    <3>2. ServiceDirect' = DialogDirect
      BY <3>1 DEF ServiceDirect, DialogDirect
    <3>3. Host \subseteq Item /\ None \in Item
      BY DEF Item
    <3>4. First(profile.gateway, None) \in Item
      BY <2>3, <3>3, FirstIsItem
    <3>5. ServiceGateway' = DialogGatewaySecret
      BY <2>8, <3>1, <3>3, <3>4, FirstIsItem DEF ServiceGateway
    <3>6. ServiceServer' = DialogServer
      <4>1. CASE DialogDirect
        <5>1. DialogServer = DialogGateway /\ DialogGateway \in Host
          BY <2>2, <4>1 DEF DialogServer
        <5>2. First(DialogGatewaySecret, profile.portal) = DialogGateway
          BY <2>3, <2>8, <3>3, <5>1, FirstIsItem
        <5> QED BY <3>1, <3>2, <3>5, <4>1, <5>1, <5>2 DEF ServiceServer
      <4>2. CASE ~DialogDirect
        BY <3>1, <3>2, <4>2 DEF ServiceServer, DialogServer
      <4> QED BY <4>1, <4>2
    <3>7. Present(secrets'.gateway)
      BY <2>8, <3>1, <3>3, PresentIsHost
    <3>8. Present(profile.gateway) => secrets'.gateway = profile.gateway
      BY <2>3, <2>8, <3>1, PresentIsHost
    <3> QED BY <3>1, <3>2, <3>6, <3>7, <3>8 DEF FreshFits
  <2>10. ArgsFit' /\ ShownFits'
    BY DEF ActInv, ArgsFit, ShownFits
  <2> QED BY <2>6, <2>7, <2>9, <2>10 DEF ActInv
<1> QED BY <1>1, <1>2 DEF DialogNew

LEMMA ConnectInv ==
  ASSUME ActInv, real_connect
  PROVE  ActInv'
<1>1. CASE Fail
  BY <1>1, BackToIdle DEF Fail
<1>2. CASE /\ Acceptable
           /\ phase' = "up"
           /\ launched' = start_openconnect_args
           /\ UNCHANGED <<stored, secrets>> /\ kept
  <2> USE <1>2 DEF kept
  <2>1. TypeOK /\ phase = "connect"
    BY DEF ActInv, real_connect
  <2>2. start_openconnect_args \in Args
    <3>1. ServiceServer \in Host /\ ServiceDirect \in BOOLEAN /\ ServiceGateway \in Host \cup {None}
      BY <2>1, ServiceReads DEF Acceptable
    <3>2. secrets.cookie \in Cookie
      BY <2>1, SecretsFields DEF Acceptable, TypeOK
    <3>3. (~ServiceDirect /\ profile.auto_gateway) \in BOOLEAN /\ NoDtls \in BOOLEAN
      BY <2>1, ProfileFields DEF NoDtls, TypeOK
    <3> QED BY <3>1, <3>2, <3>3 DEF start_openconnect_args, Args
  <2>3. TypeOK'
    BY <2>1, <2>2 DEF TypeOK
  <2>4. StoredOld' /\ RoundFits' /\ SecretsFit'
    BY <2>1 DEF ActInv, StoredOld, RoundFits, SecretsFit, validate_auth_secret_flags
  <2>5. FreshFits'
    BY <2>1 DEF ActInv, FreshFits, ServiceServer, ServiceDirect, ServiceGateway
  <2>6. ArgsFit' /\ ShownFits'
    BY DEF ActInv, ArgsFit, ShownFits, Acceptable, start_openconnect_args,
           ServiceServer, ServiceDirect, ServiceGateway, NoDtls
  <2> QED BY <2>3, <2>4, <2>5, <2>6 DEF ActInv
<1> QED BY <1>1, <1>2 DEF real_connect, LaunchFails

LEMMA StepActInv == ActInv /\ [Next]_vars => ActInv'
<1> SUFFICES ASSUME ActInv, [Next]_vars PROVE ActInv'
  OBVIOUS
<1>1. CASE \E ui \in Ui, supported \in BOOLEAN : EditorSave(ui, supported)
  BY <1>1, EditorSaveInv
<1>2. CASE HandEdit \/ ClearSecrets \/ Activate
  BY <1>2, HandEditInv, ClearSecretsInv, ActivateInv
<1>3. CASE NeedSecrets \/ DialogExisting \/ DialogNew \/ real_connect
  BY <1>3, NeedSecretsInv, DialogExistingInv, DialogNewInv, ConnectInv
<1>4. CASE Down
  BY <1>4, BackToIdle DEF Down
<1>5. CASE UNCHANGED vars
  <2> USE <1>5 DEF vars
  <2>1. TypeOK' /\ StoredOld' /\ RoundFits' /\ SecretsFit'
    BY DEF ActInv, TypeOK, StoredOld, RoundFits, SecretsFit, validate_auth_secret_flags
  <2>2. FreshFits'
    BY DEF ActInv, FreshFits, ServiceServer, ServiceDirect, ServiceGateway
  <2>3. ShownFits' /\ ArgsFit'
    BY DEF ActInv, ShownFits, ArgsFit, start_openconnect_args, ServiceServer,
           ServiceDirect, ServiceGateway, NoDtls
  <2> QED BY <2>1, <2>2, <2>3 DEF ActInv
<1> QED BY <1>1, <1>2, <1>3, <1>4, <1>5 DEF Next

\* The invariant holds in every reachable state.
LEMMA ActInvHolds == Spec => []ActInv
<1> QED BY InitActInv, StepActInv, PTL DEF Spec

-----------------------------------------------------------------------------
(* What follows.                                                           *)

\* Types: profile, secrets and gpclient's arguments stay what the programs
\* take them for; a launch always has a server and a cookie.
THEOREM ActivationTypeCorrect == Spec => []TypeOK
<1>1. ActInv => TypeOK
  BY DEF ActInv
<1> QED BY <1>1, ActInvHolds, PTL

\* real_connect never hands on a cookie of an earlier activation, but for one
\* that was stored before: validate_auth_secret_flags refuses every profile for
\* which NetworkManager would keep one, whenever the flags are changed.
THEOREM CookieIsFresh == Spec => []CookieFresh
<1>1. ActInv => CookieFresh
  BY DEF ActInv, SecretsFit, ArgsFit, CookieFresh, Fresh, start_openconnect_args
<1> QED BY <1>1, ActInvHolds, PTL

\* The dialog's order of data item and secret and the service's, which is the
\* opposite, come to the same server and mode for every profile.
THEOREM CookieIsForTheServer == Spec => []CookieFits
<1>1. ActInv => CookieFits
  BY DEF ActInv, FreshFits, ArgsFit, CookieFits, Fresh, start_openconnect_args
<1> QED BY <1>1, ActInvHolds, PTL

\* editor_update_connection, the dialog and start_openconnect_args together: a
\* profile as the editor saved it is launched in the mode the editor showed.
THEOREM EditorIsFollowed == Spec => []LaunchFollowsEditor
<1>1. ActInv => LaunchFollowsEditor
  <2> SUFFICES ASSUME ActInv, phase = "up", shown # NoUi, Fresh
               PROVE  \A f \in {"server", "direct", "auto", "gateway", "no_dtls"} :
                         launched[f] = Promised(shown)[f]
    BY DEF LaunchFollowsEditor
  <2>1. /\ launched = start_openconnect_args
        /\ shown \in Ui /\ Savable(shown) /\ profile = editor_update_connection(shown)
    BY DEF ActInv, TypeOK, ArgsFit, ShownFits
  <2>2. /\ Present(secrets.gateway)
        /\ Present(profile.gateway) => secrets.gateway = profile.gateway
    BY <2>1 DEF ActInv, FreshFits, Fresh, start_openconnect_args
  <2>3. /\ shown.portal \in Item /\ shown.gateway \in Item /\ None \in Item
        /\ shown.direct \in BOOLEAN /\ shown.no_dtls \in BOOLEAN
    BY <2>1 DEF Ui, Item
  <2>4. /\ profile.portal = First(shown.portal, None)
        /\ profile.gateway = IF shown.direct THEN First(shown.gateway, shown.portal)
                             ELSE First(shown.gateway, None)
        /\ profile.as_gateway = shown.direct
        /\ profile.auto_gateway = (~shown.direct /\ ~Present(shown.gateway))
        /\ profile.no_dtls = IF shown.no_dtls THEN "yes" ELSE "no"
    BY <2>1 DEF editor_update_connection
  <2>5. ServiceGateway = secrets.gateway
    BY <2>2 DEF ServiceGateway, First
  <2>6. ServiceDirect = shown.direct
    BY <2>1, <2>3, <2>4 DEF ServiceDirect, Savable, First, Present
  <2>7. launched.server = Promised(shown).server
    BY <2>1, <2>2, <2>4, <2>5, <2>6
    DEF start_openconnect_args, ServiceServer, Promised, Savable, First, Present
  <2>8. launched.direct = Promised(shown).direct /\ launched.auto = Promised(shown).auto
    BY <2>1, <2>4, <2>6 DEF start_openconnect_args, Promised
  <2>9. launched.gateway = Promised(shown).gateway
    BY <2>1, <2>2, <2>4, <2>5, <2>6 DEF start_openconnect_args, Promised, First, Present
  <2>10. launched.no_dtls = Promised(shown).no_dtls
    BY <2>1, <2>3, <2>4, ConstantsAssumption DEF start_openconnect_args, Promised, NoDtls
  <2> QED BY <2>7, <2>8, <2>9, <2>10
<1> QED BY <1>1, ActInvHolds, PTL

\* The editor and the service read no_dtls and its legacy form alike.
THEOREM TransportIsShown == Spec => []EditorShowsTransport
<1>1. ActInv => EditorShowsTransport
  BY DEF ActInv, ArgsFit, EditorShowsTransport, gpclient_editor_new,
         start_openconnect_args, NoDtls
<1> QED BY <1>1, ActInvHolds, PTL

\* After a sign-on, the last NeedSecrets has nothing to ask for, and
\* real_connect accepts the profile and the secrets unless a switch is bad: the
\* dialog never prints secrets that the service does not accept, so that only
\* the launch of gpclient itself is left to fail.
THEOREM NoSignOnInVain == Spec => SignOnSuffices
<1>1. ActInv /\ [Next]_vars =>
        (phase \notin {"idle", "up"} /\ phase' = "idle" /\ secrets.cookie.epoch = epoch
            => \/ ~nm_openconnect_properties_validate
               \/ phase = "connect" /\ Acceptable)
  <2> SUFFICES ASSUME ActInv, [Next]_vars, phase \notin {"idle", "up"}, phase' = "idle",
                      secrets.cookie.epoch = epoch, nm_openconnect_properties_validate
               PROVE  phase = "connect" /\ Acceptable
    OBVIOUS
  <2>1. phase \in {"new", "connect"} /\ secrets.cookie # NoCookie
    BY DEF ActInv, TypeOK, RoundFits, SecretsFit, NoCookie
  <2>2. validate_auth_secret_flags /\ Present(secrets.gateway)
    BY <2>1 DEF ActInv, RoundFits, FreshFits
  <2>3. ~SecretsNeeded
    BY <2>1, <2>2 DEF SecretsNeeded, Present
  <2>4. real_connect
    BY <2>1, <2>2, <2>3 DEF Next, EditorSave, HandEdit, ClearSecrets, Activate,
       NeedSecrets, DialogExisting, DialogNew, Down, vars
  <2>5. phase = "connect"
    BY <2>4 DEF real_connect
  <2>6. Present(ServiceGateway)
    BY <2>2 DEF ServiceGateway, First
  <2> QED BY <2>1, <2>2, <2>5, <2>6 DEF Acceptable
<1> QED BY <1>1, ActInvHolds, PTL DEF Spec, SignOnSuffices

=============================================================================
