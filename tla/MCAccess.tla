------------------------------ MODULE MCAccess ------------------------------
(***************************************************************************)
(* Finite instances of the modules about who may do what, in one model: a  *)
(* behaviour lets one part run, the one in focus, and the others rest, so  *)
(* that the state space is the sum of the parts' and not their product.    *)
(***************************************************************************)
EXTENDS SignIn, DeviceLogin, KeyRotation, SingleSignOn, Permissions, Accounts, PublicLinks,
        ShareRegistry, RequestLimiter

VARIABLES
    focus,   \* the part that runs in this behaviour
    rcHosts, rcTrust, rcLive, rcAdmin, rcReq, rcLeft,   \* RequestChain
    vpGrants, vpDisk, vpHand, vpAt, vpLeft,   \* VirtualPaths
    eaErr, eaHidden, eaAnswer   \* ErrorAnswers

rcVars == <<rcHosts, rcTrust, rcLive, rcAdmin, rcReq, rcLeft>>
vpVars == <<vpGrants, vpDisk, vpHand, vpAt, vpLeft>>
eaVars == <<eaErr, eaHidden, eaAnswer>>

(* SingleSignOn: two published keys, of the two kinds jws.go accepts.      *)
KeyTable ==
    [k \in {"k1", "k2"} |->
        [kty |-> IF k = "k1" THEN "RSA" ELSE "EC", crv |-> IF k = "k1" THEN "" ELSE "P-256",
         alg |-> "", use |-> "sig", sound |-> TRUE]]

(* Permissions: grants to an account and to its group, over the root and   *)
(* a directory; seeds are the duplicate rows a first migration folds.      *)
PoolOfGrants ==
    {[who |-> "u", path |-> <<"d">>, allow |-> {"read"}, deny |-> {}, inherit |-> FALSE, home |-> FALSE],
     [who |-> "g", path |-> <<>>, allow |-> {"read", "write"}, deny |-> {}, inherit |-> TRUE, home |-> FALSE]}
GrantPaths == {<<"d">>}
TwoRows(inherit, who, deny) ==
    <<[who |-> "u", path |-> <<>>, allow |-> {"read"}, deny |-> {}, inherit |-> inherit, home |-> FALSE],
      [who |-> who, path |-> <<>>, allow |-> {"write"}, deny |-> deny, inherit |-> TRUE, home |-> FALSE]>>
SeedRows ==
    {<<>>, TwoRows(FALSE, "u", {"read"}), TwoRows(TRUE, "u", {}), TwoRows(TRUE, "g", {"read"})}

(* Accounts: a fresh installation, and one with two administrators.        *)
SeedAccounts ==
    {[i \in {} |-> [name |-> "", admin |-> FALSE, disabled |-> FALSE, born |-> 0]],
     [i \in 1..2 |-> [name |-> IF i = 1 THEN "ann" ELSE "bob", admin |-> TRUE, disabled |-> FALSE, born |-> i]]}

(* PublicLinks: a capped download link behind a password and a lease, and  *)
(* a drop box.                                                             *)
LinkSurfaces == {[op |-> "get", sub |-> "root"], [op |-> "zip", sub |-> "child"], [op |-> "drop", sub |-> "root"]}
LinksMade == {[perms |-> {"Read", "Download"}, pw |-> 1, exp |-> 2, max |-> 1],
              [perms |-> {"Create"}, pw |-> 0, exp |-> 0, max |-> -1]}
LinkPatches == {[field |-> "pw", to |-> 2]}

(* ShareRegistry: a plain directory and an encrypted volume.               *)
Locations == {"l1", "v1"}
BackendTable == [l \in Locations |-> IF l = "v1" THEN "veracrypt" ELSE "local"]
ShareConfigs ==
    {[fields |-> f, secret |-> "set", create |-> FALSE, size |-> FALSE, parses |-> TRUE] : f \in BOOLEAN}

(* A share is made and two requests race over it; or one request races a   *)
(* disk that comes and goes, and a restart in the middle of it.            *)
RegistryBudgets == {[requests |-> 3, flips |-> 0, faults |-> 1, restarts |-> 0],
                    [requests |-> 2, flips |-> 1, faults |-> 1, restarts |-> 1]}

(* RequestChain: the ways a request travels, each with the address its     *)
(* sender claims, and what it asks with which credentials.                 *)
Hop(ip, form) == [ip |-> ip, form |-> form]
Journeys ==
    {[path |-> p, said |-> <<Hop("lan", "plain")>>, cf |-> "none", tls |-> Len(p) = 1, proto |-> "https"] :
        p \in {<<Hop("net", "plain")>>, <<Hop("lan", "mapped")>>,
               <<Hop("net", "plain"), Hop("side", "plain")>>,
               <<Hop("net", "junk"), Hop("edge", "port"), Hop("side", "plain")>>}}
Page(scheme, name) == [scheme |-> scheme, name |-> name, port |-> 0]
AsksMade ==
    {a \in [host : {[name |-> "app", port |-> 443], [name |-> "raw", port |-> 0]},
            page : {Page("none", "none"), Page("https", "app"), Page("https", "evil")},
            cookie : {"none", "s"}, auth : {"none", "valid", "bad"}, csrf : {"none", "s"},
            route : {"health", "drop", "login", "read", "write", "events", "settings", "dav", "direct"}] :
       /\ a.page.name = "evil" => a.csrf = "none" /\ a.auth = "none"
       /\ a.csrf = "s" => a.cookie = "s" /\ a.auth = "none" /\ a.route \in {"write", "settings", "dav"}
       /\ a.auth = "valid" => a.cookie = "none"
       /\ a.auth = "bad" => a.cookie = "s"
       /\ a.host.name = "raw" => a.route \in {"direct", "write"} /\ a.page.name = "none"}
HostSettings == {[app |-> {}, content |-> {}], [app |-> {"app"}, content |-> {"raw"}]}

(* VirtualPaths: names in the two normal forms and in a legacy encoding, a *)
(* device name and a control name, in two trees under three sets of grants.*)
Nm(t, f) == [t |-> t, f |-> f, n |-> 1]
NameKinds ==
    [t \in {"a", "b", "con", "meta", "dots", "none", "docs", "music", "generated"} |->
        CASE t = "con" -> "device" [] t = "meta" -> "reserved" [] t = "dots" -> "dot"
          [] t = "none" -> "empty" [] OTHER -> "plain"]
TreesOnDisk ==
    {{<<1, <<Nm("a", "nfc")>>>>, <<1, <<Nm("a", "nfc"), Nm("a", "nfc")>>>>,
      <<1, <<Nm("a", "nfc"), Nm("con", "nfc")>>>>, <<1, <<Nm("meta", "nfc")>>>>,
      <<2, <<Nm("a", "nfc")>>>>, <<2, <<Nm("a", "nfc"), Nm("b", "nfc")>>>>},
     {<<1, <<Nm("a", "nfc")>>>>, <<1, <<Nm("a", "nfc"), Nm("b", "nfd")>>>>,
      <<1, <<Nm("a", "nfc"), Nm("b", "legacy")>>>>}}
WholeShare == [share |-> 1, sub |-> <<>>, label |-> <<>>, allow |-> {"read", "write"}]
SubOfShare == [share |-> 1, sub |-> <<Nm("a", "nfc")>>, label |-> <<>>, allow |-> {"read"}]
SubOfOther == [share |-> 2, sub |-> <<Nm("a", "nfc")>>, label |-> <<>>, allow |-> {"read", "write"}]
GrantSets == {<<WholeShare, SubOfShare>>, <<SubOfShare, SubOfOther>>, <<SubOfOther>>}
SegmentsAsked ==
    {[name |-> Nm("a", "nfc"), esc |-> "none"], [name |-> Nm("b", "nfd"), esc |-> "percent"],
     [name |-> Nm("b", "legacy"), esc |-> "percent"], [name |-> Nm("a", "nfc"), esc |-> "slash"],
     [name |-> Nm("a", "nfc"), esc |-> "broken"], [name |-> Nm("meta", "nfc"), esc |-> "none"],
     [name |-> Nm("dots", "nfc"), esc |-> "percent"], [name |-> Nm("none", "nfc"), esc |-> "none"],
     [name |-> Nm("docs", "nfc"), esc |-> "none"]}
ShareTitles == <<"docs", "music">>

LimitSettings == {[rate |-> 1, burst |-> 1], [rate |-> 1, burst |-> 0], [rate |-> 1, burst |-> 2]}

Rc == INSTANCE RequestChain
        WITH RcRequests <- {"q"}, Lan <- {"lan", "side"}, Travels <- Journeys, Asks <- AsksMade,
             HostChoices <- HostSettings, TrustChoices <- {{}, {"side", "edge"}},
             RcSaves <- 1, RcRevokes <- 1
Vp == INSTANCE VirtualPaths
        WITH KindOf <- NameKinds, VpTrees <- TreesOnDisk, VpGrantSets <- GrantSets,
             ShareName <- ShareTitles, AskSegments <- SegmentsAsked,
             PathComponents <- 3, UniqueNameBound <- 3, CharsetSample <- 2
Ea == INSTANCE ErrorAnswers

Parts == {"si", "dv", "kr", "oi", "pe", "ac", "lk", "sr", "rc", "vp", "lm", "ea"}

(* Every part starts as its own module says; a part out of focus stays in  *)
(* one of its initial states.                                              *)
Init ==
    /\ focus \in Parts
    /\ SiInit /\ (focus # "si" => ~siRow.weak /\ siRow.secret = 0)
    /\ DvInit
    /\ KrInit
    /\ OiInit
    /\ PeInit /\ (focus # "pe" => peRow = <<>> /\ peMember = {})
    /\ AcInit /\ (focus # "ac" => DOMAIN acUser = {} /\ acHomes)
    /\ LkInit
    /\ SrInit /\ (focus # "sr" => srLeft.restarts = 0)
    /\ Rc!RcInit /\ (focus # "rc" => rcHosts.app = {} /\ rcTrust = {} /\ rcAdmin = {})
    /\ Vp!VpInit /\ (focus # "vp" => Len(vpGrants) = 1 /\ Cardinality(vpDisk) = 3)
    /\ LmInit /\ (focus # "lm" => lmLimits.burst = 1)
    /\ Ea!EaInit /\ (focus # "ea" => eaErr = "denied" /\ eaHidden)

(* Only the part in focus moves.                                           *)
Only(part) ==
    /\ UNCHANGED focus
    /\ IF part = "si" THEN TRUE ELSE UNCHANGED siVars
    /\ IF part = "dv" THEN TRUE ELSE UNCHANGED dvVars
    /\ IF part = "kr" THEN TRUE ELSE UNCHANGED krVars
    /\ IF part = "oi" THEN TRUE ELSE UNCHANGED oiVars
    /\ IF part = "pe" THEN TRUE ELSE UNCHANGED peVars
    /\ IF part = "ac" THEN TRUE ELSE UNCHANGED acVars
    /\ IF part = "lk" THEN TRUE ELSE UNCHANGED lkVars
    /\ IF part = "sr" THEN TRUE ELSE UNCHANGED srVars
    /\ IF part = "rc" THEN TRUE ELSE UNCHANGED rcVars
    /\ IF part = "vp" THEN TRUE ELSE UNCHANGED vpVars
    /\ IF part = "lm" THEN TRUE ELSE UNCHANGED lmVars
    /\ IF part = "ea" THEN TRUE ELSE UNCHANGED eaVars

SignInStep == focus = "si" /\ SiNext /\ Only("si")
DeviceLoginStep == focus = "dv" /\ DvNext /\ Only("dv")
KeyRotationStep == focus = "kr" /\ KrNext /\ Only("kr")
SingleSignOnStep == focus = "oi" /\ OiNext /\ Only("oi")
PermissionsStep == focus = "pe" /\ PeNext /\ Only("pe")
AccountsStep == focus = "ac" /\ AcNext /\ Only("ac")
PublicLinksStep == focus = "lk" /\ LkNext /\ Only("lk")
ShareRegistryStep == focus = "sr" /\ SrNext /\ Only("sr")
RequestChainStep == focus = "rc" /\ Rc!RcNext /\ Only("rc")
VirtualPathsStep == focus = "vp" /\ Vp!VpNext /\ Only("vp")
RequestLimiterStep == focus = "lm" /\ LmNext /\ Only("lm")
ErrorAnswersStep == focus = "ea" /\ Ea!EaNext /\ Only("ea")

Next ==
    \/ SignInStep
    \/ DeviceLoginStep
    \/ KeyRotationStep
    \/ SingleSignOnStep
    \/ PermissionsStep
    \/ AccountsStep
    \/ PublicLinksStep
    \/ ShareRegistryStep
    \/ RequestChainStep
    \/ VirtualPathsStep
    \/ RequestLimiterStep
    \/ ErrorAnswersStep

vars == <<focus, siVars, dvVars, krVars, oiVars, peVars, acVars, lkVars, srVars, rcVars, vpVars,
          lmVars, eaVars>>

Spec == Init /\ [][Next]_vars

(***************************** Properties **********************************)

(* Every part keeps the shape its module declares.                         *)
AccessTypeOK ==
    /\ (focus = "si" => SiTypeOK)
    /\ (focus = "dv" => DvTypeOK)
    /\ (focus = "kr" => KrTypeOK)
    /\ (focus = "oi" => OiTypeOK)
    /\ (focus = "pe" => PeTypeOK)
    /\ (focus = "ac" => AcTypeOK)
    /\ (focus = "lk" => LkTypeOK)
    /\ (focus = "sr" => SrTypeOK)
    /\ (focus = "rc" => Rc!RcTypeOK)
    /\ (focus = "vp" => Vp!VpTypeOK)
    /\ (focus = "lm" => LmTypeOK)
    /\ (focus = "ea" => Ea!EaTypeOK)

(* What may be used once, or so many times, is used no more often, however  *)
(* the requests that present it race: a second-factor step and a recovery   *)
(* code (SignIn), a single sign-on attempt (SingleSignOn), a device flow,   *)
(* which mints for the person who said yes (DeviceLogin), the setup token   *)
(* (Accounts), the downloads of a capped link (PublicLinks), and the burst  *)
(* of a rate-limited client in a map that keeps to its cap (RequestLimiter).*)
SpentOnce ==
    /\ (focus = "si" => CodesSpentOnce)
    /\ (focus = "oi" => RedeemedOnce)
    /\ (focus = "dv" => FlowMintsForApprover)
    /\ (focus = "ac" => FirstAdminOnce)
    /\ (focus = "lk" => CapHolds)
    /\ (focus = "lm" => LimiterBound)
    /\ (focus = "lm" => LimiterBounded)

(* What is held in memory answers as the rows would: a revoked session does *)
(* not come back and a cached password or token decision is inert once the  *)
(* revocation has landed (SignIn, DeviceLogin); a withdrawn signing key     *)
(* verifies nothing past its cache time (SingleSignOn); a remembered access *)
(* decision and the evaluator are the stored grants' (Permissions); the     *)
(* registry serves the stored shares and holds exactly the roots in use     *)
(* (ShareRegistry); and the key file opens every committed row wherever a   *)
(* rotation stopped (KeyRotation).                                          *)
HeldIsStored ==
    /\ (focus = "si" => RevokedStaysDead)
    /\ (focus = "si" => CacheAgrees)
    /\ (focus = "dv" => CacheServesLive)
    /\ (focus = "oi" => KeysCurrent)
    /\ (focus = "pe" => RememberedIsCurrent)
    /\ (focus = "pe" => EvaluatorCurrent)
    /\ (focus = "sr" => NoRootLeak)
    /\ (focus = "sr" => RegistryMatchesRows)
    /\ (focus = "kr" => RotationRecoverable)

(* Nobody gets further than what was given to them: a single sign-on        *)
(* session and a link come from the account's own consent (SingleSignOn); a *)
(* visitor of a public link passed its password, its lease and its pin      *)
(* (PublicLinks); the level walk decides as the rule does (Permissions); a  *)
(* page of another site drives nothing, a claimed address is not believed,  *)
(* a first boot serves the private network and an administrator's route an  *)
(* administrator (RequestChain); a home holds and serves one account and    *)
(* somebody who can administer is left (Accounts); a grant serves the share *)
(* it was written for (ShareRegistry); what a client spells stays inside    *)
(* its grants, and a path handed to it leads back to its file               *)
(* (VirtualPaths); and no surface reports an absence that is none           *)
(* (ErrorAnswers).                                                          *)
AccessEarned ==
    /\ (focus = "oi" => SessionsEarned)
    /\ (focus = "oi" => LinksOwn)
    /\ (focus = "lk" => AdmittedHonestly)
    /\ (focus = "pe" => DecisionIsRule)
    /\ (focus = "rc" => Rc!AmbientBound)
    /\ (focus = "rc" => Rc!ClientHonest)
    /\ (focus = "rc" => Rc!FirstBootPrivate)
    /\ (focus = "rc" => Rc!ReachedEarned)
    /\ (focus = "ac" => AdminRemains)
    /\ (focus = "ac" => HomePrivate)
    /\ (focus = "ac" => ReachesOwnHome)
    /\ (focus = "sr" => GrantServesOwnShare)
    /\ (focus = "vp" => Vp!StaysInside)
    /\ (focus = "vp" => Vp!LeadsBack)
    /\ (focus = "ea" => Ea!NoFalseAbsence)

(* Steps that must not show: folding duplicate grants changes nobody's      *)
(* access (duplicateGrantFolds), of two failures in a row a caller cannot   *)
(* tell a hidden resource from an absent one (applyVisibility), and a       *)
(* visitor's drop never replaces another's (LinkDropFile).                  *)
StepsKeepFaith == FoldKeepsAccess /\ Ea!HiddenAlike /\ DropKeepsFirst
=============================================================================
