------------------------------ MODULE Settings ------------------------------
(***************************************************************************)
(* The settings document, the three doors that write it (the settings      *)
(* screen, the emergency door and the settings command), the checks a save *)
(* passes, and the coordinator that applies the document to the running    *)
(* services: internal/config, internal/server/settings, internal/admin,    *)
(* internal/emergency, db/state/settings.go and db/sizeguard.              *)
(*                                                                         *)
(* A patch is a function from the fields it names to their new values, so  *)
(* "not named" and "set to empty" stay apart. Hosts, directories and bind  *)
(* interfaces are model values; of a provider only whether it is complete, *)
(* public and has its secret matters.                                      *)
(***************************************************************************)
EXTENDS Naturals, FiniteSets, FiniteSetsExt, Functions, TLC

CONSTANTS Savers, DoorOf, SelfHost,  \* who saves, through which door, from which host
          StPatches,                 \* [section, body] records a save can send
          StDocs,                    \* the documents a deployment can start with
          GoodHost,                  \* the hosts CheckHost accepts
          DirState,                  \* directory -> "ok", "absent", "orphan", "file" or "readonly"
          Bound, DefaultRate,        \* the range of the bounded number and its default
          StBudget                   \* how many saves a behaviour has

VARIABLES stDoc,      \* the stored document
          stSecret,   \* whether the sealed client secret is stored
          stUp,       \* whether the server runs
          stLive,     \* what the running services were last given
          stProvider, \* the provider client in force: "off", "public" or "confidential"
          stSave,     \* saver -> where its save is
          stSamplers, \* the size guard's goroutines
          stBlocked,  \* database file -> whether it refuses writes
          stNote,     \* ghosts: what the properties remember
          stLeft

stVars == <<stDoc, stSecret, stUp, stLive, stProvider, stSave, stSamplers, stBlocked, stNote, stLeft>>

DbFiles == 1..2
Get(b, f, fallback) == IF f \in DOMAIN b THEN b[f] ELSE fallback
NoSave == [pc |-> "idle", patch |-> [section |-> "none", body |-> <<>>], read |-> <<>>, prov |-> "off", k |-> 0]

(***************************************************************************)
(* The checks of config/check.go: the fields a patch is refused for        *)
(***************************************************************************)

Contains(v) == v \in Bound
Clamp(v) == IF v < Min(Bound) THEN Min(Bound) ELSE IF v > Max(Bound) THEN Max(Bound) ELSE v

checkBounds(b) == {f \in {"rate"} \cap DOMAIN b : ~Contains(b[f])}

\* Both lists of this patch: what is stored is not looked at.
checkHostRoles(app, content) ==
    (IF app \subseteq GoodHost THEN {} ELSE {"app"})
      \cup (IF content \subseteq GoodHost /\ content \cap app = {} THEN {} ELSE {"content"})

CheckCanonicalURL(h, appHosts) == h \in appHosts
checkOrigins(b, app) ==
    IF Get(b, "canon", "none") # "none" /\ ~CheckCanonicalURL(b.canon, app) THEN {"canon"} ELSE {}

hostAllowed(list, h) == h \in list
MutCheckLockout(b, in) == {}
checkLockout(b, in) ==
    LET app == Get(b, "app", {})
    IN IF app = {} \/ in.lockout = "warns" \/ hostAllowed(app, in.self) THEN {} ELSE {"app"}

checkNetwork(b, in) ==
    (IF "app" \in DOMAIN b /\ b.app = {} THEN {"app"} ELSE {})
      \cup checkHostRoles(Get(b, "app", {}), Get(b, "content", {}))
      \cup checkOrigins(b, Get(b, "app", {}))
      \cup checkLockout(b, in)

checkDB(b) == IF Get(b, "guard", FALSE) /\ Get(b, "max", 0) = 0 THEN {"guard"} ELSE {}

checkOIDC(b, hasSecret) ==
    IF ~Get(b, "sso", FALSE) THEN {}
    ELSE (IF Get(b, "issuer", FALSE) THEN {} ELSE {"issuer"})
           \cup (IF Get(b, "public", FALSE) \/ hasSecret \/ Get(b, "secret", FALSE) THEN {} ELSE {"secret"})

\* smb.Validate: a public interface has to be asked for.
Validate(iface, open) == iface = "lan" \/ open
checkSMB(b) == IF Validate(Get(b, "iface", "lan"), Get(b, "open", FALSE)) THEN {} ELSE {"iface"}

probeWritable(d) == DirState[d] = "ok"
probeParent(d) == DirState[d] = "absent"   \* the parent exists and takes a file
checkHomes(b) ==
    LET d == Get(b, "homes", "none")
    IN IF d = "none" \/ probeWritable(d) \/ probeParent(d) THEN {} ELSE {"homes"}
checkThumbnail(b) ==
    LET d == Get(b, "thumb", "none")
    IN IF d = "none" \/ probeWritable(d) \/ probeParent(d) THEN {} ELSE {"thumb"}
checkSecurity(b) == IF Get(b, "hard", 0) \in 0..2 THEN {} ELSE {"hard"}

Section(p, in) ==
    checkBounds(p.body) \cup
    CASE p.section = "network"   -> checkNetwork(p.body, in)
      [] p.section = "db"        -> checkDB(p.body)
      [] p.section = "oidc"      -> checkOIDC(p.body, in.hasSecret)
      [] p.section = "smb"       -> checkSMB(p.body)
      [] p.section = "homes"     -> checkHomes(p.body)
      [] p.section = "thumbnail" -> checkThumbnail(p.body)
      [] p.section = "security"  -> checkSecurity(p.body)
      [] OTHER                   -> {}

Blocked(findings) == findings # {}

\* The fields the catalogue marks, and any field it does not know.
KnownFields == {"app", "content", "canon", "rate", "guard", "max", "sso", "issuer", "public", "smb", "iface", "open", "homes"}
RestartRequiredFor(b) == DOMAIN b \ KnownFields # {}

(***************************************************************************)
(* config.Load: the document over the defaults. What a save refuses is     *)
(* clamped or dropped here.                                                *)
(***************************************************************************)

validStrings(list) == list \cap GoodHost
MutDropOverlap(app, content) == content
dropOverlap(app, content) == content \ app

loadNetwork(d) ==
    LET app == validStrings(d.app)
    IN [app |-> app, content |-> dropOverlap(app, validStrings(d.content)),
        canon |-> IF CheckCanonicalURL(d.canon, app) THEN d.canon ELSE "none"]
MutLoadWatchAndRate(d) == IF d.rate = 0 THEN DefaultRate ELSE d.rate
loadWatchAndRate(d) == IF d.rate = 0 THEN DefaultRate ELSE Clamp(d.rate)
loadDBGuard(d) == IF d.guard THEN d.max ELSE 0
loadOIDC(d) == IF ~d.sso \/ ~d.issuer THEN "off" ELSE IF d.public THEN "public" ELSE "confidential"
loadSMB(d) == d.smb /\ Validate(d.iface, d.open)
loadHomes(d) == d.homes
loadSecurity(d) == IF d.hard \in 0..2 THEN d.hard ELSE 0
loadThumbnail(d) == d.thumb

Load(d) == loadNetwork(d) @@ [rate |-> loadWatchAndRate(d), max |-> loadDBGuard(d), sso |-> loadOIDC(d),
                              smb |-> loadSMB(d), iface |-> d.iface, open |-> d.open, homes |-> loadHomes(d), hard |-> loadSecurity(d),
                              thumb |-> loadThumbnail(d)]

\* oidc.BuildFromSettings: a confidential client without its secret stays off.
BuildFromSettings(v, secret) == IF v.sso = "confidential" /\ ~secret THEN "off" ELSE v.sso

\* What the settings screen draws: the resolved values of what is stored now.
SettingsGet == Load(stDoc)

(***************************************************************************)
(* The size guard: sizeguard.go and the coordinator's part of it           *)
(***************************************************************************)

Enabled(v) == v.max > 0
Sampler(id) == [id |-> id, pc |-> "idle", val |-> FALSE, k |-> 1, live |-> TRUE]

Cancelled(samplers) == {[g EXCEPT !.live = FALSE] : g \in {h \in samplers : h.pc = "set"}}
NextId == Max({0} \cup {g.id : g \in stSamplers}) + 1

\* Sample's reading: which side of the bound the store is on is the environment's.
Sample(g, over) ==
    /\ g.pc = "idle" /\ g.live
    /\ stSamplers' = (stSamplers \ {g}) \cup {[g EXCEPT !.pc = "set", !.val = over, !.k = 1]}
    /\ UNCHANGED <<stDoc, stSecret, stUp, stLive, stProvider, stSave, stBlocked, stNote, stLeft>>

\* setBlocked goes file by file and does not look at the context any more.
setBlocked(g) ==
    /\ g.pc = "set"
    /\ stBlocked' = [stBlocked EXCEPT ![g.k] = g.val]
    /\ stSamplers' = (stSamplers \ {g}) \cup
         (IF g.k < Cardinality(DbFiles) THEN {[g EXCEPT !.k = @ + 1]}
          ELSE IF g.live THEN {[g EXCEPT !.pc = "idle"]} ELSE {})
    /\ stNote' = [stNote EXCEPT !.late = @ \/ ~g.live]
    /\ UNCHANGED <<stDoc, stSecret, stUp, stLive, stProvider, stSave, stLeft>>

(***************************************************************************)
(* A save                                                                  *)
(***************************************************************************)

At(s, pc) == stSave[s].pc = pc
Ends(s) == stSave' = [stSave EXCEPT ![s] = NoSave]
Goes(s, pc) == stSave' = [stSave EXCEPT ![s].pc = pc]

\* What each door hands the checks: only the screen says that a secret is held, only the screen
\* treats a list without the caller's host as a refusal.
screenInput(s) == [self |-> SelfHost[s], hasSecret |-> stSecret, lockout |-> "blocks"]
writeSettings(s) == [self |-> SelfHost[s], hasSecret |-> FALSE, lockout |-> "warns"]
runSettingsSet(s) == [self |-> "none", hasSecret |-> FALSE, lockout |-> "warns"]
Input(s) == CASE DoorOf[s] = "screen" -> screenInput(s)
              [] DoorOf[s] = "emergency" -> writeSettings(s)
              [] OTHER -> runSettingsSet(s)

\* The host guard in front of the screen: a first boot has no list yet.
Reaches(s) == stLive.app = {} \/ hostAllowed(stLive.app, SelfHost[s])

PatchBegin(s, p) ==
    /\ At(s, "idle") /\ stLeft > 0
    /\ CASE DoorOf[s] = "screen" -> stUp /\ Reaches(s)
         [] DoorOf[s] = "emergency" -> stUp
         [] OTHER -> ~stUp /\ "secret" \notin DOMAIN p.body   \* the instance lock
    /\ stSave' = [stSave EXCEPT ![s] = [NoSave EXCEPT !.patch = p,
                     !.pc = IF "secret" \in DOMAIN p.body THEN "secret" ELSE "check"]]
    /\ stLeft' = stLeft - 1
    /\ UNCHANGED <<stDoc, stSecret, stUp, stLive, stProvider, stSamplers, stBlocked, stNote>>

\* The client secret goes to its own row before anything is checked.
extractSecrets(s) ==
    /\ At(s, "secret")
    /\ stSecret' = stSave[s].patch.body.secret
    /\ stSave' = [stSave EXCEPT ![s].pc = "check", ![s].patch.body = RestrictDomain(@, LAMBDA f : f # "secret")]
    /\ UNCHANGED <<stDoc, stUp, stLive, stProvider, stSamplers, stBlocked, stNote, stLeft>>

Patch(s) ==
    /\ At(s, "check")
    /\ IF Blocked(Section(stSave[s].patch, Input(s))) THEN Ends(s) ELSE Goes(s, "merge")
    /\ UNCHANGED <<stDoc, stSecret, stUp, stLive, stProvider, stSamplers, stBlocked, stNote, stLeft>>

mergeKeys(d, b) == [f \in DOMAIN d |-> Get(b, f, d[f])]

MergeSettings(s) ==
    LET b == stSave[s].patch.body
        loads == DoorOf[s] = "screen" /\ ~RestartRequiredFor(b)
    IN /\ At(s, "merge")
       /\ stDoc' = mergeKeys(stDoc, b)
       /\ IF loads THEN Goes(s, "load") ELSE Ends(s)
       /\ stNote' = [stNote EXCEPT !.pending = @ \/ ~loads, !.foreign = @ \/ DoorOf[s] # "screen"]
       /\ UNCHANGED <<stSecret, stUp, stLive, stProvider, stSamplers, stBlocked, stLeft>>

\* Coordinator.Load reads the document and builds the provider, holding nothing.
LoadRead(s) ==
    /\ At(s, "load")
    /\ stSave' = [stSave EXCEPT ![s].pc = "apply", ![s].read = Load(stDoc),
                                ![s].prov = BuildFromSettings(Load(stDoc), stSecret)]
    /\ stNote' = [stNote EXCEPT !.pending = FALSE]
    /\ UNCHANGED <<stDoc, stSecret, stUp, stLive, stProvider, stSamplers, stBlocked, stLeft>>

\* The live values and hosts, under the coordinator's mutex. The sandbox stays as installed.
MutLoadApply(s) ==
    /\ At(s, "apply")
    /\ stLive' = [stSave[s].read EXCEPT !.hard = stLive.hard, !.thumb = stLive.thumb, !.content = stLive.content]
    /\ Goes(s, "services")
    /\ UNCHANGED <<stDoc, stSecret, stUp, stProvider, stSamplers, stBlocked, stNote, stLeft>>
LoadApply(s) ==
    /\ At(s, "apply")
    /\ stLive' = [stSave[s].read EXCEPT !.hard = stLive.hard]
    /\ Goes(s, "services")
    /\ UNCHANGED <<stDoc, stSecret, stUp, stProvider, stSamplers, stBlocked, stNote, stLeft>>

LoadServices(s) ==
    /\ At(s, "services")
    /\ stProvider' = stSave[s].prov
    /\ Goes(s, "guard")
    /\ UNCHANGED <<stDoc, stSecret, stUp, stLive, stSamplers, stBlocked, stNote, stLeft>>

\* applySizeGuard, under guardMu: the old sampler is told to stop and not waited for.
MutApplySizeGuard(s) ==
    /\ At(s, "guard")
    /\ stSamplers' = Cancelled(stSamplers) \cup (IF Enabled(stSave[s].read) THEN {Sampler(NextId)} ELSE {})
    /\ Ends(s)
    /\ stNote' = [stNote EXCEPT !.foreign = FALSE]
    /\ UNCHANGED <<stDoc, stSecret, stUp, stLive, stProvider, stBlocked, stLeft>>
applySizeGuard(s) ==
    /\ At(s, "guard") /\ \A t \in Savers : ~At(t, "unblock")
    /\ stSamplers' = Cancelled(stSamplers) \cup (IF Enabled(stSave[s].read) THEN {Sampler(NextId)} ELSE {})
    /\ stSave' = [stSave EXCEPT ![s] = IF Enabled(@.read) THEN NoSave ELSE [@ EXCEPT !.pc = "unblock", !.k = 1]]
    /\ stNote' = [stNote EXCEPT !.foreign = FALSE]
    /\ UNCHANGED <<stDoc, stSecret, stUp, stLive, stProvider, stBlocked, stLeft>>

Unblock(s) ==
    /\ At(s, "unblock")
    /\ stBlocked' = [stBlocked EXCEPT ![stSave[s].k] = FALSE]
    /\ stSave' = [stSave EXCEPT ![s] = IF @.k < Cardinality(DbFiles) THEN [@ EXCEPT !.k = @ + 1] ELSE NoSave]
    /\ UNCHANGED <<stDoc, stSecret, stUp, stLive, stProvider, stSamplers, stNote, stLeft>>

(***************************************************************************)
(* The process                                                             *)
(***************************************************************************)

WouldLoosenHardening == loadSecurity(stDoc) > stLive.hard

Down ==
    /\ stUp' = FALSE
    /\ stSave' = [s \in Savers |-> NoSave] /\ stSamplers' = {} /\ stBlocked' = [f \in DbFiles |-> FALSE]
    /\ stNote' = [stNote EXCEPT !.late = FALSE]
    /\ UNCHANGED <<stDoc, stSecret, stLive, stProvider, stLeft>>

\* The screen's restart; requests under way end with the process.
Restart == stUp /\ ~WouldLoosenHardening /\ Down
\* The emergency door's restart, a crash, or the supervisor's stop.
Stop == stUp /\ Down

\* server.Open: everything from the document, before anything serves.
Open ==
    /\ ~stUp /\ \A s \in Savers : At(s, "idle")
    /\ stUp' = TRUE /\ stLive' = Load(stDoc)
    /\ stProvider' = BuildFromSettings(Load(stDoc), stSecret)
    /\ stSamplers' = IF Enabled(Load(stDoc)) THEN {Sampler(1)} ELSE {}
    /\ stNote' = [pending |-> FALSE, foreign |-> FALSE, late |-> FALSE]
    /\ UNCHANGED <<stDoc, stSecret, stSave, stBlocked, stLeft>>

StInit ==
    /\ stDoc \in StDocs /\ stSecret = FALSE
    /\ stUp = FALSE /\ stLive = Load(stDoc) /\ stProvider = "off"
    /\ stSave = [s \in Savers |-> NoSave]
    /\ stSamplers = {} /\ stBlocked = [f \in DbFiles |-> FALSE]
    /\ stNote = [pending |-> FALSE, foreign |-> FALSE, late |-> FALSE]
    /\ stLeft = StBudget

StNext ==
    \/ \E s \in Savers : \/ \E p \in StPatches : PatchBegin(s, p)
                         \/ extractSecrets(s) \/ Patch(s) \/ MergeSettings(s)
                         \/ LoadRead(s) \/ LoadApply(s) \/ LoadServices(s) \/ applySizeGuard(s) \/ Unblock(s)
    \/ \E g \in stSamplers : setBlocked(g) \/ \E over \in BOOLEAN : Sample(g, over)
    \/ Restart \/ Stop \/ Open

StTypeOK ==
    /\ stUp \in BOOLEAN /\ stSecret \in BOOLEAN
    /\ stProvider \in {"off", "public", "confidential"}
    /\ \A s \in Savers : stSave[s].pc \in {"idle", "secret", "check", "merge", "load", "apply", "services", "guard", "unblock"}
    /\ stBlocked \in [DbFiles -> BOOLEAN]
    /\ stLeft \in 0..StBudget

Quiet == stUp /\ \A s \in Savers : At(s, "idle")

\* Between saves the running server is what is stored, unless the last save was one that waits for
\* a restart: the screen's Get describes the stored document and says it is what is in force.
LiveIsStored ==
    Quiet /\ ~stNote.pending => [SettingsGet EXCEPT !.hard = stLive.hard] = stLive

\* Whatever single patches were accepted and merged, the boundary in force is one that can be
\* served: no host in both roles, the canonical host an app host, the number in its bound, and
\* no SMB on an interface nobody opened.
LiveIsServable ==
    stUp => /\ stLive.app \cap stLive.content = {}
            /\ stLive.canon \in stLive.app \cup {"none"}
            /\ Contains(stLive.rate)
            /\ stLive.smb => Validate(stLive.iface, stLive.open)

\* The screen never strands the administrator who saved: when no other door stored anything in
\* between, a save that ends leaves its own host among the app hosts.
NotLockedOut ==
    [][\A s \in Savers :
          DoorOf[s] = "screen" /\ At(s, "guard") /\ stSave'[s].pc # "guard" /\ ~stNote.foreign /\ stUp'
            => Reaches(s)]_stVars

\* A database refuses writes only while a sampler is there to let it go again: switching the
\* guard off withdraws the block, apart from a sampler that was told to stop too late.
BlockHasOwner ==
    (\E f \in DbFiles : stBlocked[f]) =>
        \/ \E g \in stSamplers : g.live
        \/ \E s \in Savers : At(s, "unblock")
        \/ stNote.late

\* Unblock's comment: left standing, a block would outlive the setting that caused it.
BlockNeverOutlives ==
    Quiet /\ stSamplers = {} => \A f \in DbFiles : ~stBlocked[f]

\* ApplyOutcomeOf's comment: a blocking finding means nothing was stored.
RefusedStoresNothing ==
    [][\A s \in Savers : At(s, "secret") /\ stSecret' # stSecret =>
          ~Blocked(Section([stSave[s].patch EXCEPT !.body = RestrictDomain(@, LAMBDA f : f # "secret")],
                           [Input(s) EXCEPT !.hasSecret = DoorOf[s] = "screen" /\ stSecret']))]_stVars
=============================================================================
