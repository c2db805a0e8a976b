---------------------------- MODULE SmbSharing -----------------------------
(***************************************************************************)
(* Sharing over SMB: internal/smb, internal/smb/publish, internal/smb/agent *)
(* and cmd/sc-smb-agent, with the credential rules of                      *)
(* internal/auth/smbcred.go.                                               *)
(*                                                                         *)
(* The server renders a configuration, a roster and credentials into a     *)
(* directory it shares with an agent in another container, and asks the    *)
(* agent to apply them. The agent reads the files while the server may be  *)
(* replacing them, imports the credentials, prunes the ones nobody holds   *)
(* and decides what to tell the daemon; a poll of the files' fingerprints  *)
(* stands in for a request that was lost. A fingerprint is the number of   *)
(* writes so far: every write of a file moves its modification time.       *)
(***************************************************************************)
EXTENDS Integers, FiniteSets, Functions, TLC

CONSTANTS Users,         \* the accounts
          SmShares,      \* the registered shares that can be published
          GrantRows,     \* grant rows: share, user or group, whole, read, write, deny
          TOTPBlock,     \* the policy: an account with a second factor is left out
          SmBudget,      \* how many changes are made
          SmFaults,      \* what may fail: early, sync, timeout, start, daemon
          SmMaxFaults,   \* how often
          AgentRestarts  \* how often the agent is restarted

VARIABLES smDb,        \* what the database says
          smWait,      \* publications asked for and not begun
          smPub,       \* the publication in progress
          smReport,    \* what the last publication reported
          smFiles,     \* the rendered files
          smAsk,       \* the requests the agent has not taken: a waiting one, abandoned ones
          smAp,        \* the apply in progress
          smAgent,     \* the agent: down, starting, binding, up
          smPoll,      \* the poll: the fingerprint it last saw and whether it wants an apply
          smTried,     \* the fingerprint the last apply began with
          smLast,      \* what the last apply told the daemon
          smTdb,       \* the credential database of the daemon
          smDaemon,    \* the daemon: running, the configuration it loaded, the authority it holds
          smOpen,      \* the accounts with an open connection
          smLeft       \* changes, faults and restarts left

smVars == <<smDb, smWait, smPub, smReport, smFiles, smAsk, smAp, smAgent, smPoll, smTried, smLast,
            smTdb, smDaemon, smOpen, smLeft>>

NoConf == [shares |-> <<>>, homes |-> {}]
NoOne == <<>>            \* no credential
Kinds == {"none", "account", "separate"}
NoPub == [step |-> "idle"]
NoApply == [step |-> "idle"]
Stopped == [run |-> FALSE, conf |-> NoConf, authority |-> <<>>]

SmInit ==
    /\ \E enrolled \in {{}, Users} :
         smDb = [on |-> TRUE, secret |-> [u \in Users |-> IF u \in enrolled THEN "none" ELSE "account"],
                 enabled |-> Users, optOut |-> {}, off |-> {}, totp |-> enrolled,
                 members |-> {}, homes |-> {}, grants |-> GrantRows]
    /\ smWait = 1 /\ smPub = NoPub /\ smReport = "none"
    /\ smFiles = [there |-> {}, conf |-> NoConf, roster |-> {}, creds |-> NoOne, ver |-> 0]
    /\ smAsk = {} /\ smAp = NoApply /\ smAgent = "up" /\ smPoll = [last |-> 0, want |-> FALSE]
    /\ smTried = 0 /\ smLast = "stopped" /\ smTdb = NoOne /\ smDaemon = Stopped /\ smOpen = {}
    /\ smLeft = [changes |-> SmBudget, faults |-> SmMaxFaults, restarts |-> AgentRestarts]

May(fault) == fault \in SmFaults /\ smLeft.faults > 0
Spend(what) == smLeft' = [smLeft EXCEPT ![what] = @ - 1]
Fault == Spend("faults")

(***************************************************************************)
(* What the database says a publication should carry                       *)
(***************************************************************************)

\* PassdbRows leaves the accounts out that opted out.
PassdbRows(db) == Users \ db.optOut

publishable(db, u) ==
    /\ db.secret[u] # "none" /\ u \notin db.off /\ u \in db.enabled
    /\ ~(u \in db.totp /\ TOTPBlock)

SMBCredentials(db) ==
    [u \in {u \in PassdbRows(db) : publishable(db, u)} |-> db.secret[u]]

\* A group's grant is one grant for each of its members; a group without members grants nobody.
grantsOf(db) ==
    {[g |-> p[1], user |-> p[2]] : p \in
        {p \in db.grants \X Users : p[1].who = p[2] \/ (p[1].who = "group" /\ p[2] \in db.members)}}

\* Only a deny that covers the whole share is looked for.
MutAccountLists(grants, s) ==
    LET denied == {x.user : x \in {x \in grants : x.g.share = s /\ x.g.deny /\ x.g.whole}}
        admits == {x \in grants : x.g.share = s /\ ~x.g.deny /\ x.g.whole /\ x.g.read /\ x.user \notin denied}
        write  == {x.user : x \in {x \in admits : x.g.write}}
    IN [valid |-> {x.user : x \in admits}, read |-> {x.user : x \in admits} \ write, write |-> write]

\* Any deny on the share takes the account off every list, whatever the other grants say.
accountLists(grants, s) ==
    LET denied == {x.user : x \in {x \in grants : x.g.share = s /\ x.g.deny}}
        admits == {x \in grants : x.g.share = s /\ ~x.g.deny /\ x.g.whole /\ x.g.read /\ x.user \notin denied}
        write  == {x.user : x \in {x \in admits : x.g.write}}
    IN [valid |-> {x.user : x \in admits}, read |-> {x.user : x \in admits} \ write, write |-> write]

\* An owner's home is a share of its own, when the account has a credential and a prepared home.
homeShares(db) == DOMAIN SMBCredentials(db) \intersect db.homes

\* A share whose list is empty is withheld: an empty list would admit everybody.
renderShare(list) == list.valid # {}

shareDefs(db) ==
    LET lists == [s \in SmShares |-> accountLists(grantsOf(db), s)]
    IN [shares |-> Restrict(lists, {s \in SmShares : renderShare(lists[s])}), homes |-> homeShares(db)]

(***************************************************************************)
(* Changes: each commits and asks for a publication                        *)
(***************************************************************************)

\* republishCredentials, publishSMBSettings: the caller waits for its turn at the publisher.
republish == smWait' = smWait + 1

Change(db) ==
    /\ smLeft.changes > 0 /\ db # smDb
    /\ smDb' = db /\ republish /\ Spend("changes")
    /\ UNCHANGED <<smPub, smReport, smFiles, smAsk, smAp, smAgent, smPoll, smTried, smLast, smTdb, smDaemon, smOpen>>

\* A separate password clears the opt-out and enables the credential in the same transaction.
SetSMBPassword(u) ==
    Change([smDb EXCEPT !.secret[u] = "separate", !.optOut = @ \ {u}, !.enabled = @ \union {u}])

ClearSMBPassword(u) == Change([smDb EXCEPT !.secret[u] = "none"])

\* Opting out forces the live switch off; the secret stays stored.
SetSMBAccess(u, optOut, enabled) ==
    Change([smDb EXCEPT !.optOut = IF optOut THEN @ \union {u} ELSE @ \ {u},
                        !.enabled = IF enabled /\ ~optOut THEN @ \union {u} ELSE @ \ {u}])

\* A new account password is sealed as the SMB credential whatever the account has set.
SetPassword(u) == Change([smDb EXCEPT !.secret[u] = "account"])

setDisabled(u, disabled) == Change([smDb EXCEPT !.off = IF disabled THEN @ \union {u} ELSE @ \ {u}])

EnrollTOTP(u) == Change([smDb EXCEPT !.totp = @ \union {u}, !.secret[u] = "none"])

DisableTOTP(u) == Change([smDb EXCEPT !.totp = @ \ {u}])

\* ... with the password given, the account gets its credential back unless it opted out.
DisableTOTPWithPassword(u) ==
    u \in smDb.totp /\ Change([smDb EXCEPT !.totp = @ \ {u}, !.secret[u] = IF u \in smDb.optOut THEN @ ELSE "account"])

\* A sign-in seals the password for an eligible account that holds nothing.
backfillSMBSecret(u) ==
    /\ u \notin smDb.optOut /\ u \notin smDb.totp /\ smDb.secret[u] = "none"
    /\ Change([smDb EXCEPT !.secret[u] = "account"])

membershipChanged(u) ==
    Change([smDb EXCEPT !.members = IF u \in @ THEN @ \ {u} ELSE @ \union {u}])

GrantChanged(g) == Change([smDb EXCEPT !.grants = IF g \in @ THEN @ \ {g} ELSE @ \union {g}])

HomeChanged(u) == Change([smDb EXCEPT !.homes = IF u \in @ THEN @ \ {u} ELSE @ \union {u}])

publishSMBSettings == Change([smDb EXCEPT !.on = ~@])

SmChanges ==
    \/ publishSMBSettings
    \/ \E g \in GrantRows : GrantChanged(g)
    \/ \E u \in Users :
         \/ SetSMBPassword(u) \/ ClearSMBPassword(u) \/ SetPassword(u) \/ backfillSMBSecret(u)
         \/ EnrollTOTP(u) \/ DisableTOTP(u) \/ DisableTOTPWithPassword(u)
         \/ membershipChanged(u) \/ HomeChanged(u)
         \/ \E b \in BOOLEAN : setDisabled(u, b)
         \/ \E o, e \in BOOLEAN : SetSMBAccess(u, o, e)

(***************************************************************************)
(* The publisher                                                           *)
(***************************************************************************)

PubRest == <<smDb, smAp, smAgent, smPoll, smTried, smLast, smTdb, smDaemon, smOpen>>

\* Publisher.Publish takes the mutex, reads the settings and renders before anything is written.
Publish ==
    /\ smPub.step = "idle" /\ smWait > 0
    /\ smWait' = smWait - 1
    /\ smPub' = IF smDb.on THEN [step |-> "conf", conf |-> shareDefs(smDb)] ELSE [step |-> "remove"]
    /\ UNCHANGED <<smReport, smFiles, smAsk, smLeft>> /\ UNCHANGED PubRest

\* The configuration and the policy are replaced, then the credentials are read.
WriteConf ==
    /\ smPub.step = "conf"
    /\ smFiles' = [smFiles EXCEPT !.there = @ \union {"conf"}, !.conf = smPub.conf, !.ver = @ + 1]
    /\ smPub' = [step |-> "roster", creds |-> SMBCredentials(smDb)]
    /\ UNCHANGED <<smWait, smReport, smAsk, smLeft>> /\ UNCHANGED PubRest

\* The roster and the credentials are staged together and renamed one after the other.
writeCredentialFiles ==
    /\ \/ /\ smPub.step = "roster"
          /\ smFiles' = [smFiles EXCEPT !.roster = DOMAIN smPub.creds, !.ver = @ + 1]
          /\ smPub' = [smPub EXCEPT !.step = "creds"]
       \/ /\ smPub.step = "creds"
          /\ smFiles' = [smFiles EXCEPT !.there = @ \union {"creds"}, !.creds = smPub.creds, !.ver = @ + 1]
          /\ smPub' = [step |-> "push"]
    /\ UNCHANGED <<smWait, smReport, smAsk, smLeft>> /\ UNCHANGED PubRest

\* Disable removes the configuration first, then the credentials, the roster and the policy.
Disable ==
    /\ smPub.step = "remove"
    /\ \/ /\ "conf" \in smFiles.there
          /\ smFiles' = [smFiles EXCEPT !.there = @ \ {"conf"}, !.conf = NoConf, !.ver = @ + 1] /\ UNCHANGED smPub
       \/ /\ "conf" \notin smFiles.there
          /\ smFiles' = [smFiles EXCEPT !.there = {}, !.creds = NoOne, !.roster = {},
                                        !.ver = IF smFiles.there = {} THEN @ ELSE @ + 1]
          /\ smPub' = [step |-> "push"]
    /\ UNCHANGED <<smWait, smReport, smAsk, smLeft>> /\ UNCHANGED PubRest

\* The socket is asked; with nobody listening the publication reports an error.
push ==
    /\ smPub.step = "push"
    /\ IF smAgent = "up" THEN /\ smAsk' = smAsk \union {"push"} /\ smPub' = [step |-> "wait"] /\ UNCHANGED smReport
       ELSE /\ smPub' = NoPub /\ smReport' = "error" /\ UNCHANGED smAsk
    /\ UNCHANGED <<smWait, smFiles, smLeft>> /\ UNCHANGED PubRest

\* The caller gives up on the exchange; the agent may still take the request.
PushTimeout ==
    /\ smPub.step = "wait" /\ May("timeout") /\ Fault
    /\ smPub' = NoPub /\ smReport' = "error"
    /\ IF "push" \in smAsk THEN smAsk' = {"left"} /\ UNCHANGED smAp
       ELSE smAp' = [smAp EXCEPT !.by = "left"] /\ UNCHANGED smAsk
    /\ UNCHANGED <<smWait, smFiles, smDb, smAgent, smPoll, smTried, smLast, smTdb, smDaemon, smOpen>>

(***************************************************************************)
(* The agent                                                               *)
(***************************************************************************)

ApRest == <<smDb, smWait, smFiles, smAgent>>

\* A connection is to a share whose list names the account, under a credential the daemon holds.
Admits(conf, u) == u \in conf.homes \/ \E s \in DOMAIN conf.shares : u \in conf.shares[s].valid

\* The apply ends: the report is kept, and answered when a publication waits for it.
Answer(by, action, ok) ==
    /\ smLast' = action /\ smAp' = NoApply
    /\ IF by = "push"
       THEN smPub' = NoPub /\ smReport' = IF ok THEN "ok" ELSE "warned"
       ELSE UNCHANGED <<smPub, smReport>>

\* Apply takes the agent's mutex for the server's request, the poll or the start of the process.
Apply(by) ==
    /\ smAp.step = "idle"
    /\ \/ by = "left" /\ by \in smAsk /\ smAgent = "up" /\ smAsk' = smAsk \ {by} /\ UNCHANGED smPoll
       \/ by = "push" /\ smAsk = {by} /\ smAgent = "up" /\ smAsk' = {} /\ UNCHANGED smPoll
       \/ by = "poll" /\ smPoll.want /\ smAgent = "up" /\ smPoll' = [smPoll EXCEPT !.want = FALSE] /\ UNCHANGED smAsk
       \/ by = "startup" /\ smAgent = "starting" /\ smTried = -1 /\ UNCHANGED <<smAsk, smPoll>>
    /\ smTried' = smFiles.ver
    /\ smAp' = [step |-> IF "conf" \notin smFiles.there THEN "teardown" ELSE "roster", by |-> by, conf |-> smFiles.conf]
    /\ UNCHANGED <<smPub, smReport, smLast, smTdb, smDaemon, smOpen, smLeft>> /\ UNCHANGED ApRest

\* The off switch: the daemon stops, every credential and managed account goes.
teardown ==
    /\ smAp.step = "teardown"
    /\ smDaemon' = Stopped /\ smOpen' = {} /\ smTdb' = NoOne
    /\ Answer(smAp.by, "stopped", TRUE)
    /\ UNCHANGED <<smAsk, smPoll, smTried, smLeft>> /\ UNCHANGED ApRest

\* Interfaces, validator, collisions, missing groups: the previous configuration stays in force.
RefuseEarly ==
    /\ smAp.step = "roster" /\ May("early") /\ Fault
    /\ Answer(smAp.by, "kept", FALSE)
    /\ UNCHANGED <<smAsk, smPoll, smTried, smTdb, smDaemon, smOpen>> /\ UNCHANGED ApRest

\* The candidate passed; the roster is read.
ReadRoster ==
    /\ smAp.step = "roster"
    /\ smAp' = [smAp EXCEPT !.step = "creds"] @@ [roster |-> smFiles.roster]
    /\ UNCHANGED <<smAsk, smPoll, smPub, smReport, smTried, smLast, smTdb, smDaemon, smOpen, smLeft>> /\ UNCHANGED ApRest

\* An account whose state cannot be synchronized is not served at all.
refuseAuthority ==
    /\ smDaemon' = Stopped /\ smOpen' = {}
    /\ Answer(smAp.by, "failed", FALSE)

\* The credentials are read; without them a roster of accounts cannot be served.
ReadCreds ==
    /\ smAp.step = "creds"
    /\ IF "creds" \notin smFiles.there /\ smAp.roster # {}
       THEN refuseAuthority
       ELSE /\ smAp' = [smAp EXCEPT !.step = "sync"] @@ [body |-> smFiles.creds]
            /\ UNCHANGED <<smPub, smReport, smLast, smDaemon, smOpen>>
    /\ UNCHANGED <<smAsk, smPoll, smTried, smTdb, smLeft>> /\ UNCHANGED ApRest

\* pdbedit imports the file as it is now, for the accounts the rebuilt account file knows.
Import(roster) ==
    LET file == smFiles.creds
    IN [u \in DOMAIN smTdb \union (DOMAIN file \intersect roster) |-> IF u \in DOMAIN file \intersect roster THEN file[u] ELSE smTdb[u]]

\* Nothing is ever removed: an import only adds.
MutPrune(tdb, roster) == tdb

Prune(tdb, roster) == Restrict(tdb, DOMAIN tdb \intersect roster)

authorityFingerprint == <<smAp.conf, smAp.body>>

\* What to tell the daemon: the interfaces are part of the configuration here.
Settle ==
    CASE ~smDaemon.run -> "started"
      [] smDaemon.run /\ smDaemon.authority # <<>> /\ smDaemon.authority # authorityFingerprint -> "restarted"
      [] OTHER -> "unchanged"

\* A started daemon has loaded the promoted configuration; one that dies at once is the "start" fault.
Start == [run |-> TRUE, conf |-> smAp.conf, authority |-> smDaemon.authority]

\* Promote, WritePasswd, Import, Prune, MissingPassdb and settle, or a failure that stops the daemon.
Synchronize ==
    /\ smAp.step = "sync"
    /\ \/ /\ LET tdb == Prune(Import(smAp.roster), smAp.roster)
             IN /\ smTdb' = tdb
                /\ Answer(smAp.by, Settle, smAp.roster \subseteq DOMAIN tdb)
                /\ smDaemon' = [IF Settle = "unchanged" THEN smDaemon ELSE Start EXCEPT !.authority = authorityFingerprint]
                /\ smOpen' = IF Settle = "unchanged" THEN smOpen ELSE {}
          /\ UNCHANGED smLeft
       \/ /\ May("sync") /\ Fault /\ refuseAuthority
          /\ smTdb' \in {smTdb, Import(smAp.roster)}
       \/ /\ May("start") /\ Settle # "unchanged" /\ Fault
          /\ smTdb' = Prune(Import(smAp.roster), smAp.roster)
          /\ smDaemon' = [smDaemon EXCEPT !.run = FALSE] /\ smOpen' = {}
          /\ Answer(smAp.by, "failed", FALSE)
    /\ UNCHANGED <<smAsk, smPoll, smTried>> /\ UNCHANGED ApRest

\* The fingerprint is remembered once the apply is over.
MutPoll ==
    /\ smAgent = "up" /\ ~smPoll.want /\ smAp.step = "idle"
    /\ \/ smPoll.last # smTried /\ smPoll' = [last |-> smFiles.ver, want |-> FALSE]
       \/ smPoll.last = smTried /\ smPoll.last # smFiles.ver /\ smPoll' = [smPoll EXCEPT !.want = TRUE]
    /\ UNCHANGED <<smDb, smWait, smPub, smReport, smFiles, smAsk, smAp, smAgent, smTried, smLast, smTdb, smDaemon, smOpen, smLeft>>

\* One tick: a fingerprint that moved, or a daemon that should run and does not.
poll ==
    /\ smAgent = "up" /\ ~smPoll.want
    /\ \/ smPoll.last # smFiles.ver /\ smPoll' = [last |-> smFiles.ver, want |-> TRUE]
       \/ /\ smPoll.last = smFiles.ver /\ smAp.step = "idle" /\ smLast # "stopped" /\ ~smDaemon.run
          /\ smPoll' = [smPoll EXCEPT !.want = TRUE]
    /\ UNCHANGED <<smDb, smWait, smPub, smReport, smFiles, smAsk, smAp, smAgent, smTried, smLast, smTdb, smDaemon, smOpen, smLeft>>

(***************************************************************************)
(* The agent's process, the daemon and its clients                         *)
(***************************************************************************)

AgentRest == <<smDb, smWait, smFiles, smTdb>>

\* The container is restarted: the daemon goes with it, the credential database stays.
AgentStops ==
    /\ smLeft.restarts > 0 /\ smAgent = "up"
    /\ Spend("restarts")
    /\ smAgent' = "starting" /\ smTried' = -1 /\ smAp' = NoApply /\ smPoll' = [smPoll EXCEPT !.want = FALSE]
    /\ smDaemon' = Stopped /\ smOpen' = {} /\ smLast' = "none" /\ smAsk' = {}
    /\ IF smPub.step = "wait" THEN smPub' = NoPub /\ smReport' = "error" ELSE UNCHANGED <<smPub, smReport>>
    /\ UNCHANGED AgentRest

\* run: after the startup apply the socket is bound and the poll takes its first fingerprint.
run ==
    /\ smAgent = "starting" /\ smTried # -1 /\ smAp.step = "idle"
    /\ smAgent' = "up" /\ smPoll' = [last |-> smFiles.ver, want |-> FALSE]
    /\ UNCHANGED <<smPub, smReport, smAsk, smAp, smTried, smLast, smDaemon, smOpen, smLeft>> /\ UNCHANGED AgentRest

DaemonDies ==
    /\ smDaemon.run /\ smAp.step = "idle" /\ May("daemon") /\ Fault
    /\ smDaemon' = [smDaemon EXCEPT !.run = FALSE] /\ smOpen' = {}
    /\ UNCHANGED <<smPub, smReport, smAsk, smAp, smAgent, smPoll, smTried, smLast>> /\ UNCHANGED AgentRest

Connect(u) ==
    /\ smDaemon.run /\ u \in DOMAIN smTdb /\ Admits(smDaemon.conf, u) /\ u \notin smOpen
    /\ smOpen' = smOpen \union {u}
    /\ UNCHANGED <<smPub, smReport, smAsk, smAp, smAgent, smPoll, smTried, smLast, smDaemon, smLeft>> /\ UNCHANGED AgentRest

SmPublisher == Publish \/ WriteConf \/ writeCredentialFiles \/ Disable \/ push

SmAgentLoop ==
    \/ \E by \in {"push", "left", "poll", "startup"} : Apply(by)
    \/ teardown \/ ReadRoster \/ ReadCreds \/ Synchronize \/ poll \/ run

SmNext ==
    \/ SmChanges \/ SmPublisher \/ SmAgentLoop \/ PushTimeout \/ RefuseEarly \/ AgentStops \/ DaemonDies
    \/ \E u \in Users : Connect(u)

\* The publisher's caller runs on, and so do the agent's accept loop and its ticker.
SmFairness == WF_smVars(SmPublisher) /\ WF_smVars(SmAgentLoop)

(***************************************************************************)
(* Properties                                                              *)
(***************************************************************************)

\* The files, the reports and the daemon's state keep their shapes.
SmTypeOK ==
    /\ smDb.secret \in [Users -> Kinds] /\ smDb.grants \subseteq GrantRows
    /\ smWait \in 0..(SmBudget + 1)
    /\ smReport \in {"none", "ok", "warned", "error"}
    /\ smFiles.roster \subseteq Users
    /\ smAgent \in {"starting", "up"} /\ smTried \in -1..smFiles.ver
    /\ smLast \in {"none", "stopped", "started", "restarted", "unchanged", "kept", "failed"}
    /\ DOMAIN smTdb \subseteq Users /\ smOpen \subseteq Users

\* What an account may reach, decided from the grants one account at a time.
MayReach(db, u, s) ==
    LET mine == {g \in db.grants : g.share = s /\ (g.who = u \/ (g.who = "group" /\ u \in db.members))}
    IN (\A g \in mine : ~g.deny) /\ \E g \in mine : g.whole /\ g.read

Served ==
    /\ smTdb = (IF smDb.on THEN SMBCredentials(smDb) ELSE NoOne)
    /\ ~smDb.on => ~smDaemon.run
    /\ smDaemon.run => \A u \in Users, s \in SmShares :
         (s \in DOMAIN smDaemon.conf.shares /\ u \in smDaemon.conf.shares[s].valid) <=> MayReach(smDb, u, s)

\* publish.go, AccessChanged: a change that was published and reported as applied is what the
\* daemon serves, whatever the poll and a torn reading of the files did in between: exactly the
\* eligible credentials, and for every share exactly the accounts its grants admit.
PublishedExactly ==
    smPub.step = "idle" /\ smWait = 0 /\ smReport = "ok" /\ smAp.step = "idle" => Served

\* main.go, poll: no set of files is forgotten. When the agent rests, the last apply began with
\* the files as they are, or the poll will still see that they moved, or the daemon is down and
\* the poll is going to try again.
NoChangeForgotten ==
    smAgent = "up" /\ smAp.step = "idle" /\ ~smPoll.want /\ smAsk = {} =>
        \/ smTried = smFiles.ver
        \/ smPoll.last # smFiles.ver
        \/ smLast # "stopped" /\ ~smDaemon.run

\* publish.go, push: "The files are written either way, so the poll on the other side still
\* applies them." Whatever requests are lost, the daemon ends up serving what the database says,
\* unless an apply was refused before it changed anything.
Converges == <>[](smLast = "kept" \/ Served)

\* settle_linux.go: "Authority changes must terminate those connections immediately." An account
\* that lost its credential keeps no connection once the publication reported the change applied.
RevokedIsDisconnected ==
    smPub.step = "idle" /\ smWait = 0 /\ smReport = "ok" /\ smAp.step = "idle" /\ ~smPoll.want /\ smPoll.last = smFiles.ver =>
        smOpen \subseteq DOMAIN SMBCredentials(smDb)

\* totp.go, EnrollTOTP: "leaving the NT hash means the account password keeps working over SMB".
SecondFactorKept == \A u \in smDb.totp : smDb.secret[u] # "account"
============================================================================
