------------------------------ MODULE MCServer ------------------------------
(***************************************************************************)
(* Finite instances of the modules about the running server, in one model: *)
(* a behaviour lets one part run, the one in focus, and the others rest,   *)
(* so that the state space is the sum of the parts' and not their product. *)
(***************************************************************************)
EXTENDS ServerLife, Listener, Thumbnails

VARIABLES
    focus,   \* the part that runs in this behaviour
    smDb, smWait, smPub, smReport, smFiles, smAsk, smAp, smAgent, smPoll, smTried, smLast,
    smTdb, smDaemon, smOpen, smLeft,   \* SmbSharing
    stDoc, stSecret, stUp, stLive, stProvider, stSave, stSamplers, stBlocked, stNote, stLeft,   \* Settings
    lbNow, lbSegs, lbActive, lbGone, lbRead, lbGraph, lbLeft,   \* Logbook
    auRows, auNext, auOps, auClock, auWriter, auPage, auGraph, auWritten, auRestarts   \* AuditLog

smVars == <<smDb, smWait, smPub, smReport, smFiles, smAsk, smAp, smAgent, smPoll, smTried,
            smLast, smTdb, smDaemon, smOpen, smLeft>>
stVars == <<stDoc, stSecret, stUp, stLive, stProvider, stSave, stSamplers, stBlocked, stNote,
            stLeft>>
lbVars == <<lbNow, lbSegs, lbActive, lbGone, lbRead, lbGraph, lbLeft>>
auVars == <<auRows, auNext, auOps, auClock, auWriter, auPage, auGraph, auWritten, auRestarts>>

(* SmbSharing: one account with a grant to a whole share, and a denial to  *)
(* its group.                                                              *)
SmbGrants ==
    {[share |-> "s", who |-> "u", whole |-> TRUE, read |-> TRUE, write |-> TRUE, deny |-> FALSE],
     [share |-> "s", who |-> "group", whole |-> FALSE, read |-> FALSE, write |-> FALSE, deny |-> TRUE]}

(* Settings: the administrator's screen and the emergency door; patches of *)
(* every section, some refused; a fresh document and one with every field  *)
(* set, an unusable host among them.                                       *)
Doors == [s \in {"a", "e"} |-> IF s = "a" THEN "screen" ELSE "emergency"]
OwnHost == [s \in {"a", "e"} |-> IF s = "a" THEN "h1" ELSE "h2"]
Patch(section, body) == [section |-> section, body |-> body]
PatchesSaved == {
    Patch("network", [app |-> {"h1"}]), Patch("network", [app |-> {"h2"}]),
    Patch("network", [app |-> {"h1", "h2"}, canon |-> "h2"]), Patch("network", [content |-> {"h1"}]),
    Patch("rate", [rate |-> 2]), Patch("db", [guard |-> TRUE, max |-> 1]), Patch("db", [guard |-> FALSE]),
    Patch("oidc", [sso |-> TRUE, issuer |-> TRUE, secret |-> TRUE]),
    Patch("oidc", [secret |-> FALSE, sso |-> TRUE]),
    Patch("smb", [smb |-> TRUE, iface |-> "public", open |-> TRUE]), Patch("smb", [open |-> FALSE]),
    Patch("homes", [homes |-> "d"]), Patch("security", [hard |-> 2]), Patch("thumbnail", [thumb |-> "d"])}
FreshDocument ==
    [app |-> {}, content |-> {}, canon |-> "none", rate |-> 0, guard |-> FALSE, max |-> 0,
     sso |-> FALSE, issuer |-> FALSE, public |-> FALSE, smb |-> FALSE, iface |-> "lan", open |-> FALSE,
     homes |-> "none", hard |-> 0, thumb |-> "none"]
SetDocument ==
    [FreshDocument EXCEPT !.app = {"h1", "bad"}, !.content = {"h2"}, !.canon = "h2", !.rate = 5,
                          !.guard = TRUE, !.max = 1, !.hard = 1]
Directories == [d \in {"d"} |-> "ok"]

(* Thumbnails: an image within the decode limits, and one whose header     *)
(* says it is and whose body is not.                                       *)
Images == [k \in {"a", "b"} |-> [fmt |-> "png", head |-> 1, body |-> IF k = "a" THEN 1 ELSE 3, sound |-> TRUE]]

(* ServerLife: an older and a newer release over one directory.            *)
Releases == [p \in {"p1", "p2"} |-> IF p = "p1" THEN 1 ELSE 2]

LineLevels == <<"error", "info", "info", "error", "info", "info">>
LogWindows == {[since |-> 0, until |-> 0], [since |-> 1, until |-> 0], [since |-> 3, until |-> 7]}
AuditFilters == {[actor |-> "none", event |-> "", since |-> 0, until |-> 0],
                 [actor |-> "a", event |-> "e", since |-> 2, until |-> 0]}

Sm == INSTANCE SmbSharing
        WITH Users <- {"u"}, SmShares <- {"s"}, GrantRows <- SmbGrants, TOTPBlock <- FALSE,
             SmBudget <- 1, SmFaults <- {"sync", "timeout"}, SmMaxFaults <- 1,
             AgentRestarts <- 0
St == INSTANCE Settings
        WITH Savers <- {"a", "e"}, DoorOf <- Doors, SelfHost <- OwnHost,
             StPatches <- PatchesSaved, StDocs <- {FreshDocument, SetDocument},
             GoodHost <- {"h1", "h2"}, DirState <- Directories, Bound <- {1, 2, 3},
             DefaultRate <- 1, StBudget <- 2
Lb == INSTANCE Logbook
        WITH SegMax <- 2, TotalMax <- 2, LevelOf <- LineLevels, LineKinds <- {"line"},
             Limits <- {1, 2}, Filters <- {"any", "info"}, MaxBuckets <- 4,
             Ladder <- <<1, 2, 4>>, Day <- 4, CountCeiling <- 3,
             Windows <- LogWindows, Asked <- {0, 1}, LbWrites <- 5,
             LbFaults <- {"write", "close"}, LbMaxFaults <- 1, LbCrashes <- 1,
             BackSteps <- 0
Au == INSTANCE AuditLog
        WITH AuWriters <- {"w1", "w2"}, AuActors <- {"a"}, AuEvents <- {"e"}, AuEvery <- 2,
             AuMaxRows <- 1, AuLimit <- 1, AuSpan <- 2, AuCeiling <- 4,
             AuFilters <- AuditFilters,
             AuFrames <- {[start |-> 2, width |-> 1, count |-> 1]}, AuWrites <- 3,
             AuMaxClock <- 2, AuRestarts <- 1

Parts == {"sm", "st", "ls", "th", "sl", "lb", "au"}

(* Every part starts as its own module says; a part out of focus stays in  *)
(* one of its initial states.                                              *)
Init ==
    /\ focus \in Parts
    /\ Sm!SmInit /\ (focus # "sm" => smDb.totp = {})
    /\ St!StInit /\ (focus # "st" => stDoc.rate = 0)
    /\ LsInit
    /\ ThInit /\ (focus # "th" => thAt = "a")
    /\ SlInit
    /\ Lb!LbInit
    /\ Au!AuInit

(* Only the part in focus moves.                                           *)
Only(part) ==
    /\ UNCHANGED focus
    /\ IF part = "sm" THEN TRUE ELSE UNCHANGED smVars
    /\ IF part = "st" THEN TRUE ELSE UNCHANGED stVars
    /\ IF part = "ls" THEN TRUE ELSE UNCHANGED lsVars
    /\ IF part = "th" THEN TRUE ELSE UNCHANGED thVars
    /\ IF part = "sl" THEN TRUE ELSE UNCHANGED slVars
    /\ IF part = "lb" THEN TRUE ELSE UNCHANGED lbVars
    /\ IF part = "au" THEN TRUE ELSE UNCHANGED auVars

SmbSharingStep == focus = "sm" /\ Sm!SmNext /\ Only("sm")
SettingsStep == focus = "st" /\ St!StNext /\ Only("st")
ListenerStep == focus = "ls" /\ LsNext /\ Only("ls")
ThumbnailsStep == focus = "th" /\ ThNext /\ Only("th")
ServerLifeStep == focus = "sl" /\ SlNext /\ Only("sl")
LogbookStep == focus = "lb" /\ Lb!LbNext /\ Only("lb")
AuditLogStep == focus = "au" /\ Au!AuNext /\ Only("au")

Next ==
    \/ SmbSharingStep
    \/ SettingsStep
    \/ ListenerStep
    \/ ThumbnailsStep
    \/ ServerLifeStep
    \/ LogbookStep
    \/ AuditLogStep

vars == <<focus, smVars, stVars, lsVars, thVars, slVars, lbVars, auVars>>

(* The publisher is a loop of the server, the agent one of sc-smb-agent:    *)
(* neither stops while it has something to do.                              *)
Fairness == WF_smVars(focus = "sm" /\ Sm!SmPublisher) /\ WF_smVars(focus = "sm" /\ Sm!SmAgentLoop)

Spec == Init /\ [][Next]_vars /\ Fairness

(***************************** Properties **********************************)

(* Every part keeps the shape its module declares.                         *)
ServerTypeOK ==
    /\ (focus = "sm" => Sm!SmTypeOK)
    /\ (focus = "st" => St!StTypeOK)
    /\ (focus = "ls" => LsTypeOK)
    /\ (focus = "th" => ThTypeOK)
    /\ (focus = "sl" => SlTypeOK)
    /\ (focus = "lb" => Lb!LbTypeOK)
    /\ (focus = "au" => Au!AuTypeOK)

(* What runs is what is stored: the daemon serves exactly the accounts and  *)
(* the shares that were published and reported as applied, and no published *)
(* file is forgotten (SmbSharing); between saves the settings in force are  *)
(* the stored ones and can be served, a database is blocked only while      *)
(* somebody can let it go (Settings); the probe file names the address the  *)
(* server answers on and the host it serves, when no two saves crossed on   *)
(* it (Listener); a thumbnail service the settings replaced is let go: its  *)
(* Close and the requests it waits for never wait on each other             *)
(* (Thumbnails); and a screen's save never strands the administrator who    *)
(* made it (checkLockout).                                                  *)
RunsWhatIsStored ==
    /\ [](focus = "sm" => Sm!PublishedExactly /\ Sm!NoChangeForgotten)
    /\ [](focus = "st" => St!LiveIsStored /\ St!LiveIsServable /\ St!BlockHasOwner)
    /\ [](focus = "ls" => ProbeLeads)
    /\ [](focus = "th" => CloseNotStuck)
    /\ St!NotLockedOut

(* Nothing is used outside its life: a database is open only under the      *)
(* directory's lock and has the shape its reader knows, and what Close      *)
(* waits for still has what it uses (ServerLife); a client never meets a    *)
(* second certificate and a torn key pair never keeps the server down       *)
(* (Listener); a closed thumbnail pool leaves no process, a lease holds its *)
(* pool, and the caches tell the truth about their file (Thumbnails).       *)
LivesEndInOrder ==
    /\ (focus = "sl" => LockCoversFiles)
    /\ (focus = "sl" => ServesOwnSchema)
    /\ (focus = "sl" => NoUseAfterClose)
    /\ (focus = "ls" => IdentityKept)
    /\ (focus = "ls" => TornPairRecovers)
    /\ (focus = "th" => NoWorkerOutlivesPool)
    /\ (focus = "th" => LeaseHoldsPool)
    /\ (focus = "th" => CachesAreHonest)

(* Both logs lose only their oldest entries and keep to their limits, a     *)
(* reader that pages while they are written, rotated and pruned sees every  *)
(* entry that stayed, once, newest first, and a graph counts its window     *)
(* (Logbook, AuditLog).                                                     *)
LogsHonest ==
    /\ (focus = "lb" => Lb!PagesHonest)
    /\ (focus = "lb" => Lb!RetentionExact)
    /\ (focus = "lb" => Lb!GraphCovers)
    /\ (focus = "au" => Au!RetentionKeepsNewest)
    /\ (focus = "au" => Au!PagesComplete)
    /\ (focus = "au" => Au!GraphCountsWindow)

(* Whatever requests to the agent are lost, the daemon ends up serving what *)
(* the database says, unless an apply was refused before it changed         *)
(* anything: the poll finds what a push did not deliver (publish.go push,   *)
(* main.go poll).                                                           *)
Converges == focus = "sm" => Sm!Converges
=============================================================================
