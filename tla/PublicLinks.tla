----------------------------- MODULE PublicLinks -----------------------------
(***************************************************************************)
(* One public share link: its owner creates, edits and deletes it          *)
(* (internal/files/link.go), visitors unlock it, browse, download, zip and *)
(* drop files through it (internal/files/linkaccess.go,                    *)
(* internal/shares/public.go), over the share_link row                     *)
(* (internal/db/state/link.go).  A visitor's request works on the row it   *)
(* read when it began; what it checks later is the file system and, for    *)
(* the download count, one guarded UPDATE.  A password is a number, its    *)
(* hash the same number; 0 is no password.  The attempt limiter in front of *)
(* Unlock only refuses, which changes nothing here.                        *)
(***************************************************************************)
EXTENDS Integers, FiniteSets, Sequences

CONSTANTS
    Visits,         \* concurrent requests
    MaxObj,         \* how many folders are ever put at the link's path
    MaxPw,          \* passwords ever set
    LinkSpecs,      \* what an owner asks of a new link
    BirthTimes,     \* the file system keeps birth times
    Surfaces,       \* what visitors ask for: an operation and where
    Patches,        \* what an owner asks of an update, one field each
    MaxClock        \* bound on time

VARIABLES
    lkRow,          \* the share_link row, or NoLink
    lkObj,          \* identity of the folder at the path, 0 when there is none
    lkGen,          \* identities used so far
    lkFile,         \* who wrote the drop name in the folder, or NoFile
    lkGrant,        \* the owner's permissions now, at the target and its child
    lkClock,
    lkCookie,       \* the unlock cookie of a visitor's browser, or NoTicket
    lkReq,          \* requests in flight
    lkSent,         \* downloads served
    lkTopCap        \* largest cap the link had, Unlimited included

lkVars == <<lkRow, lkObj, lkGen, lkFile, lkGrant, lkClock, lkCookie,
            lkReq, lkSent, lkTopCap>>

NoLink == [perms |-> {}]
NoFile == "none"
Unlimited == -1
Never == 0
Perms == {"Read", "Download", "Create"}
Idle == [at |-> "idle"]
NoTicket == [hash |-> 0, gave |-> 0, exp |-> 0, late |-> FALSE]

LkInit ==
    /\ lkRow = NoLink /\ lkObj = 1 /\ lkGen = 1 /\ lkFile = NoFile
    /\ lkGrant = Perms \cup {"Share"} /\ lkClock = 1
    /\ lkCookie = NoTicket /\ lkReq = [h \in Visits |-> Idle]
    /\ lkSent = 0 /\ lkTopCap = 0

Return(h) == lkReq' = [lkReq EXCEPT ![h] = Idle]
Go(h, s) == lkReq' = [lkReq EXCEPT ![h].at = s]
(* Marks every request in flight with what changed under it.               *)
Note(what) == [h \in Visits |-> IF lkReq[h] = Idle THEN Idle
                                ELSE [lkReq[h] EXCEPT !.during = @ \cup {what}]]
Wider(a, b) == IF a = Unlimited \/ b = Unlimited THEN Unlimited ELSE IF a > b THEN a ELSE b

rowVars == <<lkObj, lkGen, lkFile, lkGrant, lkClock, lkCookie, lkSent>>
visitVars == <<lkRow, lkObj, lkGen, lkFile, lkGrant, lkClock, lkCookie,
               lkSent, lkTopCap>>

------------------------------------------------------------------------------
(* The share_link statements                                               *)

LinkRow == [perms : SUBSET Perms, pw : 0 .. MaxPw, exp : 0 .. MaxClock, max : {Unlimited} \cup Nat,
            downs : Nat, pin : 0 .. MaxObj]
Insert(row) == lkRow' = row
UpdateColumn(p) ==
    lkRow' = CASE p.field = "perms" -> [lkRow EXCEPT !.perms = p.to]
               [] p.field = "pw" -> [lkRow EXCEPT !.pw = p.to]
               [] p.field = "max" -> [lkRow EXCEPT !.max = p.to]

(* One statement checks the cap and counts.                                *)
HasRoom == lkRow # NoLink /\ (lkRow.max = Unlimited \/ lkRow.downs < lkRow.max)
ConsumeDownload == HasRoom /\ lkRow' = [lkRow EXCEPT !.downs = @ + 1]

------------------------------------------------------------------------------
(* The owner                                                               *)

(* The identity is pinned unless the file system keeps no birth times.     *)
pinIdentity == IF BirthTimes THEN lkObj ELSE 0

CreateLink(spec) ==
    /\ lkRow = NoLink /\ lkTopCap = 0
    /\ "Share" \in lkGrant /\ spec.perms # {} /\ spec.perms \subseteq lkGrant
    /\ spec.exp = Never \/ spec.exp > lkClock
    /\ lkObj # 0
    /\ Insert([perms |-> spec.perms, pw |-> spec.pw, exp |-> spec.exp, max |-> spec.max,
               downs |-> 0, pin |-> pinIdentity])
    /\ lkTopCap' = spec.max
    /\ UNCHANGED <<rowVars, lkReq>>

(* Narrowing only, against the row as read and the owner's access now.     *)
UpdateLink(h, patch) ==
    /\ lkReq[h] = Idle /\ lkRow # NoLink
    /\ patch.field = "perms" => /\ patch.to \subseteq lkRow.perms
                                /\ "Share" \in lkGrant /\ patch.to \subseteq lkGrant
    /\ patch.field = "pw" => patch.to > lkRow.pw \* every password is new
    /\ lkReq' = [lkReq EXCEPT ![h] = [at |-> "update", patch |-> patch, during |-> {}]]
    /\ UNCHANGED visitVars

UpdateRow(h) ==
    LET p == lkReq[h].patch
    IN  /\ lkReq[h].at = "update"
        /\ IF lkRow = NoLink THEN Return(h) /\ UNCHANGED <<lkRow, lkTopCap>>
           ELSE /\ UpdateColumn(p)
                /\ lkTopCap' = IF p.field = "max" THEN Wider(lkTopCap, p.to) ELSE lkTopCap
                /\ lkReq' = [IF p.field = "pw" THEN Note("pw") ELSE lkReq EXCEPT ![h] = Idle]
        /\ UNCHANGED rowVars

DeleteLink ==
    /\ lkRow # NoLink
    /\ lkRow' = NoLink
    /\ UNCHANGED <<rowVars, lkReq, lkTopCap>>

------------------------------------------------------------------------------
(* What may happen around it                                               *)

(* The folder is renamed away or removed, and later another one appears.   *)
MoveTarget ==
    /\ lkObj # 0
    /\ lkObj' = 0 /\ lkFile' = NoFile
    /\ lkReq' = Note("moved")
    /\ UNCHANGED <<lkRow, lkGen, lkGrant, lkClock, lkCookie, lkSent, lkTopCap>>

NewTarget ==
    /\ lkObj = 0 /\ lkGen < MaxObj
    /\ lkObj' = lkGen + 1 /\ lkGen' = lkGen + 1
    /\ UNCHANGED <<lkRow, lkFile, lkGrant, lkClock, lkCookie, lkReq, lkSent,
                   lkTopCap>>

Revoke ==
    /\ lkGrant # {}
    /\ lkGrant' = {}
    /\ UNCHANGED <<lkRow, lkObj, lkGen, lkFile, lkClock, lkCookie, lkReq, lkSent, lkTopCap>>

Tick ==
    /\ lkClock < MaxClock
    /\ lkClock' = lkClock + 1
    /\ UNCHANGED <<lkRow, lkObj, lkGen, lkFile, lkGrant, lkCookie, lkReq,
                   lkSent, lkTopCap>>

------------------------------------------------------------------------------
(* The rules every visitor surface applies                                 *)

IsExpired(link) == link.exp # Never /\ link.exp <= lkClock
IsExhausted(link) == link.max # Unlimited /\ link.downs >= link.max
linkLive(link) == ~IsExpired(link) /\ ~IsExhausted(link)
MutLinkBase(link) == lkObj # 0
linkBase(link) == lkObj # 0 /\ (link.pin # 0 => link.pin = lkObj)

(* A link covers its own root; below it the owner's access now decides.    *)
linkChildResolved(link, need) == need \in link.perms /\ need \in lkGrant

resolveLink == lkRow # NoLink
LinkPublic == resolveLink /\ linkLive(lkRow) /\ linkBase(lkRow)
LinkStreamAt(link, sub) ==
    linkLive(link) /\ linkBase(link) /\ (sub = "child" => linkChildResolved(link, "Download"))
LinkBrowse(link, sub) ==
    linkLive(link) /\ linkBase(link) /\ (sub = "child" => linkChildResolved(link, "Read"))
LinkArchiveWalk(link, sub) ==
    /\ linkLive(link) /\ linkBase(link) /\ "Read" \in link.perms
    /\ sub = "child" => linkChildResolved(link, "Read")
linkDropDir(link) == "Create" \in link.perms /\ linkLive(link) /\ lkObj # 0

MutTicketAnyHash(t) == t.exp > lkClock
verifyTicket(t) == t.hash = lkRow.pw /\ t.exp > lkClock

------------------------------------------------------------------------------
(* Unlock: the password is verified against one read of the hash, the      *)
(* ticket is made from another.                                            *)

Unlock(h, guess) ==
    /\ lkReq[h] = Idle /\ LinkPublic /\ lkRow.pw # 0
    /\ lkReq' = [lkReq EXCEPT ![h] = [at |-> "verify", guess |-> guess, exp |-> lkRow.exp,
                                      during |-> {}]]
    /\ UNCHANGED <<lkRow, lkObj, lkGen, lkFile, lkGrant, lkClock, lkCookie, lkSent, lkTopCap>>

LinkCheckPassword(h) ==
    /\ lkReq[h].at = "verify"
    /\ IF lkRow = NoLink \/ lkRow.pw \in {0, lkReq[h].guess} THEN Go(h, "mint") ELSE Return(h)
    /\ UNCHANGED visitVars

MintTicket(h) ==
    LET q == lkReq[h]
    IN  /\ q.at = "mint"
        /\ lkCookie' = IF lkRow = NoLink \/ lkRow.pw = 0 THEN lkCookie
                       ELSE [hash |-> lkRow.pw, gave |-> q.guess,
                             exp |-> IF q.exp # Never THEN q.exp ELSE MaxClock + 1,
                             late |-> "pw" \in q.during]
        /\ Return(h)
        /\ UNCHANGED <<lkRow, lkObj, lkGen, lkFile, lkGrant, lkClock, lkSent,
                       lkTopCap>>

------------------------------------------------------------------------------
(* Download, Zip and Drop                                                  *)

(* linkFor, first half: the row, its liveness and its identity.            *)
linkFor(h, s, t) ==
    /\ lkReq[h] = Idle /\ LinkPublic
    /\ lkReq' = [lkReq EXCEPT ![h] = [at |-> "gate", op |-> s.op, sub |-> s.sub, link |-> lkRow,
                                      proof |-> t, got |-> 0, acl |-> TRUE, during |-> {}]]
    /\ UNCHANGED visitVars

(* Second half, the password, and the permission the handler asks for.     *)
unlocked(h) ==
    LET q == lkReq[h]
        need == IF q.op = "drop" THEN "Create" ELSE "Download"
        pass == \/ q.link.pw = 0
                \/ lkRow # NoLink /\ lkRow.pw # 0 /\ q.proof # NoTicket /\ verifyTicket(q.proof)
    IN  /\ q.at = "gate"
        /\ IF pass /\ need \in q.link.perms THEN Go(h, "open") ELSE Return(h)
        /\ UNCHANGED visitVars

Opened(h) == lkReq' = [lkReq EXCEPT ![h].at = "pay", ![h].got = lkObj,
                                    ![h].acl = lkReq[h].sub = "child" => lkGrant # {}]

(* Liveness and identity once more, then the file is opened.               *)
Download(h) ==
    /\ lkReq[h].at = "open" /\ lkReq[h].op = "get"
    /\ IF LinkStreamAt(lkReq[h].link, lkReq[h].sub) THEN Opened(h) ELSE Return(h)
    /\ UNCHANGED visitVars

(* The same for a folder, which needs a free archive slot; a child only    *)
(* for a link that lists.                                                  *)
ZipDownload(h) ==
    LET q == lkReq[h]
    IN  /\ q.at = "open" /\ q.op = "zip"
        /\ \/ /\ q.sub = "child" => "Read" \in q.link.perms
              /\ LinkBrowse(q.link, q.sub)
              /\ Opened(h)
           \/ Return(h)
        /\ UNCHANGED visitVars

MutNoteLinkDownload(h) ==
    LET link == lkReq[h].link
    IN  /\ lkReq[h].at = "pay"
        /\ IF lkRow # NoLink /\ ~IsExhausted(link)
           THEN lkRow' = [lkRow EXCEPT !.downs = link.downs + 1] /\ Go(h, "send")
           ELSE Return(h) /\ UNCHANGED lkRow
        /\ UNCHANGED <<rowVars, lkTopCap>>

NoteLinkDownload(h) ==
    /\ lkReq[h].at = "pay"
    /\ IF HasRoom THEN ConsumeDownload /\ Go(h, "send") ELSE Return(h) /\ UNCHANGED lkRow
    /\ UNCHANGED <<rowVars, lkTopCap>>

(* A zip walks again with every check before it reads; a stream is open.   *)
SendBody(h) ==
    LET q == lkReq[h]
        walks == q.op = "zip" => LinkArchiveWalk(q.link, q.sub)
    IN  /\ q.at = "send"
        /\ lkSent' = IF walks THEN lkSent + 1 ELSE lkSent
        /\ Return(h)
        /\ UNCHANGED <<lkRow, lkObj, lkGen, lkFile, lkGrant, lkClock, lkCookie,
                       lkTopCap>>

(* The folder is looked at by path alone; the name must be free.           *)
Drop(h) ==
    LET q == lkReq[h]
    IN  /\ q.at = "open" /\ q.op = "drop"
        /\ IF linkDropDir(q.link) /\ lkFile = NoFile
           THEN lkReq' = [lkReq EXCEPT ![h].at = "drop", ![h].got = lkObj]
           ELSE Return(h)
        /\ UNCHANGED visitVars

MutDropClobbers(h) ==
    /\ lkReq[h].at = "drop"
    /\ lkFile' = IF lkObj # 0 THEN h ELSE lkFile
    /\ Return(h)
    /\ UNCHANGED <<lkRow, lkObj, lkGen, lkGrant, lkClock, lkCookie, lkSent,
                   lkTopCap>>

(* Published without replacing, whatever the look before it said.          *)
LinkDropFile(h) ==
    /\ lkReq[h].at = "drop"
    /\ lkFile' = IF lkObj # 0 /\ lkFile = NoFile THEN h ELSE lkFile
    /\ Return(h)
    /\ UNCHANGED <<lkRow, lkObj, lkGen, lkGrant, lkClock, lkCookie, lkSent,
                   lkTopCap>>

LkNext ==
    \/ \E spec \in LinkSpecs : CreateLink(spec)
    \/ DeleteLink \/ MoveTarget \/ NewTarget \/ Revoke \/ Tick
    \/ \E h \in Visits :
        \/ UpdateRow(h) \/ LinkCheckPassword(h) \/ MintTicket(h)
        \/ unlocked(h) \/ Download(h) \/ ZipDownload(h) \/ NoteLinkDownload(h)
        \/ SendBody(h) \/ Drop(h) \/ LinkDropFile(h)
        \/ \E patch \in Patches : UpdateLink(h, patch)
        \/ \E guess \in 1 .. MaxPw : Unlock(h, guess)
        \/ \E s \in Surfaces, t \in {lkCookie, NoTicket} : linkFor(h, s, t)

LkSpec == LkInit /\ [][LkNext]_lkVars

------------------------------------------------------------------------------
LkTypeOK ==
    /\ lkRow \in LinkRow \cup {NoLink}
    /\ lkObj \in 0 .. MaxObj /\ lkGen \in 1 .. MaxObj
    /\ lkFile \in Visits \cup {NoFile} /\ lkClock \in 1 .. MaxClock

(* The cap is a cap: however many visitors hold an open stream of a link   *)
(* when the last download is granted, no more bodies are sent than the     *)
(* largest cap its owner ever set, even if the link is edited or deleted   *)
(* in between.                                                             *)
CapHolds == lkTopCap = Unlimited \/ lkSent <= lkTopCap

(* Whatever a visitor is handed is what the owner shared: the folder the   *)
(* link was made for, a child the owner may still read, and only past the  *)
(* password: by a ticket for a password the visitor gave.  The exceptions  *)
(* are what changed while that very request ran, or, for the ticket, the   *)
(* password set while the Unlock that minted it ran.                       *)
AdmittedHonestly ==
    \A h \in Visits :
      LET q == lkReq[h]
      IN  q.at \in {"pay", "send", "drop"} =>
            /\ q.link.pin # 0 /\ q.got # q.link.pin => "moved" \in q.during
            /\ q.acl
            /\ q.link.pw # 0 /\ "pw" \notin q.during
                 => q.proof.hash = q.link.pw /\ (q.proof.gave = q.link.pw \/ q.proof.late)

(* A dropped file is never replaced by another visitor's drop, however     *)
(* their look at the name and their writes interleave.                     *)
DropKeepsFirst ==
    [][lkFile # NoFile /\ lkFile' # lkFile => lkFile' = NoFile]_lkVars
=============================================================================
