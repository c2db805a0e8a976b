---------------------------- MODULE ErrorAnswers ----------------------------
(***************************************************************************)
(* What a failure becomes on each protocol: the one sentinel table         *)
(* (internal/server/errors.go), its classifier (internal/server/apierr)    *)
(* and the four renderings of a class - native REST, native WebDAV, which  *)
(* reads the sentinels itself, Nextcloud's WebDAV and its OCS envelope.    *)
(* An error is the sentinel at the end of its chain; an unknown one is     *)
(* whatever no table names. Messages are left out.                         *)
(***************************************************************************)
EXTENDS Naturals, FiniteSets, TLC

VARIABLES eaErr, eaHidden, eaAnswer   \* the failure, its visibility, and what each surface answered

eaVars == <<eaErr, eaHidden, eaAnswer>>

(***************************************************************************)
(* The sentinel table: error -> class                                      *)
(***************************************************************************)

coreSentinels ==
    [denied |-> "denied", absent |-> "not found", exists |-> "exists", notEmpty |-> "not empty",
     crossShare |-> "conflict", trashDisabled |-> "conflict", conflict |-> "conflict",
     precondition |-> "precondition", unprocessable |-> "unprocessable", homeOverlap |-> "unprocessable",
     quotaExceeded |-> "no space", noSpace |-> "no space", shareBroken |-> "share unavailable", linkExpired |-> "gone"]

authSentinels ==
    [rateLimited |-> "rate limited", accountDisabled |-> "account disabled", secondFactor |-> "auth required",
     credentials |-> "auth invalid", lastAdmin |-> "last admin", weakPassword |-> "weak password",
     nameTaken |-> "name taken", nameInvalid |-> "unprocessable", noAccount |-> "not found", linkTaken |-> "conflict",
     noLink |-> "not found", flowUnknown |-> "flow unknown", flowPending |-> "flow pending",
     flowApproved |-> "flow approved", flowTooSoon |-> "flow too soon", noKeyRing |-> "internal"]

uploadSentinels ==
    [destMissing |-> "not found", noSession |-> "not found", sessionExpired |-> "gone", sessionState |-> "conflict",
     offsetConflict |-> "conflict", aliasTaken |-> "conflict", checksum |-> "unprocessable", incomplete |-> "unprocessable",
     chunkTooSmall |-> "unprocessable", badRequest |-> "malformed", tooLarge |-> "body too large",
     fragmented |-> "limit exceeded", exhausted |-> "resource exhausted", cacheFull |-> "resource exhausted",
     noCache |-> "subsystem unavailable"]

previewSentinels ==
    [notArchive |-> "unprocessable", unsupported |-> "not implemented", imageTooLarge |-> "limit exceeded",
     decode |-> "unprocessable", workerBusy |-> "subsystem unavailable", workerDied |-> "subsystem unavailable",
     poolClosed |-> "subsystem unavailable", protocol |-> "internal"]

storeSentinels == [writesBlocked |-> "subsystem unavailable", grantMalformed |-> "unprocessable", grantExists |-> "conflict"]
oidcSentinels == [discovery |-> "oidc provider unavailable", provider |-> "oidc provider unavailable", tokenVerify |-> "auth invalid"]
setupSentinels == [setupClosed |-> "setup complete", setupNotIssued |-> "setup expired", setupToken |-> "setup invalid token"]

errorTable ==
    coreSentinels @@ authSentinels @@ uploadSentinels @@ previewSentinels @@ storeSentinels @@ oidcSentinels @@ setupSentinels

\* Failures outside the table: a path Nextcloud's parser refused, a lock another client holds, anything else.
Unlisted == {"badPath", "locked", "unknown"}
Errors == DOMAIN errorTable \cup Unlisted

\* A denial stays one.
MutApplyVisibility(class, hidden) == IF hidden /\ class = "not found" THEN "hidden" ELSE class

\* Denied and absent become one class where the caller must not learn which.
applyVisibility(class, hidden) == IF hidden /\ class \in {"denied", "not found"} THEN "hidden" ELSE class

\* No guess is made of an error no table names.
Classify(e, hidden) == applyVisibility(IF e \in DOMAIN errorTable THEN errorTable[e] ELSE "internal", hidden)

(***************************************************************************)
(* The four renderings                                                     *)
(***************************************************************************)

restTable ==
    [c \in {"malformed"} |-> 400] @@ [c \in {"auth required", "auth invalid", "setup invalid token"} |-> 401]
    @@ [c \in {"denied", "account disabled"} |-> 403] @@ [c \in {"hidden", "not found", "flow unknown"} |-> 404]
    @@ [c \in {"conflict", "exists", "not empty", "last admin", "name taken", "setup complete"} |-> 409]
    @@ [c \in {"gone", "setup expired"} |-> 410] @@ ("precondition" :> 412) @@ ("body too large" :> 413)
    @@ [c \in {"unprocessable", "limit exceeded", "weak password"} |-> 422] @@ ("locked" :> 423)
    @@ [c \in {"resource exhausted", "rate limited", "flow too soon"} |-> 429] @@ ("internal" :> 500)
    @@ ("not implemented" :> 501) @@ ("bad gateway" :> 502) @@ ("no space" :> 507)
    @@ [c \in {"share unavailable", "subsystem unavailable", "oidc provider unavailable"} |-> 503]
    @@ ("flow pending" :> 202) @@ ("flow approved" :> 200)

\* The class also decides the code the client branches on; it is one per class, but for the two that must look alike.
REST(class) == <<restTable[class], IF class = "hidden" THEN "not found" ELSE class>>

\* Native WebDAV reads the sentinels, whoever asks.
StatusOf(e) ==
    CASE e = "locked" -> 423
      [] e = "precondition" -> 412
      [] e = "absent" -> 404
      [] e = "denied" -> 403
      [] e = "exists" -> 405
      [] e \in {"notEmpty", "conflict", "crossShare"} -> 409
      [] e \in {"noSpace", "quotaExceeded"} -> 507
      [] e = "shareBroken" -> 503
      [] OTHER -> 500

\* A backing that went away reads as a file that is not there.
MutDavStatusOf(class) ==
    CASE class \in {"hidden", "not found", "gone", "share unavailable"} -> 404
      [] class = "denied" -> 403
      [] class \in {"auth required", "auth invalid", "account disabled"} -> 401
      [] OTHER -> 500

davStatusOf(class) ==
    CASE class \in {"hidden", "not found", "gone"} -> 404
      [] class = "denied" -> 403
      [] class \in {"auth required", "auth invalid", "account disabled"} -> 401
      [] class \in {"conflict", "not empty"} -> 409
      [] class = "exists" -> 405
      [] class = "precondition" -> 412
      [] class = "locked" -> 423
      [] class = "no space" -> 507
      [] class \in {"malformed", "unprocessable"} -> 400
      [] class \in {"body too large", "limit exceeded"} -> 413
      [] class \in {"rate limited", "resource exhausted", "share unavailable", "subsystem unavailable"} -> 503
      [] class = "not implemented" -> 501
      [] OTHER -> 500

ocsErrorOf(class) ==
    CASE class \in {"hidden", "not found", "gone"} -> 404
      [] class = "denied" -> 403
      [] class \in {"auth required", "auth invalid", "account disabled"} -> 997
      [] class \in {"malformed", "unprocessable", "conflict", "exists", "not empty", "precondition",
                    "weak password", "name taken"} -> 400
      [] OTHER -> 999

\* The transport status of an envelope's code, in the second version of the protocol.
HTTPStatus(code) == IF code = 997 THEN 401 ELSE IF code = 999 THEN 500 ELSE code

Answers(e, hidden) ==
    LET class == Classify(e, hidden)
    IN [rest |-> REST(class), dav |-> <<StatusOf(e), "">>, nextcloud |-> <<davStatusOf(class), "">>,
        ocs |-> <<HTTPStatus(ocsErrorOf(class)), "">>]

EaInit == /\ eaErr \in Errors /\ eaHidden \in BOOLEAN
          /\ eaAnswer = Answers(eaErr, eaHidden)

\* The next request fails in some other way.
Fail ==
    /\ eaErr' \in Errors /\ eaHidden' \in BOOLEAN
    /\ eaAnswer' = Answers(eaErr', eaHidden')

EaNext == Fail
EaSpec == EaInit /\ [][EaNext]_eaVars

EaTypeOK == eaErr \in Errors /\ \A s \in DOMAIN eaAnswer : eaAnswer[s][1] \in 200..599

\* Two failures in a row that differ only in being denied or absent cannot be told apart by a caller who
\* may not know the resource exists, on REST, on Nextcloud's WebDAV and in its OCS envelope, status and
\* code alike (applyVisibility; "The two that must be indistinguishable" in rest.go).
HiddenAlike ==
    [][(eaHidden /\ eaHidden' /\ {eaErr, eaErr'} = {"denied", "absent"}) =>
          \A s \in {"rest", "nextcloud", "ocs"} : eaAnswer[s] = eaAnswer'[s]]_eaVars

\* The same of the native WebDAV mount, whose StatusOf says "Absence and denial answer the same"
\* and answers 404 to one and 403 to the other.
DavHidesAlike ==
    [][{eaErr, eaErr'} = {"denied", "absent"} => eaAnswer["dav"] = eaAnswer'["dav"]]_eaVars

\* A sync client deletes its copy of what answers 404 or 410: no surface says so of a failure that is
\* not an absence, an expiry, or a denial that must look like one (StatusOf's "a sync client that reads
\* 404 deletes its local copy").
NoFalseAbsence ==
    \A s \in DOMAIN eaAnswer :
        eaAnswer[s][1] \in {404, 410} =>
            eaErr \in {"denied", "absent", "noAccount", "noLink", "destMissing", "noSession", "flowUnknown",
                       "linkExpired", "sessionExpired", "setupNotIssued"}

\* A request Nextcloud's parser refused is the client's mistake, not a fault of the server; ErrBadPath is in
\* no table, so it is answered 500.
MalformedIsRefused == eaErr = "badPath" => eaAnswer["nextcloud"][1] < 500

=============================================================================
