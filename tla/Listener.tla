------------------------------ MODULE Listener ------------------------------
(***************************************************************************)
(* The process around the HTTP listener: the address it starts on, the     *)
(* self-signed pair it presents, the live move to a newly saved address    *)
(* and the probe snapshot the healthcheck dials: internal/server           *)
(* (listener.go, tls.go, probe.go, server.go), bootstrap/preflight,        *)
(* db/instance and the bind part of internal/server/settings.              *)
(*                                                                         *)
(* An address is its host: the port plays no part in the pair. A key and a *)
(* certificate carry the generation they were made in and the time they    *)
(* were written; the crash that matters falls between the two renames.     *)
(***************************************************************************)
EXTENDS Naturals, FiniteSets

CONSTANTS LsSavers,                 \* requests that save settings
          LsHosts, DefaultHost,     \* bind hosts, the compiled-in one
          LsNames,                  \* application hosts
          Pinned,                   \* whether the command line names the address
          LsCrashes, LsSaves        \* how often the process dies and settings are saved

VARIABLES lsBind, lsWant,    \* the stored bind host and the stored application host
          lsName,    \* the first live application host
          lsProc,    \* "down", "ensure", "cert", "start", "up" or "refused"
          lsHost,    \* the host this process was started with
          lsBound,   \* Coordinator.boundAddr
          lsAddr,    \* the manager's current generation
          lsKey, lsCert,            \* the files
          lsGen,     \* how many pairs were generated
          lsServed,  \* the generation of the pair this process presents, and the first ever presented
          lsProbe,   \* the probe file
          lsSave,    \* saver -> where its Load is, what it read, and whether that changed since
          lsCrossed, \* whether the probe file was last written from a read that had changed since
          lsDied, lsLeft

lsFiles == <<lsKey, lsCert, lsGen, lsServed>>
lsVars == <<lsBind, lsWant, lsName, lsProc, lsHost, lsBound, lsAddr, lsKey, lsCert, lsGen, lsServed, lsProbe, lsSave,
            lsCrossed, lsDied, lsLeft>>

NoFile == [gen |-> 0, at |-> 0, names |-> {}]
NoProbe == [addr |-> "none", name |-> "none"]
LsIdle == [pc |-> "idle", addr |-> "none", name |-> "none", seen |-> NoProbe, crossed |-> FALSE]

(***************************************************************************)
(* The pair                                                                *)
(***************************************************************************)

\* "nothing", "torn", "bad" or "pair". A missing key is reported as nothing there, with or
\* without a certificate; a key alone, or one newer than its certificate, is a torn publish.
PairOf(key, cert) == IF key.at > cert.at THEN "torn" ELSE IF key.gen = cert.gen THEN "pair" ELSE "bad"
MutLoadPair ==
    CASE lsKey = NoFile -> "nothing"
      [] lsKey # NoFile /\ lsCert = NoFile -> "bad"
      [] lsKey # NoFile /\ lsCert # NoFile -> PairOf(lsKey, lsCert)
loadPair ==
    CASE lsKey = NoFile -> "nothing"
      [] lsKey # NoFile /\ lsCert = NoFile -> "torn"
      [] lsKey # NoFile /\ lsCert # NoFile -> PairOf(lsKey, lsCert)

addNames(h) == {h, "localhost"}
coversHosts(cert, h) == h \in cert.names

firstBoot == lsCert = NoFile

\* "serve", "generate" or "refuse".
MutEnsureTLS(h) ==
    CASE loadPair = "pair" -> IF coversHosts(lsCert, h) THEN "serve" ELSE "generate"
      [] loadPair = "bad" -> "refuse"
      [] loadPair \in {"nothing", "torn"} -> "generate"
EnsureTLS(h) ==
    CASE loadPair = "pair" -> IF coversHosts(lsCert, h) THEN "serve"
                              ELSE IF firstBoot THEN "generate" ELSE "refuse"
      [] loadPair = "bad" -> "refuse"
      [] loadPair \in {"nothing", "torn"} -> "generate"

Made(n) == [gen |-> n, at |-> n, names |-> addNames(lsHost)]

(***************************************************************************)
(* Starting: preflight, the pair, the first generation                     *)
(***************************************************************************)

\* The address to bind: the stored one, unless the environment pins it.
bootAddress == IF Pinned THEN DefaultHost ELSE lsBind

\* preflight.Load takes the instance lock, so there is one process.
Preflight ==
    /\ lsProc = "down"
    /\ lsHost' = bootAddress
    /\ lsProc' = "ensure"
    /\ UNCHANGED <<lsBind, lsWant, lsName, lsBound, lsAddr, lsFiles, lsProbe, lsSave, lsCrossed, lsDied, lsLeft>>

\* writePair: the key is renamed into place first.
writePair ==
    /\ lsGen' = lsGen + 1 /\ lsKey' = Made(lsGen + 1) /\ lsProc' = "cert"
    /\ UNCHANGED <<lsCert, lsServed>>

ensureCertificate ==
    /\ lsProc = "ensure"
    /\ \/ EnsureTLS(lsHost) = "generate" /\ writePair
       \/ /\ EnsureTLS(lsHost) # "generate"
          /\ lsProc' = IF EnsureTLS(lsHost) = "serve" THEN "start" ELSE "refused"
          /\ UNCHANGED lsFiles
    /\ UNCHANGED <<lsBind, lsWant, lsName, lsHost, lsBound, lsAddr, lsProbe, lsSave, lsCrossed, lsDied, lsLeft>>

\* The second rename of the same unit.
generateTLS ==
    /\ lsProc = "cert"
    /\ lsKey' = Made(lsGen) /\ lsCert' = Made(lsGen)
    /\ lsProc' = "start"
    /\ UNCHANGED <<lsBind, lsWant, lsName, lsHost, lsBound, lsAddr, lsGen, lsServed, lsProbe, lsSave, lsCrossed, lsDied, lsLeft>>

\* The first Load has run; NewListener registers the callbacks, Serve binds and
\* publishes before it admits.
ListenerServe ==
    /\ lsProc = "start"
    /\ lsProc' = "up" /\ lsName' = lsWant /\ lsAddr' = lsHost /\ lsBound' = lsHost
    /\ lsServed' = [now |-> lsCert.gen, first |-> IF lsServed.first = 0 THEN lsCert.gen ELSE lsServed.first]
    /\ lsProbe' = [addr |-> lsHost, name |-> lsWant] /\ lsCrossed' = FALSE
    /\ UNCHANGED <<lsBind, lsWant, lsHost, lsKey, lsCert, lsGen, lsSave, lsDied, lsLeft>>

\* A requested restart, a signal or a crash, at any step; the supervisor starts the next one.
StopListening ==
    /\ lsProc \in {"ensure", "cert", "start", "up"} /\ lsDied < LsCrashes
    /\ lsProc' = "down" /\ lsDied' = lsDied + 1
    /\ lsServed' = [lsServed EXCEPT !.now = 0] /\ lsAddr' = "none"
    /\ lsSave' = [s \in LsSavers |-> LsIdle]
    /\ UNCHANGED <<lsBind, lsWant, lsName, lsHost, lsBound, lsKey, lsCert, lsGen, lsProbe, lsCrossed, lsLeft>>

\* A start that was refused stays down until somebody saves another address with the command.
SettingsCommand(h) ==
    /\ lsProc = "refused" /\ lsLeft > 0 /\ ~Pinned
    /\ lsProc' = "down" /\ lsBind' = h /\ lsLeft' = lsLeft - 1
    /\ UNCHANGED <<lsWant, lsName, lsHost, lsBound, lsAddr, lsFiles, lsProbe, lsSave, lsCrossed, lsDied>>

(***************************************************************************)
(* Saves that reach the listener                                           *)
(***************************************************************************)

LsAt(s, pc) == lsProc = "up" /\ lsSave[s].pc = pc
LsGoes(s, rec) == lsSave' = [lsSave EXCEPT ![s] = rec]

\* A save that changed what a publication in flight has read.
LsMoves(s, rec) ==
    lsSave' = [t \in LsSavers |-> IF t = s THEN rec
                                  ELSE [lsSave[t] EXCEPT !.crossed = @ \/ lsSave[t].pc \in {"probeHost", "probeBind"}]]

\* A save of the section: a bind address, a list of hosts or both are stored.
SaveSetting(s) ==
    /\ LsAt(s, "idle") /\ lsLeft > 0 /\ lsLeft' = lsLeft - 1
    /\ lsBind' \in LsHosts /\ lsWant' \in LsNames \cup {lsWant}
    /\ LsGoes(s, [LsIdle EXCEPT !.pc = "values"])
    /\ UNCHANGED <<lsName, lsProc, lsHost, lsBound, lsAddr, lsFiles, lsProbe, lsCrossed, lsDied>>

\* Load starts from the whole document.
Values(s) ==
    /\ LsAt(s, "values")
    /\ LsGoes(s, [LsIdle EXCEPT !.pc = "hosts", !.addr = lsBind, !.name = lsWant])
    /\ UNCHANGED <<lsBind, lsWant, lsName, lsProc, lsHost, lsBound, lsAddr, lsFiles, lsProbe, lsCrossed, lsDied, lsLeft>>

\* Under mu the live list is swapped; a list that changed is published.
LoadHosts(s) ==
    /\ LsAt(s, "hosts") /\ lsName' = lsSave[s].name
    /\ IF lsName' = lsName THEN LsGoes(s, [lsSave[s] EXCEPT !.pc = "bind"])
       ELSE LsMoves(s, [lsSave[s] EXCEPT !.pc = "publishHost"])
    /\ UNCHANGED <<lsBind, lsWant, lsProc, lsHost, lsBound, lsAddr, lsFiles, lsProbe, lsCrossed, lsDied, lsLeft>>

\* The end of Load, under bindMu.
LoadBind(s) ==
    /\ LsAt(s, "bind")
    /\ lsBound' = IF Pinned THEN lsBound ELSE lsSave[s].addr
    /\ LsGoes(s, IF lsBound' = lsBound THEN LsIdle ELSE [lsSave[s] EXCEPT !.pc = "move"])
    /\ UNCHANGED <<lsBind, lsWant, lsName, lsProc, lsHost, lsAddr, lsFiles, lsProbe, lsCrossed, lsDied, lsLeft>>

\* The manager binds the new address and waits for an answer before it drains the old one.
MutReplaceAddress(s) ==
    /\ LsAt(s, "move")
    /\ \/ lsAddr' = lsSave[s].addr
       \/ lsAddr' = lsAddr
    /\ LsGoes(s, LsIdle)
    /\ UNCHANGED <<lsBind, lsWant, lsName, lsProc, lsHost, lsBound, lsFiles, lsProbe, lsCrossed, lsDied, lsLeft>>
replaceAddress(s) ==
    /\ LsAt(s, "move")
    /\ \/ lsAddr' = lsSave[s].addr /\ LsMoves(s, [lsSave[s] EXCEPT !.pc = "publishBind"])
       \/ lsAddr' = lsAddr /\ LsGoes(s, LsIdle)
    /\ UNCHANGED <<lsBind, lsWant, lsName, lsProc, lsHost, lsBound, lsFiles, lsProbe, lsCrossed, lsDied, lsLeft>>

\* What is published is read without a lock over the read and the write.
publish(s) ==
    /\ lsProc = "up" /\ lsSave[s].pc \in {"publishHost", "publishBind"}
    /\ LsGoes(s, [lsSave[s] EXCEPT !.pc = IF @ = "publishHost" THEN "probeHost" ELSE "probeBind",
                                   !.seen = [addr |-> lsAddr, name |-> lsName]])
    /\ UNCHANGED <<lsBind, lsWant, lsName, lsProc, lsHost, lsBound, lsAddr, lsFiles, lsProbe, lsCrossed, lsDied, lsLeft>>

\* The file is replaced; after the hosts, Load has its address still to apply.
WriteProbe(s) ==
    /\ lsProc = "up" /\ lsSave[s].pc \in {"probeHost", "probeBind"}
    /\ lsProbe' = lsSave[s].seen /\ lsCrossed' = lsSave[s].crossed
    /\ LsGoes(s, IF lsSave[s].pc = "probeBind" THEN LsIdle
                 ELSE [lsSave[s] EXCEPT !.pc = "bind", !.seen = NoProbe, !.crossed = FALSE])
    /\ UNCHANGED <<lsBind, lsWant, lsName, lsProc, lsHost, lsBound, lsAddr, lsFiles, lsDied, lsLeft>>

LsInit ==
    /\ lsBind = DefaultHost /\ lsWant = "none" /\ lsName = "none" /\ lsProc = "down" /\ lsHost = DefaultHost
    /\ lsBound = "none" /\ lsAddr = "none"
    /\ lsKey = NoFile /\ lsCert = NoFile /\ lsGen = 0 /\ lsServed = [now |-> 0, first |-> 0]
    /\ lsProbe = NoProbe /\ lsCrossed = FALSE
    /\ lsSave = [s \in LsSavers |-> LsIdle] /\ lsDied = 0 /\ lsLeft = LsSaves

LsNext ==
    \/ Preflight \/ ensureCertificate \/ generateTLS \/ ListenerServe \/ StopListening
    \/ \E h \in LsHosts : SettingsCommand(h)
    \/ \E s \in LsSavers : \/ SaveSetting(s) \/ Values(s) \/ LoadHosts(s) \/ LoadBind(s)
                           \/ replaceAddress(s) \/ publish(s) \/ WriteProbe(s)

LsSpec == LsInit /\ [][LsNext]_lsVars

LsTypeOK ==
    /\ lsBind \in LsHosts /\ {lsWant, lsName} \subseteq LsNames \cup {"none"} /\ lsCrossed \in BOOLEAN
    /\ lsProc \in {"down", "ensure", "cert", "start", "up", "refused"}
    /\ lsKey.gen \in 0..LsCrashes + 1 /\ lsCert.gen \in 0..LsCrashes + 1
    /\ lsDied \in 0..LsCrashes /\ lsLeft \in 0..LsSaves

LsQuiet == lsProc = "up" /\ \A s \in LsSavers : LsAt(s, "idle")

\* A client that pinned the certificate it was shown never meets another one, whatever was saved
\* and wherever the process died.
IdentityKept == lsServed.now # 0 => lsServed.now = lsServed.first

\* A crash alone never keeps the server down: a start is refused only over a whole pair that does
\* not cover the host, never over what a crash between the two renames left.
TornPairRecovers == lsProc = "refused" => loadPair = "pair" /\ ~coversHosts(lsCert, lsHost)

\* Between saves the probe file names the address the server answers on and the host it serves,
\* unless the last of them to write it had read before another one moved the server.
ProbeLeads == LsQuiet /\ ~lsCrossed => lsProbe = [addr |-> lsAddr, name |-> lsName]

\* v0.15.1.md: a change of the address or the hosts refreshes the snapshot, whoever else saves.
ProbeNeverLags == LsQuiet => lsProbe = [addr |-> lsAddr, name |-> lsName]

\* values.go: whatever the screen writes governs the server immediately and across restarts.
BindSurvivesRestart == lsProc # "refused"

\* A bind that fails leaves the server where it was, and saving the address again asks again.
BoundIsCurrent == LsQuiet => lsBound = lsAddr
=============================================================================
