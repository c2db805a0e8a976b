---------------------------- MODULE VirtualPaths ----------------------------
(***************************************************************************)
(* How a path on the wire becomes a place on a share, and how a place is   *)
(* spelled back to the client: internal/fs/vfs/path.go, fs/pathnames,      *)
(* files/resolve.go, dav/path.go and nextcloud/davpath.go.                 *)
(*                                                                         *)
(* A name is a record: its text, the form its bytes are in (composed NFC,  *)
(* decomposed NFD, a legacy code page, or the Latin-1 reading of such      *)
(* bytes) and the number of a " (n)" suffix. What the name tables look at  *)
(* is the kind of the text. A segment on the wire is a name with the way   *)
(* it was escaped. The client walks: it takes an address the server gave   *)
(* it, or one it made up, and asks for it.                                 *)
(***************************************************************************)
EXTENDS Naturals, Sequences, SequencesExt, FiniteSets, FiniteSetsExt

CONSTANTS KindOf,        \* text -> "plain", "dot", "empty", "reserved", "device" or "long"
          VpTrees,       \* the trees a share can hold: sets of <<share, components>>
          VpGrantSets,   \* the grants an account can have, in the evaluator's order
          ShareName,     \* share -> its name
          AskSegments,   \* the segments a client can make up
          PathComponents, UniqueNameBound, CharsetSample

VARIABLES vpGrants,  \* the account's grants
          vpDisk,    \* what is on the shares
          vpHand,    \* the address in the client's hand and what it was given for
          vpAt,      \* where the last request was resolved to
          vpLeft     \* how many more requests

vpVars == <<vpGrants, vpDisk, vpHand, vpAt, vpLeft>>

Name(t, f, n) == [t |-> t, f |-> f, n |-> n]
Refused == [ok |-> FALSE, path |-> <<>>]
Ok(p) == [ok |-> TRUE, path |-> p]
Nowhere == [ok |-> FALSE, share |-> 0, path |-> <<>>, perms |-> {}, self |-> <<>>, front |-> "dav"]
NoHand == [segs |-> <<>>, front |-> "dav", from |-> "none", share |-> 0, path |-> <<>>]

(***************************************************************************)
(* Names: fs/pathnames and the tables of fs/vfs/path.go                    *)
(***************************************************************************)

IsNormalized(c) == c.f \in {"nfc", "latin1"}

\* One code page for a whole path: there have to be enough bytes for the detector to say.
Charset(comps) == IF Len(SelectSeq(comps, LAMBDA c : c.f = "legacy")) >= CharsetSample
                  THEN "nfc" ELSE "latin1"

Decode(c, enc) == IF c.f = "legacy" THEN [c EXCEPT !.f = enc] ELSE [c EXCEPT !.f = IF @ = "nfd" THEN "nfc" ELSE @]

Components(comps) == [i \in DOMAIN comps |-> Decode(comps[i], Charset(comps))]
Normalize(c) == Decode(c, Charset(<<c>>))

IsReservedName(c) == KindOf[c.t] = "reserved"
isWindowsDeviceName(c) == KindOf[c.t] = "device" /\ c.n = 1

validateExisting(c) == KindOf[c.t] \in {"plain", "device"}
validateCreatable(c, rejectReserved) ==
    /\ validateExisting(c) \/ (IsReservedName(c) /\ ~rejectReserved)
    /\ ~isWindowsDeviceName(c)

\* Split first, normalize after, validate what normalizing made.
MutSplitValidated(comps) ==
    IF Len(comps) > PathComponents \/ \E i \in DOMAIN comps : ~validateExisting(comps[i]) THEN Refused
    ELSE Ok(comps)
splitValidated(comps) ==
    LET norm == Components(comps)
    IN IF Len(comps) > PathComponents \/ \E i \in DOMAIN norm : ~validateExisting(norm[i]) THEN Refused
       ELSE Ok(norm)

ParseVpath(comps) == splitValidated(comps)
Label(vpath) == Head(vpath)
Rest(vpath) == Tail(vpath)

push(path, c) == IF Len(path) >= PathComponents THEN Refused ELSE Ok(Append(path, c))
Join(path, c) == IF validateCreatable(Normalize(c), TRUE) THEN push(path, Normalize(c)) ELSE Refused
JoinExisting(path, c) == IF validateExisting(c) THEN push(path, c) ELSE Refused

NewVpath(label, rest) == IF validateExisting(label) THEN ParseVpath(<<label>> \o rest) ELSE Refused

Under(p, other) == IsPrefix(other, p)

(***************************************************************************)
(* The account's roots                                                     *)
(***************************************************************************)

Covers(g, share, path) == g.share = share /\ IsPrefix(g.sub, path)

\* What the rule of Permissions.tla gives where no grant denies.
Effective(share, path) ==
    UNION {vpGrants[i].allow : i \in {j \in DOMAIN vpGrants : Covers(vpGrants[j], share, path)}}

GeneratedRootLabel(share) == Name("generated", "nfc", share)

BaseLabel(g) == IF g.label # <<>> THEN Head(g.label)
                ELSE IF g.sub # <<>> THEN Last(g.sub) ELSE GeneratedRootLabel(g.share)

\* One root per grant that lets the account read; a base that came up before is numbered.
Roots ==
    LET shown == SelectSeq(vpGrants, LAMBDA g : "read" \in g.allow)
        seen(i) == Cardinality({j \in 1..i : BaseLabel(shown[j]) = BaseLabel(shown[i])})
    IN [i \in DOMAIN shown |->
          [share |-> shown[i].share, sub |-> shown[i].sub,
           label |-> IF seen(i) > 1 THEN [BaseLabel(shown[i]) EXCEPT !.n = seen(i)] ELSE BaseLabel(shown[i])]]

\* The share's own name stands for a label nobody chose.
labelledRoots ==
    [i \in DOMAIN Roots |->
       [Roots[i] EXCEPT !.label = IF @ = GeneratedRootLabel(Roots[i].share)
                                  THEN Name(ShareName[Roots[i].share], "nfc", 1) ELSE @]]

rootFor(label) == {i \in DOMAIN labelledRoots :
                     /\ labelledRoots[i].label = label
                     /\ \A j \in 1..(i - 1) : labelledRoots[j].label # label}

joinSubpath(sub, rest) ==
    LET full == sub \o splitValidated(rest).path
    IN IF (\E i \in DOMAIN sub : ~validateExisting(sub[i])) \/ ~splitValidated(rest).ok
          \/ Len(full) > PathComponents
       THEN Refused ELSE Ok(full)

\* Outside every grant and missing from the disk are one answer; only a label that matched can be denied.
Resolve(vpath, need) ==
    IF vpath = <<>> \/ rootFor(Label(vpath)) = {} THEN Nowhere
    ELSE LET r == labelledRoots[CHOOSE i \in rootFor(Label(vpath)) : TRUE]
             full == joinSubpath(r.sub, Rest(vpath))
         IN IF ~full.ok \/ need \notin Effective(r.share, full.path) THEN Nowhere
            ELSE [Nowhere EXCEPT !.ok = TRUE, !.share = r.share, !.path = full.path,
                                 !.perms = Effective(r.share, full.path)]

\* A walk may go down and never up or sideways, and may lose permissions and never gain any.
ResolveUnder(parent, p, need) ==
    LET effective == Effective(parent.share, p) \intersect parent.perms
    IN IF ~Under(p, parent.path) \/ need \notin parent.perms \/ need \notin effective THEN Nowhere
       ELSE [parent EXCEPT !.path = p, !.perms = effective]

componentsPrefix(sub, p) == IsPrefix(sub, p)

\* The deepest root that holds the path names it, with the root's own subpath taken off the front.
MutVpathFor(share, p) ==
    LET holds == {i \in DOMAIN labelledRoots :
                    labelledRoots[i].share = share /\ componentsPrefix(labelledRoots[i].sub, p)}
    IN IF holds = {} THEN Refused
       ELSE NewVpath(labelledRoots[Min(holds)].label, p)
VpathFor(share, p) ==
    LET holds == {i \in DOMAIN labelledRoots :
                    labelledRoots[i].share = share /\ componentsPrefix(labelledRoots[i].sub, p)}
        depth == Max({Len(labelledRoots[i].sub) : i \in holds})
        best == Min({i \in holds : Len(labelledRoots[i].sub) = depth})
    IN IF holds = {} THEN Refused
       ELSE NewVpath(labelledRoots[best].label, SubSeq(p, depth + 1, Len(p)))

(***************************************************************************)
(* The wire                                                                *)
(***************************************************************************)

Plain(c) == [name |-> c, esc |-> "none"]
unescapeSegment(s) == s.esc # "broken"
checkSegment(c, esc) == esc \notin {"slash", "nul"} /\ KindOf[c.t] # "dot"

\* The native mount: empty segments vanish, and what is left is normalized and checked again.
SplitPath(segs) ==
    LET kept == SelectSeq(segs, LAMBDA s : KindOf[s.name.t] # "empty")
        comps == Components([i \in DOMAIN kept |-> kept[i].name])
    IN IF \E i \in DOMAIN kept : ~unescapeSegment(kept[i]) \/ ~checkSegment(comps[i], kept[i].esc)
       THEN Refused ELSE Ok(comps)

\* The Nextcloud mount: doubled slashes fold, nothing is normalized, what is odd is refused.
collapseSlashes(segs) == SelectSeq(segs, LAMBDA s : KindOf[s.name.t] # "empty")
splitPath(segs) ==
    LET kept == collapseSlashes(segs)
    IN IF \E i \in DOMAIN kept : ~unescapeSegment(kept[i]) \/ ~checkSegment(kept[i].name, kept[i].esc)
       THEN Refused ELSE Ok([i \in DOMAIN kept |-> kept[i].name])

\* Which tree a request addresses: the files below an account segment, or the older mount without one.
ParseTarget(front, segs) ==
    IF front = "files" THEN splitPath(segs)
    ELSE IF front = "webdav" THEN splitPath(segs) ELSE Refused

Parse(front, segs) ==
    LET comps == IF front = "dav" THEN SplitPath(segs) ELSE ParseTarget(front, segs)
    IN IF comps.ok THEN ParseVpath(comps.path) ELSE Refused

EncodeHref(comps) == [i \in DOMAIN comps |-> [name |-> comps[i], esc |-> "percent"]]
Href(comps) == [i \in DOMAIN comps |-> [name |-> comps[i], esc |-> "percent"]]
\* A response answers under the prefix the request used.
Address(front, comps) == IF front = "dav" THEN EncodeHref(comps) ELSE Href(comps)

(***************************************************************************)
(* The client's walk                                                       *)
(***************************************************************************)

VpInit ==
    /\ vpGrants \in VpGrantSets /\ vpDisk \in VpTrees
    /\ vpHand = NoHand /\ vpAt = Nowhere /\ vpLeft = 3

\* The top level: the labels of the account's roots.
ListRoots ==
    /\ \E i \in DOMAIN labelledRoots, front \in {"dav", "files", "webdav"} :
          vpHand' = [segs |-> Address(front, <<labelledRoots[i].label>>), front |-> front, from |-> "roots",
                     share |-> labelledRoots[i].share, path |-> labelledRoots[i].sub]
    /\ vpAt' = Nowhere /\ UNCHANGED <<vpGrants, vpDisk, vpLeft>>

\* A path of the client's own making.
Ask ==
    /\ vpHand = NoHand
    /\ \E n \in 1..2 : \E segs \in [1..n -> AskSegments], front \in {"dav", "files"} :
          vpHand' = [NoHand EXCEPT !.segs = segs, !.front = front, !.from = "client"]
    /\ vpAt' = Nowhere /\ UNCHANGED <<vpGrants, vpDisk, vpLeft>>

Follow ==
    /\ vpHand # NoHand /\ vpLeft > 0 /\ vpLeft' = vpLeft - 1
    /\ LET vpath == Parse(vpHand.front, vpHand.segs)
       IN vpAt' = IF vpath.ok
                  THEN [Resolve(vpath.path, "read") EXCEPT !.self = vpath.path, !.front = vpHand.front]
                  ELSE Nowhere
    /\ UNCHANGED <<vpGrants, vpDisk, vpHand>>

Children == {e[2] : e \in {d \in vpDisk : /\ d[1] = vpAt.share /\ Len(d[2]) = Len(vpAt.path) + 1
                                          /\ Under(d[2], vpAt.path) /\ ~IsReservedName(Last(d[2]))}}

\* A listing: a member's address is the request's own path with the name on disk behind it.
Propfind ==
    /\ vpAt.ok
    /\ \E p \in Children :
          /\ JoinExisting(vpAt.path, Last(p)).ok
          /\ ResolveUnder(vpAt, p, "read").ok
          /\ vpHand' = [segs |-> Address(vpAt.front, Append(vpAt.self, Last(p))), front |-> vpAt.front,
                        from |-> "listing", share |-> vpAt.share, path |-> p]
    /\ UNCHANGED <<vpGrants, vpDisk, vpAt, vpLeft>>

\* A search hit, a recent file, a link: an address built from the place alone.
Hit ==
    /\ \E d \in vpDisk :
          /\ "read" \in Effective(d[1], d[2])
          /\ \A i \in DOMAIN d[2] : ~IsReservedName(d[2][i])
          /\ VpathFor(d[1], d[2]).ok
          /\ vpHand' = [segs |-> Address("dav", VpathFor(d[1], d[2]).path), front |-> "dav",
                        from |-> "hit", share |-> d[1], path |-> d[2]]
    /\ vpAt' = Nowhere /\ UNCHANGED <<vpGrants, vpDisk, vpLeft>>

\* A recursive walk below a resolution: each member is joined on and narrowed.
Descend ==
    /\ vpAt.ok
    /\ \E d \in vpDisk : /\ d[1] = vpAt.share /\ JoinExisting(Front(d[2]), Last(d[2])).ok
                         /\ ResolveUnder(vpAt, d[2], "read").ok
                         /\ vpAt' = [ResolveUnder(vpAt, d[2], "read") EXCEPT
                                        !.self = @ \o SubSeq(d[2], Len(vpAt.path) + 1, Len(d[2]))]
    /\ vpHand' = NoHand /\ UNCHANGED <<vpGrants, vpDisk, vpLeft>>

\* "Keep both": the next free numbered name beside a taken one.
uniqueSiblingName(share, p) ==
    LET free == {n \in 2..(UniqueNameBound - 1) :
                   LET c == Join(Front(p), [Last(p) EXCEPT !.n = n]) IN c.ok /\ <<share, c.path>> \notin vpDisk}
    IN IF free = {} THEN Refused ELSE Join(Front(p), [Last(p) EXCEPT !.n = Min(free)])

KeepBoth ==
    /\ vpAt.ok /\ vpAt.path # <<>> /\ "write" \in vpAt.perms /\ vpHand # NoHand
    /\ <<vpAt.share, vpAt.path>> \in vpDisk
    /\ uniqueSiblingName(vpAt.share, vpAt.path).ok
    /\ vpDisk' = vpDisk \union {<<vpAt.share, uniqueSiblingName(vpAt.share, vpAt.path).path>>}
    /\ vpHand' = NoHand /\ UNCHANGED <<vpGrants, vpAt, vpLeft>>

VpNext == ListRoots \/ Ask \/ Follow \/ Propfind \/ Hit \/ Descend \/ KeepBoth

(***************************************************************************)
(* Properties                                                              *)
(***************************************************************************)

VpTypeOK ==
    /\ vpGrants \in VpGrantSets
    /\ vpAt.ok => vpAt.share \in DOMAIN ShareName /\ vpAt.perms # {}
    /\ vpHand.from \in {"none", "roots", "client", "listing", "hit"} /\ vpLeft \in 0..3

Duplicates == \E i, j \in DOMAIN labelledRoots : i # j /\ labelledRoots[i].label = labelledRoots[j].label

\* An address the server handed out leads back to what it was handed out for: through a listing at
\* any depth, a hit, either mount, and grants that overlap. The names on disk are normal ones and
\* no two roots carry one label.
Answered == vpAt.ok /\ vpHand.from \in {"roots", "listing", "hit"} /\ vpAt.self = Parse(vpHand.front, vpHand.segs).path
LeadsBack ==
    ~Duplicates /\ Answered /\ (\A i \in DOMAIN vpHand.path : IsNormalized(vpHand.path[i]))
        => vpAt.share = vpHand.share /\ vpAt.path = vpHand.path

\* Whatever the client spells, what is resolved lies inside a grant of this account, with no more
\* than the grants over it give, and no component of it is a dot, a control name or ill-formed.
StaysInside ==
    vpAt.ok => /\ \E i \in DOMAIN vpGrants : Covers(vpGrants[i], vpAt.share, vpAt.path)
               /\ vpAt.perms \subseteq Effective(vpAt.share, vpAt.path)
               /\ \A i \in DOMAIN vpAt.path : validateExisting(vpAt.path[i])
               /\ vpHand.from = "client" => \A i \in DOMAIN vpAt.self : IsNormalized(vpAt.self[i])

\* What rootFor's comment says of the projection: one label, one root.
FirstMatchIsOnlyMatch == ~Duplicates

\* What is listed can be opened, whatever spelling another program left on disk.
ListedOpens ==
    Answered => vpAt.path = vpHand.path
=============================================================================
