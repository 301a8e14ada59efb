-------------------------------- MODULE Links --------------------------------
(***************************************************************************)
(* Directories and the symbolic links to them, as stat, lstat and realpath *)
(* show them, and what FileWatcher lets a watch follow.                    *)
(*                                                                         *)
(* A path is a sequence of names from the top of the file system; it may   *)
(* pass through links.  A directory has one real path.  The slash at the   *)
(* end of the paths of directories, which the code adds and takes away, is *)
(* left out, and so are relative paths and directories nobody may read.    *)
(***************************************************************************)
EXTENDS Naturals, FiniteSets, SequencesExt

CONSTANTS
    Real,      \* the directories, by their real paths
    LinkPaths, \* where symbolic links may be
    Remote     \* directories on a remote file system

ASSUME LinksAssumption ==
    /\ IsFiniteSet(Real) /\ \A d \in Real : d \in Seq(Nat)
    /\ <<>> \in Real /\ \A d \in Real \ {<<>>} : Front(d) \in Real
    /\ \A l \in LinkPaths : l \notin Real /\ Front(l) \in Real
    /\ Remote \subseteq Real

VARIABLES
    links,     \* symbolic link -> the directory it leads to
    mFollowSymlinks, mOutOfScopeLinks

flags == <<mFollowSymlinks, mOutOfScopeLinks>>

-----------------------------------------------------------------------------
(* The file system.                                                        *)

entry(d, n) ==
    LET p == Append(d, n) IN IF p \in DOMAIN links THEN links[p] ELSE p

\* The directory a path leads to, if there is one.
reached(p) == FoldLeft(LAMBDA S, n : {entry(d, n) : d \in S} \cap Real, {<<>>}, p)
getRealPath(p) == CHOOSE d \in Real : d \in reached(p)

fileNameFromPath(p) == Last(p)
pathRemoveFileName(p) == Front(p)

\* FileInfo: the mode of a path, after its last link and before it.
getInfo(p) == IF reached(p) = {} THEN "none" ELSE "directory"
getRealInfo(p) ==
    IF p # <<>> /\ \E d \in reached(pathRemoveFileName(p)) :
                      Append(d, fileNameFromPath(p)) \in DOMAIN links
    THEN "link" ELSE getInfo(p)
FileInfo(p, linkInfo) == IF linkInfo THEN getRealInfo(p) ELSE getInfo(p)
isDirectory(p) == FileInfo(p, FALSE) = "directory"
isLink(p) == FileInfo(p, TRUE) = "link"
linksTo(p) == {getRealPath(q) : q \in {r \in {p} : isLink(r)}}
isRemoteFS(p) == getRealPath(p) \in Remote

\* The subdirectories of a directory by their paths there, links among them, in
\* the order of their names.
filesInfoFromPath(p) ==
    LET here == {q \in Real \cup DOMAIN links : q # <<>> /\ pathRemoveFileName(q) = getRealPath(p)}
        sorted == SetToSortSeq({fileNameFromPath(q) : q \in here}, <)
    IN [i \in DOMAIN sorted |-> Append(p, sorted[i])]

-----------------------------------------------------------------------------
(* Links, and which of them a watch may follow.                            *)

\* What a path that is a link leads to, and the path of the directory it is in.
getLinkRealPath(p) == {[link |-> d, curPath |-> pathRemoveFileName(p)] : d \in linksTo(p)}

strStartsWith(start, str) == IsPrefix(start, str)

linkAllowed(curPath, link) ==
    (mFollowSymlinks /\ mOutOfScopeLinks) \/ strStartsWith(curPath, link)

\* followSymlinks() and allowOutOfScopeLinks(), at any time.
setFlags == mFollowSymlinks' \in BOOLEAN /\ mOutOfScopeLinks' \in BOOLEAN /\ UNCHANGED links

LinksInit ==
    /\ links \in UNION {[L -> Real] : L \in SUBSET LinkPaths}
    /\ mFollowSymlinks = FALSE /\ mOutOfScopeLinks = FALSE
=============================================================================
