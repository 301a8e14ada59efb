---- MODULE MCWatchRoots ----
\* Two trees, one of them two levels deep.  Names are numbers: links are
\* 1 and 4, before and after the directories of their parents.  One directory is
\* on a remote file system.
EXTENDS WatchRoots

MCReal == {<<>>, <<2>>, <<2, 2>>, <<2, 3>>, <<3>>}
MCLinkPaths == {<<1>>, <<2, 2, 4>>}
MCRemote == {<<2, 3>>}
====
