----------------------------- MODULE MCSyncEngine -----------------------------
EXTENDS SyncEngine

(* A folder the synced folder cannot tell from another; the share, which   *)
(* may hold a file under a name the folder cannot hold; and a folder with  *)
(* a file.  The files' conflict copies have names of their own.            *)
twin == 1
shelf == 2
share == 3
shareFile == 4
shareCopy == 5
shareOther == 6
own == 7
ownFile == 8
ownCopy == 9
ownSecondCopy == 10

MCParent == SubSeq(<<0, 0, shelf, share, share, share, 0, own, own, own>>, 1, PathCount)
MCCopies == [p \in Paths |-> CASE p = ownFile -> <<ownCopy, ownSecondCopy>>
                               [] p = shareFile -> <<shareCopy>>
                               [] OTHER -> <<>>]
MCFolded == [p \in Paths |-> IF p = twin THEN own ELSE p]
MCFolders == {own, twin}
MCFiles == {ownFile, shareFile, shareOther}
MCWindowsNames == {shareOther}
MCSharedFiles == {shareFile, shareOther}
MCMounts == {share}
(* Nothing but the share, which is empty; and a folder with its file.      *)
MCStarts == LET bare == [p \in Paths |-> IF p \in {shelf, share} THEN Dir ELSE None]
            IN  {bare, [bare EXCEPT ![own] = Dir, ![ownFile] = 0]}
MCShared == {[p \in Paths |-> IF p \in {shelf, share} THEN Dir
                              ELSE IF p = shareFile THEN 0 ELSE None]}
=============================================================================
