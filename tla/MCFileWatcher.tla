---------------------------- MODULE MCFileWatcher ---------------------------
(* Small instances of FileWatcher.                                         *)
EXTENDS FileWatcher, TLC

CONSTANTS k1, a, f1, r1

OneContent == {k1 :> a}

OneFile == {f1}
WatcherOnly == {Loop, Api}
WithCaller == {Loop, Api, r1}
NoDeltaCaller == {}
=============================================================================
