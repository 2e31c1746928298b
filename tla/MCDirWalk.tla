----------------------------- MODULE MCDirWalk -----------------------------
(* Three directories, two of them with one in each, one of those ignored.  *)
(* Their paths are those of other, shorter names.                          *)
EXTENDS DirWalk

CONSTANTS cwd, lib, util, build, obj, doc

Tree == [d \in Dirs \ {cwd} |-> CASE d \in {lib, build, doc} -> cwd
                                  [] d = util -> lib
                                  [] d = obj  -> build]

Homes       == {<<"/">>, <<"/", "h">>}
ShortNames  == SeqOf({"a", "b"}, 2) \ {<<>>}
ShortChains == SeqOf(ShortNames, 2)
AnyValues   == SeqOf({"a", "b", "/"}, 5)

=============================================================================
