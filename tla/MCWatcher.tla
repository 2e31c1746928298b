----------------------------- MODULE MCWatcher -----------------------------
(***************************************************************************)
(* A working directory with a source, a subdirectory with a page, one with *)
(* a go.mod that the user may remove and make again, and an ignored build  *)
(* directory.                                                              *)
(***************************************************************************)
EXTENDS Watcher

CONSTANTS root, sub, late, build, src, mod, page

AppGo    == <<"app", "go">>
GoMod    == <<"go", "mod">>
PageHtml == <<"page", "html">>

MCDirOf  == (src :> root) @@ (mod :> late) @@ (page :> sub)
MCNameOf == (src :> AppGo) @@ (mod :> GoMod) @@ (page :> PageHtml)

InFiles(fun) == [f \in Files |-> fun[f]]
DirOfFiles   == InFiles(MCDirOf)
NameOfFiles  == InFiles(MCNameOf)

IgnoreGoMod  == {<<GoMod>>}
PlainHtml    == {<<"html">>}

\* Two stray bytes cost "page.html" its last two letters, and so on.
Shifted == (AppGo :> <<"", "">>) @@ (GoMod :> <<"", "m">>) @@ (PageHtml :> <<"", "ht">>)

=============================================================================
