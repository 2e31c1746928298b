---------------------------- MODULE MCCmonSystem ----------------------------
(* A source and a page in the working directory.  Two stray bytes cost the *)
(* names their last letters, which leaves "page.html" the extension that   *)
(* is passed over.                                                         *)
EXTENDS CmonSystem

CONSTANTS dir, src, page, p1, p2

AppGo    == <<"app", "go">>
PageHtml == <<"page", "html">>

DirOfFiles  == [f \in Files |-> dir]
NameOfFiles == [f \in Files |-> IF f = src THEN AppGo ELSE PageHtml]
Shifted     == (AppGo :> <<"", "">>) @@ (PageHtml :> <<"", "ht">>)
OnlyHt      == {<<"", "ht">>}

=============================================================================
