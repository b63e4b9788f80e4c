---------------------------- MODULE MCDispatcher -----------------------------
\* Two folders with a script of the same name; two scripts define one command;
\* one command has a shared object too.
EXTENDS Dispatcher

CONSTANTS f1, f2, a, b, c1, c2

MCScripts == {<<f1, a>>, <<f1, b>>, <<f2, a>>}
MCInstalled == MCScripts \ {<<f1, b>>}
MCBecomes == (<<f1, a>> :> {"exec", "fails"}) @@ (<<f1, b>> :> {"noexec"}) @@ (<<f2, a>> :> {"exec", "wrecks"})
MCCommandOf == (<<f1, a>> :> c1) @@ (<<f1, b>> :> c2) @@ (<<f2, a>> :> c1)
MCObjects == {c2}
=============================================================================
