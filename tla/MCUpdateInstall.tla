--------------------------- MODULE MCUpdateInstall ---------------------------
(* Small instances of UpdateInstall for TLC. *)
EXTENDS UpdateInstall

\* A library that is new in this version, one that both versions have, the
\* source tree, and the executable.
Bundle == <<"codec.dll", "runtime.dll", "source", "macvnc-app.exe">>
Before == {"runtime.dll", "source", "macvnc-app.exe"}

\* The package of the new version, another build of it, a broken one, and the
\* package of the version that runs under the new name.
Package == [version |-> 2, size |-> 1, sound |-> TRUE]
Offers  == {Package, [Package EXCEPT !.size = 2], [Package EXCEPT !.sound = FALSE],
            [Package EXCEPT !.version = 1]}
=============================================================================
