----------------------------- MODULE MCWin32Watch -----------------------------
(* Two directories, one of them with two names.                            *)
EXTENDS Win32Watch
SomePlaces == {<<"x", "a">>, <<"x", "b">>, <<"y", "a">>}
=============================================================================
