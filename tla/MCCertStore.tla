---------------------------- MODULE MCCertStore -----------------------------
(* An instance of CertStore: a wildcard certificate and one that shares a   *)
(* name with it and has a wildcard of its own below.                        *)
EXTENDS CertStore

CONSTANTS a, b

MCOrder == <<a, b>>
MCCommon == a :> {<<"*", "x">>} @@ b :> {<<"w", "x">>}
MCAlt == a :> {<<"x">>, <<"w", "x">>} @@ b :> {<<"*", "v", "x">>}
MCServerNames == {<<"x">>, <<"w", "x">>, <<"u", "x">>, <<"u", "v", "x">>, <<"y">>}
=============================================================================
