---------------------------- MODULE MCSelectors -----------------------------
(* Selectors for TLC.                                                      *)
EXTENDS Selectors

\* One descriptor is waited for in both directions.
TwoFds == {<<0, "writable">>, <<0, "readable">>, <<1, "readable">>}
=============================================================================
