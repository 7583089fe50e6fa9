-------------------------- MODULE MCBrowserSession --------------------------
(* A small instance of BrowserSession: a tab that makes two calls at a time *)
(* and one that makes a single one.                                         *)
EXTENDS BrowserSession, TLC

CONSTANTS w1, w2, s1, s2

TwoAndOne == (w1 :> {s1, s2}) @@ (w2 :> {s1})
=============================================================================
