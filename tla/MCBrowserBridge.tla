--------------------------- MODULE MCBrowserBridge --------------------------
(***************************************************************************)
(* A small instance of BrowserBridge: two inference requests, and three    *)
(* calls of /login/start, each of which may open a login window.           *)
(***************************************************************************)
EXTENDS BrowserBridge

CONSTANTS r1, r2, c1, c2, c3

=============================================================================
