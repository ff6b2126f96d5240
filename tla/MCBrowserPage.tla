--------------------------- MODULE MCBrowserPage ---------------------------
(* BrowserPage with two instances of the component and two calls.          *)
EXTENDS BrowserPage
=============================================================================
