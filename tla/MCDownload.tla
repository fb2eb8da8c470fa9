----------------------------- MODULE MCDownload -----------------------------
(* Small instances of Download for TLC: one resource and its file.          *)
EXTENDS Download, TLC

CONSTANTS a, na

OneUri == [t \in Tasks |-> a]
OneName == [u \in Uris |-> na]
=============================================================================
