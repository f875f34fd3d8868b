---------------------------- MODULE MCManifestPager ----------------------------
(* Three rows over two seconds of two ticks, and pages of two rows.        *)
EXTENDS ManifestPager

ThreeRows == 1 .. 3
=============================================================================
