----------------------------- MODULE MCScraper -----------------------------
(***************************************************************************)
(* Small instances of Scraper for TLC.                                     *)
(***************************************************************************)
EXTENDS Scraper

CONSTANT a1
=============================================================================
