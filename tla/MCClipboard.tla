---------------------------- MODULE MCClipboard ----------------------------
(***************************************************************************)
(* The instance of Clipboard for TLC: the server announces text and a      *)
(* picture, programs copy text, and two requests of one side may be on     *)
(* their way, so that an answer can be late for the next one.              *)
(***************************************************************************)
EXTENDS Clipboard

MCAnnouncements == {{"RDP_CF_UNICODETEXT", "RDP_CF_DIBV5"}}
MCCopies == {{"CF_TEXT"}}
=============================================================================
