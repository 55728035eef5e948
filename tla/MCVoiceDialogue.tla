--------------------------- MODULE MCVoiceDialogue ---------------------------
(* Requests with one place, with two, and each half of the latter.         *)
EXTENDS VoiceDialogue

MCUtterance == {{"Location"}, {"Location1", "Location2"}, {"Location1"}, {"Location2"}}
=============================================================================
