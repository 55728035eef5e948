---------------------------- MODULE MCRecognizer ----------------------------
EXTENDS Recognizer
=============================================================================
