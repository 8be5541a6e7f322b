------------------------------- MODULE MCBbs -------------------------------
\* The lines of an I-frame, several at a time.
EXTENDS Bbs
MCTexts == {<<"run", "bye">>, <<"ext", "sh", "quit">>}
=============================================================================
